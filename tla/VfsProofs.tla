----------------------------- MODULE VfsProofs -----------------------------
(***************************************************************************)
(* Proofs about Vfs, for every value of its constants: whatever operations *)
(* are called and whatever failures happen, the staging layer is typed,    *)
(* lists every staged transaction, keeps no intent without a patch, merges *)
(* nothing but the base and the staged edits, shows what intents staged    *)
(* once the crawl is over, and keeps the user's saves.                     *)
(***************************************************************************)
EXTENDS Vfs, TLAPS

(* The inductive invariant.                                                *)

\* Outside persist, no file is waiting to be written or open.
IdleIsClean == ~persisting => unwritten = {} /\ writing = None

\* The merged text of f in c is made of its base text in b and of the patches
\* staged by T in the order O.
Accounted(c, b, T, O, f) ==
  c[f] # None =>
    /\ b[f] # None
    /\ c[f] \subseteq b[f] \cup UNION {p.new_text : p \in Pending(T, O, f)}

CacheIsAccounted ==
  \A f \in File :
    Accounted(merged_cache, base, transactions, transaction_order, f)

IInv ==
  /\ TypeOK
  /\ IdleIsClean
  /\ StagedIsOrdered
  /\ IntentsBackedByPatches
  /\ CacheIsAccounted

-----------------------------------------------------------------------------
(* Lemmas about the operators.                                             *)

\* apply_edits yields a text.
LEMMA ApplyEditsType ==
  ASSUME NEW text \in Text, NEW patches \in SUBSET Patch
  PROVE  apply_edits(text, patches) \in Text
<1>1. ASSUME NEW p \in patches PROVE p.new_text \subseteq Change
  BY <1>1 DEF Patch, Text
<1>2. QED
  BY <1>1 DEF apply_edits, Text

\* Rebuilding merged texts yields merged texts.
LEMMA RebuiltType ==
  ASSUME NEW c \in [File -> {None} \cup Text],
         NEW b \in [File -> {None} \cup Text],
         NEW T \in SUBSET Patch, NEW O, NEW fs
  PROVE  Rebuilt(c, b, T, O, fs) \in [File -> {None} \cup Text]
<1> SUFFICES ASSUME NEW f \in File
             PROVE  Rebuilt(c, b, T, O, fs)[f] \in {None} \cup Text
  BY DEF Rebuilt
<1>1. CASE f \notin fs \/ b[f] = None
  BY <1>1 DEF Rebuilt
<1>2. CASE f \in fs /\ b[f] # None
  <2>1. b[f] \in Text
    BY <1>2
  <2>2. apply_edits(b[f], Pending(T, O, f)) \in Text
    BY <2>1, ApplyEditsType DEF Pending
  <2>3. QED
    BY <1>2, <2>2 DEF Rebuilt
<1>3. QED
  BY <1>1, <1>2

\* Rebuilding accounts for the rebuilt files, and leaves the others alone.
LEMMA RebuiltAccounted ==
  ASSUME NEW c \in [File -> {None} \cup Text],
         NEW b \in [File -> {None} \cup Text],
         NEW T, NEW O, NEW fs, NEW f \in File,
         (f \notin fs \/ b[f] = None) => Accounted(c, b, T, O, f)
  PROVE  Accounted(Rebuilt(c, b, T, O, fs), b, T, O, f)
<1>1. CASE f \notin fs \/ b[f] = None
  <2>1. Rebuilt(c, b, T, O, fs)[f] = c[f]
    BY <1>1 DEF Rebuilt
  <2>2. QED
    BY <1>1, <2>1 DEF Accounted
<1>2. CASE f \in fs /\ b[f] # None /\ Pending(T, O, f) = {}
  <2>1. Rebuilt(c, b, T, O, fs)[f] = None
    BY <1>2 DEF Rebuilt
  <2>2. QED
    BY <2>1 DEF Accounted
<1>3. CASE f \in fs /\ b[f] # None /\ Pending(T, O, f) # {}
  <2> DEFINE P == Pending(T, O, f)
  <2>1. Rebuilt(c, b, T, O, fs)[f] = apply_edits(b[f], P)
    BY <1>3 DEF Rebuilt
  <2>2. b[f] \in Text
    BY <1>3
  <2>3. apply_edits(b[f], P) \subseteq b[f] \cup UNION {p.new_text : p \in P}
    <3> HIDE DEF P
    <3> QED BY DEF apply_edits
  <2>4. QED
    BY <1>3, <2>1, <2>3 DEF Accounted
<1>4. QED
  BY <1>1, <1>2, <1>3

\* What is accounted for stays so when the pending edits of the file do not
\* shrink.
LEMMA AccountedMonotone ==
  ASSUME NEW c, NEW b, NEW T, NEW O, NEW T1, NEW O1, NEW f,
         Pending(T, O, f) \subseteq Pending(T1, O1, f),
         Accounted(c, b, T, O, f)
  PROVE  Accounted(c, b, T1, O1, f)
  BY DEF Accounted

-----------------------------------------------------------------------------
(* Typing of the log and of the base.                                      *)

Line == Patch \cup {Torn}

\* Every outcome of a log operation is a log.
LEMMA LogType ==
  ASSUME wal \in Seq(Line), wal_open \in BOOLEAN
  PROVE  /\ \A p \in Patch : AppendToLog(p) =>
              wal' \in Seq(Line) /\ wal_open' \in BOOLEAN
         /\ TruncateLog => wal' \in Seq(Line) /\ wal_open' \in BOOLEAN
         /\ LogAfterCrash \subseteq Seq(Line)
<1>1. ASSUME NEW line \in Line PROVE Written(wal, line) \in Seq(Line)
  BY DEF Written
<1>2. Torn \in Line /\ Patch \subseteq Line
  BY DEF Line
<1>3. ASSUME NEW p \in Patch, AppendToLog(p)
      PROVE  wal' \in Seq(Line) /\ wal_open' \in BOOLEAN
  BY <1>1, <1>2, <1>3 DEF AppendToLog, AppendResults
<1>4. ASSUME TruncateLog PROVE wal' \in Seq(Line) /\ wal_open' \in BOOLEAN
  <2>1. << >> \in Seq(Line)
    OBVIOUS
  <2>2. PICK r \in TruncateResults : wal' = r.wal /\ wal_open' = r.open
    BY <1>4 DEF TruncateLog
  <2>3. r.wal \in {<< >>, wal} /\ r.open \in BOOLEAN
    <3>1. \/ r = [wal |-> << >>, open |-> TRUE]
          \/ r \in [wal : {<< >>, wal}, open : BOOLEAN]
          \/ r = [wal |-> wal, open |-> FALSE]
      BY <2>2, Zenon DEF TruncateResults
    <3>2. CASE r \in [wal : {<< >>, wal}, open : BOOLEAN]
      BY <3>2
    <3>3. CASE r = [wal |-> << >>, open |-> TRUE]
      <4>1. r.wal = << >> /\ r.open = TRUE
        BY <3>3, Zenon
      <4>2. QED
        BY <4>1, Zenon
    <3>4. CASE r = [wal |-> wal, open |-> FALSE]
      <4>1. r.wal = wal /\ r.open = FALSE
        BY <3>4, Zenon
      <4>2. QED
        BY <4>1, Zenon
    <3>5. QED
      BY <3>1, <3>2, <3>3, <3>4
  <2>4. QED
    BY <2>1, <2>2, <2>3
<1>5. ASSUME NEW n \in 0..Len(wal) PROVE SubSeq(wal, 1, n) \in Seq(Line)
  BY DEF Line
<1>6. LogAfterCrash \subseteq Seq(Line)
  BY <1>1, <1>2, <1>5 DEF LogAfterCrash
<1>7. QED
  BY <1>3, <1>4, <1>6

\* What recovery reads from a log is a set of patches.
LEMMA ReadAllType ==
  ASSUME NEW lines \in Seq(Line)
  PROVE  read_all(lines) \subseteq Patch
  BY DEF read_all, Line

\* Loading a file on demand, or crawling, yields a base.
LEMMA BaseType ==
  ASSUME TypeOK
  PROVE  /\ CrawledBase \in [File -> {None} \cup Text]
         /\ CrawledCache \in [File -> {None} \cup Text]
         /\ \A b \in [File -> {None} \cup Text], f \in File :
              LoadedIfAbsent(b, f) \in [File -> {None} \cup Text]
         /\ \A f \in File : CacheAfterLoad(f) \in [File -> {None} \cup Text]
<1>0. transactions \in SUBSET Patch
  BY DEF TypeOK
<1>1. disk \in [File -> {None} \cup Text]
  BY DEF TypeOK
<1>2. CrawledBase \in [File -> {None} \cup Text]
  BY <1>1 DEF CrawledBase, TypeOK
<1>3. CrawledCache \in [File -> {None} \cup Text]
  BY <1>0, <1>1, RebuiltType DEF CrawledCache, TypeOK
<1>4. \A b \in [File -> {None} \cup Text], f \in File :
        LoadedIfAbsent(b, f) \in [File -> {None} \cup Text]
  BY <1>1 DEF LoadedIfAbsent
<1>5. ASSUME NEW f \in File
      PROVE  CacheAfterLoad(f) \in [File -> {None} \cup Text]
  <2>1. [merged_cache EXCEPT ![f] = None] \in [File -> {None} \cup Text]
    BY DEF TypeOK
  <2>2. [base EXCEPT ![f] = disk[f]] \in [File -> {None} \cup Text]
    BY DEF TypeOK
  <2>3. QED
    BY <1>0, <2>1, <2>2, RebuiltType DEF CacheAfterLoad
<1>6. QED
  BY <1>2, <1>3, <1>4, <1>5

\* The texts the model builds are texts, and are not None.
LEMMA TextType ==
  /\ EmptyText \in Text
  /\ OriginalText \in Text
  /\ \A text \in Text : text # None
  BY ConstantsAssumption DEF EmptyText, OriginalText, Text, Change

-----------------------------------------------------------------------------
(* Every step keeps the types.                                             *)

\* A freshly created VirtualFileSystem is typed.
LEMMA FreshType ==
  ASSUME NEW T \in SUBSET Patch, FreshOverlay(T)
  PROVE  /\ wal_open' \in BOOLEAN
         /\ base' \in [File -> {None} \cup Text]
         /\ transactions' \in SUBSET Patch
         /\ transaction_order' \in SUBSET Tx
         /\ merged_cache' \in [File -> {None} \cup Text]
         /\ file_locks' \in [File -> Tx \cup {None}]
         /\ draft_transactions' \in SUBSET Tx
         /\ staged_intents' \in [Tx -> SUBSET Intent]
         /\ persisting' = FALSE
         /\ unwritten' = {}
         /\ writing' = None
  BY DEF FreshOverlay, Patch

\* The patch intent_to_edit makes, from the loaded text of its file.
LEMMA EditType ==
  ASSUME NEW tx \in Tx, NEW f \in File, NEW e \in Edit,
         NEW b \in [File -> {None} \cup Text],
         NEW c \in [File -> {None} \cup Text],
         b[f] # None, NEW p \in EditOf(tx, f, e, b, c)
  PROVE  /\ p \in Patch
         /\ p.tx = tx /\ p.file = f /\ p.edit = e /\ p.at = Original
<1>1. PICK t \in {Shadow(c, b, f), b[f]} :
        p = [tx |-> tx, file |-> f, edit |-> e, at |-> Original,
             new_text |-> t \cup {e}]
  BY DEF EditOf
<1>2. t \in Text
  BY <1>1 DEF Shadow
<1>3. t \cup {e} \in Text
  BY <1>2 DEF Text, Change
<1>4. QED
  BY <1>1, <1>3 DEF Patch

\* Loading the file of an intent, and dropping what it squashes.
LEMMA SquashType ==
  ASSUME TypeOK, NEW f \in File, NEW gone,
         NEW b \in [File -> {None} \cup Text],
         NEW c \in [File -> {None} \cup Text]
  PROVE  /\ LoadedIfAbsent(b, f) \in [File -> {None} \cup Text]
         /\ LoadedIfAbsent(b, f)[f] # None
         /\ CacheAfterSquash(gone, f, b, c) \in [File -> {None} \cup Text]
<1>1. disk[f] \in Text
  BY DEF TypeOK
<1>2. LoadedIfAbsent(b, f) \in [File -> {None} \cup Text]
  BY <1>1 DEF LoadedIfAbsent
<1>3. LoadedIfAbsent(b, f)[f] # None
  BY <1>1, TextType DEF LoadedIfAbsent
<1>4. transactions \ PatchesOf(gone) \in SUBSET Patch
  BY DEF TypeOK
<1>5. QED
  BY <1>2, <1>3, <1>4, RebuiltType DEF CacheAfterSquash

\* What a successful stage_mutation does when it stages patch p for edit e.
MutateWith(tx, i, b, c, e, p) ==
  LET f    == fileOf[i]
      gone == Squashed(i)
  IN  /\ p.tx = tx /\ p.file = f /\ p.edit = e /\ p.at = Original
      /\ AppendToLog(p)
      /\ base' = LoadedIfAbsent(b, f)
      /\ transactions' = (transactions \ PatchesOf(gone)) \cup {p}
      /\ transaction_order' = OrderAfter(gone, tx)
      /\ merged_cache' = Rebuilt(CacheAfterSquash(gone, f, b, c), base',
                                 transactions', transaction_order', {f})
      /\ staged_intents' =
           [t \in Tx |-> (staged_intents[t] \ SquashedBy(i))
                         \cup (IF t = tx THEN {i} ELSE {})]
      /\ staged' = staged \cup {e}
      /\ UNCHANGED <<up, crawled, disk, file_locks, draft_transactions, io>>

LEMMA MutateShape ==
  ASSUME TypeOK, NEW tx \in Tx, NEW i \in Intent,
         NEW b \in [File -> {None} \cup Text],
         NEW c \in [File -> {None} \cup Text],
         Mutate(tx, i, b, c)
  PROVE  \E e \in Edit, p \in Patch : MutateWith(tx, i, b, c, e, p)
<1> DEFINE f    == fileOf[i]
           gone == Squashed(i)
           b1   == LoadedIfAbsent(b, f)
           c1   == CacheAfterSquash(gone, f, b, c)
<1>0. f \in File
  BY ConstantsAssumption
<1>1. PICK e \in Edit \ staged : \E p \in EditOf(tx, f, e, b1, c1) :
        /\ AppendToLog(p)
        /\ base' = b1
        /\ transactions' = (transactions \ PatchesOf(gone)) \cup {p}
        /\ transaction_order' = OrderAfter(gone, tx)
        /\ merged_cache' = Rebuilt(c1, b1, transactions', transaction_order', {f})
        /\ staged_intents' =
             [t \in Tx |-> (staged_intents[t] \ SquashedBy(i))
                           \cup (IF t = tx THEN {i} ELSE {})]
        /\ staged' = staged \cup {e}
        /\ UNCHANGED <<up, crawled, disk, file_locks, draft_transactions, io>>
  BY Zenon DEF Mutate
<1>2. /\ b1 \in [File -> {None} \cup Text]
      /\ b1[f] # None
      /\ c1 \in [File -> {None} \cup Text]
  BY <1>0, SquashType
<1> HIDE DEF f, gone, b1, c1
<1>3. PICK p \in EditOf(tx, f, e, b1, c1) :
        /\ AppendToLog(p)
        /\ base' = b1
        /\ transactions' = (transactions \ PatchesOf(gone)) \cup {p}
        /\ transaction_order' = OrderAfter(gone, tx)
        /\ merged_cache' = Rebuilt(c1, b1, transactions', transaction_order', {f})
        /\ staged_intents' =
             [t \in Tx |-> (staged_intents[t] \ SquashedBy(i))
                           \cup (IF t = tx THEN {i} ELSE {})]
        /\ staged' = staged \cup {e}
        /\ UNCHANGED <<up, crawled, disk, file_locks, draft_transactions, io>>
  BY <1>1
<1>4. p \in Patch /\ p.tx = tx /\ p.file = f /\ p.edit = e /\ p.at = Original
  BY <1>0, <1>2, EditType
<1>5. MutateWith(tx, i, b, c, e, p)
  BY <1>3, <1>4, Zenon DEF MutateWith, f, gone, b1, c1
<1>6. QED
  BY <1>4, <1>5

\* A successful stage_mutation keeps the types.
LEMMA MutateType ==
  ASSUME TypeOK, IdleIsClean, Serving,
         NEW tx \in Tx, NEW i \in Intent,
         NEW b \in [File -> {None} \cup Text],
         NEW c \in [File -> {None} \cup Text],
         Mutate(tx, i, b, c)
  PROVE  TypeOK'
<1> DEFINE f    == fileOf[i]
           gone == Squashed(i)
           c1   == CacheAfterSquash(gone, f, b, c)
<1>0. f \in File
  BY ConstantsAssumption
<1>1. PICK e \in Edit, p \in Patch : MutateWith(tx, i, b, c, e, p)
  BY MutateShape
<1>2. /\ AppendToLog(p)
      /\ base' = LoadedIfAbsent(b, f)
      /\ transactions' = (transactions \ PatchesOf(gone)) \cup {p}
      /\ transaction_order' = OrderAfter(gone, tx)
      /\ merged_cache' =
           Rebuilt(c1, base', transactions', transaction_order', {f})
      /\ staged_intents' =
           [t \in Tx |-> (staged_intents[t] \ SquashedBy(i))
                         \cup (IF t = tx THEN {i} ELSE {})]
      /\ staged' = staged \cup {e}
      /\ UNCHANGED <<up, crawled, disk, file_locks, draft_transactions, io>>
  BY <1>1, Zenon DEF MutateWith
<1>3. wal' \in Seq(Line) /\ wal_open' \in BOOLEAN
  BY <1>2, LogType DEF TypeOK, Line
<1>4. /\ base' \in [File -> {None} \cup Text]
      /\ c1 \in [File -> {None} \cup Text]
  BY <1>0, <1>2, SquashType
<1>5. transactions' \in SUBSET Patch
  BY <1>2 DEF TypeOK
<1>6. transaction_order' \in SUBSET Tx
  BY <1>2 DEF TypeOK, OrderAfter
<1> HIDE DEF f, gone, c1
<1>7. merged_cache' \in [File -> {None} \cup Text]
  BY <1>2, <1>4, <1>5, RebuiltType
<1>8. staged_intents' \in [Tx -> SUBSET Intent]
  BY <1>2 DEF TypeOK
<1>9. staged' \in SUBSET Edit
  BY <1>2 DEF TypeOK
<1>10. unwritten' = {} /\ writing' = None
  BY <1>2 DEF IdleIsClean, Serving, io
<1>11. QED
  BY <1>2, <1>3, <1>4, <1>5, <1>6, <1>7, <1>8, <1>9, <1>10
     DEF TypeOK, Line, io

\* A patch staged by the library keeps the types.
LEMMA StageType ==
  ASSUME TypeOK, IdleIsClean, NEW tx \in Tx, NEW f \in File, Stage(tx, f),
         draft_transactions' \in SUBSET Tx
  PROVE  TypeOK'
<1>1. PICK e \in Edit \ staged :
        LET p == [tx |-> tx, file |-> f, edit |-> e, at |-> Below,
                  new_text |-> {e}]
        IN  /\ AppendToLog(p)
            /\ transactions' = transactions \cup {p}
            /\ transaction_order' = transaction_order \cup {tx}
            /\ merged_cache' = Rebuilt(merged_cache, base, transactions',
                                       transaction_order', {f})
            /\ staged' = staged \cup {e}
  BY Zenon DEF Stage
<1> DEFINE p == [tx |-> tx, file |-> f, edit |-> e, at |-> Below,
                 new_text |-> {e}]
<1>2. p \in Patch
  BY DEF Patch, Text, Change
<1>3. wal' \in Seq(Line) /\ wal_open' \in BOOLEAN
  BY <1>1, <1>2, LogType DEF TypeOK, Line
<1>4. transactions' \in SUBSET Patch /\ transaction_order' \in SUBSET Tx
  BY <1>1, <1>2 DEF TypeOK
<1>5. merged_cache' \in [File -> {None} \cup Text]
  BY <1>1, <1>4, RebuiltType DEF TypeOK
<1>6. unwritten' = {} /\ writing' = None
  BY DEF Stage, IdleIsClean, Serving, io
<1>7. staged' \in SUBSET Edit
  BY <1>1 DEF TypeOK
<1>8. UNCHANGED <<up, crawled, disk, base, file_locks, staged_intents, io>>
  BY DEF Stage
<1> HIDE DEF p
<1>9. QED
  BY <1>3, <1>4, <1>5, <1>6, <1>7, <1>8 DEF TypeOK, Line, io

\* Lifecycle steps keep the types.
LEMMA LifecycleType ==
  ASSUME TypeOK, IdleIsClean, Lifecycle
  PROVE  TypeOK' /\ IdleIsClean'
<1>1. CASE RecoverFromWal
  <2>1. read_all(wal) \in SUBSET Patch
    BY ReadAllType DEF TypeOK, Line
  <2>2. QED
    BY <1>1, <2>1, FreshType
       DEF RecoverFromWal, TypeOK, IdleIsClean
<1>2. CASE ScanProject
  <2>1. disk \in [File -> {None} \cup Text]
    BY DEF TypeOK
  <2>2. merged_cache' \in [File -> {None} \cup Text]
    BY <1>2, <2>1, RebuiltType DEF ScanProject, TypeOK
  <2>3. unwritten' = {} /\ writing' = None
    BY <1>2 DEF ScanProject, IdleIsClean, io
  <2>4. QED
    BY <1>2, <2>1, <2>2, <2>3
       DEF ScanProject, TypeOK, IdleIsClean, store, log, io
<1>3. CASE Crash
  <2>2. wal' \in Seq(Line)
    BY <1>3, LogType DEF Crash, TypeOK, Line
  <2>3. QED
    BY <1>3, <2>2, FreshType DEF Crash, TypeOK, IdleIsClean, Line
<1>4. ASSUME NEW f \in File, IdeSave(f)
      PROVE  TypeOK' /\ IdleIsClean'
  <2>1. PICK lines \in SUBSET {Below} :
          disk' = [disk EXCEPT ![f] =
                     (disk[f] \ {Below}) \cup {Original, IdeEdit} \cup lines]
    BY <1>4 DEF IdeSave
  <2>2. (disk[f] \ {Below}) \cup {Original, IdeEdit} \cup lines \in Text
    BY DEF TypeOK, Text, Change
  <2>3. disk' \in [File -> Text]
    BY <2>1, <2>2 DEF TypeOK
  <2>4. QED
    BY <1>4, <2>3 DEF IdeSave, TypeOK, IdleIsClean, log, overlay, io
<1>5. QED
  BY <1>1, <1>2, <1>3, <1>4 DEF Lifecycle

\* Requests to stage keep the types.
LEMMA StageRequestType ==
  ASSUME TypeOK, IdleIsClean, StageRequest
  PROVE  TypeOK' /\ IdleIsClean'
<1>1. PICK tx \in Tx, i \in Intent :
        \/ RpcStage(tx, i)
        \/ RpcStageFails(tx, i)
        \/ StageUniversal(tx, i)
        \/ StageUniversalReviewed(tx, i)
        \/ StageUniversalFails(tx, i)
  BY Zenon DEF StageRequest
<1>2. fileOf[i] \in File
  BY ConstantsAssumption
<1>3. CASE RpcStage(tx, i)
  <2>1. base \in [File -> {None} \cup Text]
    BY DEF TypeOK
  <2>2. merged_cache \in [File -> {None} \cup Text]
    BY DEF TypeOK
  <2>3. Serving /\ Mutate(tx, i, base, merged_cache)
    BY <1>3 DEF RpcStage
  <2>4. TypeOK'
    BY <2>1, <2>2, <2>3, MutateType
  <2>5. io' = io
    BY <2>3 DEF Mutate, io
  <2>6. QED
    BY <2>4, <2>5 DEF IdleIsClean, io
<1>4. CASE RpcStageFails(tx, i)
  <2>1. base' \in [File -> {None} \cup Text]
    BY <1>2, <1>4, BaseType DEF RpcStageFails, TypeOK
  <2>2. QED
    BY <1>4, <2>1
       DEF RpcStageFails, TypeOK, IdleIsClean, store, log, overlay, io
<1>5. CASE StageUniversal(tx, i)
  <2>1. Serving /\ Mutate(tx, i, CrawledBase, CrawledCache)
    BY <1>5 DEF StageUniversal, UniversalRequest
  <2>2. TypeOK'
    BY <2>1, BaseType, MutateType
  <2>3. io' = io
    BY <2>1 DEF Mutate, io
  <2>4. QED
    BY <2>2, <2>3 DEF IdleIsClean, io
<1>6. CASE StageUniversalReviewed(tx, i)
  <2>1. base' \in [File -> {None} \cup Text]
    BY <1>6, BaseType DEF StageUniversalReviewed
  <2>2. merged_cache' \in [File -> {None} \cup Text]
    BY <1>6, BaseType DEF StageUniversalReviewed
  <2>3. staged' \in SUBSET Edit
    BY <1>6 DEF StageUniversalReviewed, TypeOK
  <2>4. unwritten' = {} /\ writing' = None
    BY <1>6 DEF StageUniversalReviewed, UniversalRequest, Serving, IdleIsClean, io
  <2>5. QED
    BY <1>6, <2>1, <2>2, <2>3, <2>4
       DEF StageUniversalReviewed, TypeOK, IdleIsClean, store, log, io
<1>7. CASE StageUniversalFails(tx, i)
  <2>1. base' \in [File -> {None} \cup Text]
    BY <1>7, BaseType DEF StageUniversalFails
  <2>2. merged_cache' \in [File -> {None} \cup Text]
    BY <1>7, BaseType, RebuiltType DEF StageUniversalFails, TypeOK
  <2>3. unwritten' = {} /\ writing' = None
    BY <1>7 DEF StageUniversalFails, UniversalRequest, Serving, IdleIsClean, io
  <2>4. /\ transactions' \in SUBSET Patch
        /\ transaction_order' \in SUBSET Tx
        /\ staged_intents' \in [Tx -> SUBSET Intent]
    BY <1>7 DEF StageUniversalFails, TypeOK
  <2>5. QED
    BY <1>7, <2>1, <2>2, <2>3, <2>4
       DEF StageUniversalFails, TypeOK, IdleIsClean, store, log, io
<1>8. QED
  BY <1>1, <1>3, <1>4, <1>5, <1>6, <1>7

\* The other requests keep the types.
LEMMA OtherRequestType ==
  ASSUME TypeOK, IdleIsClean, OtherRequest
  PROVE  TypeOK' /\ IdleIsClean'
<1> SUFFICES TypeOK' /\ unwritten' = {} /\ writing' = None
  BY DEF IdleIsClean
<1>0. unwritten' = {} /\ writing' = None
  BY DEF OtherRequest, Rollback, Heal, HardenWal, RegisterGhosts, Serving,
         IdleIsClean, io
<1>1. ASSUME NEW tx \in Tx, Rollback(tx) PROVE TypeOK'
  <2>1. transactions' \in SUBSET Patch
    BY <1>1 DEF Rollback, TypeOK
  <2>2. /\ file_locks' \in [File -> Tx \cup {None}]
        /\ staged_intents' \in [Tx -> SUBSET Intent]
    BY <1>1 DEF Rollback, LocksReleased, IntentsCleared, TypeOK
  <2>3. merged_cache' \in [File -> {None} \cup Text]
    BY <1>1, RebuiltType DEF Rollback, CacheWithout, TypeOK
  <2>4. QED
    BY <1>0, <1>1, <2>1, <2>2, <2>3 DEF Rollback, TypeOK, store, log, io
<1>2. CASE Heal
  <2>1. wal' \in Seq(Line) /\ wal_open' \in BOOLEAN
    BY <1>2, LogType DEF Heal, TypeOK, Line
  <2>2. QED
    BY <1>0, <1>2, <2>1 DEF Heal, TypeOK, Line, io
<1>3. CASE HardenWal
  <2>1. wal' \in Seq(Line) /\ wal_open' \in BOOLEAN
    BY <1>3, LogType DEF HardenWal, TypeOK, Line
  <2>2. QED
    BY <1>0, <1>3, <2>1 DEF HardenWal, TypeOK, Line, overlay, io
<1>4. ASSUME NEW f \in File, RegisterGhosts(f) PROVE TypeOK'
  <2>1. base' \in [File -> {None} \cup Text]
    BY <1>4 DEF RegisterGhosts, TypeOK
  <2>2. merged_cache' \in [File -> {None} \cup Text]
    BY <1>4, BaseType DEF RegisterGhosts
  <2>3. QED
    BY <1>0, <1>4, <2>1, <2>2 DEF RegisterGhosts, TypeOK, store, log, io
<1>5. QED
  BY <1>0, <1>1, <1>2, <1>3, <1>4 DEF OtherRequest

\* The steps of persist keep the types.
LEMMA PersistStepType ==
  ASSUME TypeOK, IdleIsClean, PersistStep
  PROVE  TypeOK' /\ IdleIsClean'
<1>1. CASE RpcCommit \/ RpcPersist
  <2>1. BeginPersist
    BY <1>1 DEF RpcCommit, RpcPersist
  <2>2. unwritten' \in SUBSET {f \in File : merged_cache[f] # None}
    BY <2>1 DEF BeginPersist, ToWrite
  <2>3. writing' = None
    BY <2>1 DEF BeginPersist, Serving, IdleIsClean
  <2>4. QED
    BY <2>1, <2>2, <2>3
       DEF BeginPersist, TypeOK, IdleIsClean, store, log, overlay
<1>2. ASSUME NEW f \in File, PersistOpen(f)
      PROVE  TypeOK' /\ IdleIsClean'
  <2>1. disk' \in [File -> Text]
    BY <1>2, TextType DEF PersistOpen, TypeOK
  <2>2. QED
    BY <1>2, <2>1 DEF PersistOpen, TypeOK, IdleIsClean, log, overlay
<1>3. CASE PersistWrite
  <2>1. writing \in File /\ merged_cache[writing] \in Text
    BY <1>3 DEF PersistWrite, TypeOK
  <2>2. disk' \in [File -> Text]
    BY <1>3, <2>1 DEF PersistWrite, TypeOK
  <2>3. persisting
    BY <1>3 DEF PersistWrite, IdleIsClean
  <2>4. QED
    BY <1>3, <2>2, <2>3 DEF PersistWrite, TypeOK, IdleIsClean, log, overlay
<1>4. CASE PersistFails
  BY <1>4 DEF PersistFails, TypeOK, IdleIsClean, store, log, overlay
<1>5. CASE PersistFinish
  <2>1. wal' \in Seq(Line) /\ wal_open' \in BOOLEAN
    BY <1>5, LogType DEF PersistFinish, TypeOK, Line
  <2>2. base' \in [File -> {None} \cup Text]
    BY <1>5 DEF PersistFinish, TypeOK
  <2>3. unwritten' = {} /\ writing' = None
    BY <1>5 DEF PersistFinish
  <2>4. QED
    BY <1>5, <2>1, <2>2, <2>3
       DEF PersistFinish, TypeOK, IdleIsClean, Line, overlay
<1>6. QED
  BY <1>1, <1>2, <1>3, <1>4, <1>5 DEF PersistStep

\* Calls of the library keep the types.
LEMMA LibraryCallType ==
  ASSUME TypeOK, IdleIsClean, LibraryCall
  PROVE  TypeOK' /\ IdleIsClean'
<1> SUFFICES TypeOK' /\ unwritten' = {} /\ writing' = None
  BY DEF IdleIsClean
<1>0. unwritten' = {} /\ writing' = None
  BY DEF LibraryCall, StagePatch, StageDraft, Stage, Prepare, Commit,
         ClearStaging, Serving, IdleIsClean, io
<1>1. ASSUME NEW tx \in Tx, NEW f \in File, StagePatch(tx, f) \/ StageDraft(tx, f)
      PROVE  TypeOK'
  <2>1. Stage(tx, f) /\ draft_transactions' \in SUBSET Tx
    BY <1>1 DEF StagePatch, StageDraft, TypeOK
  <2>2. QED
    BY <2>1, StageType
<1>2. ASSUME NEW tx \in Tx, Prepare(tx) PROVE TypeOK'
  <2>1. file_locks' \in [File -> Tx \cup {None}]
    BY <1>2 DEF Prepare, TypeOK
  <2>2. QED
    BY <1>0, <1>2, <2>1 DEF Prepare, TypeOK, store, log, io
<1>3. ASSUME NEW tx \in Tx, Commit(tx) PROVE TypeOK'
  <2> DEFINE fs    == FilesOf(PatchesOf({tx}))
             texts == [f \in File |-> IF read(f) # None THEN read(f) ELSE EmptyText]
  <2>1. texts \in [File -> Text]
    BY TextType DEF read, Shadow, TypeOK
  <2>2. base' \in [File -> {None} \cup Text] /\ disk' \in [File -> Text]
    <3>1. /\ base' = [f \in File |-> IF f \in fs THEN texts[f] ELSE base[f]]
          /\ disk' = [f \in File |-> IF f \in fs THEN texts[f] ELSE disk[f]]
      BY <1>3 DEF Commit
    <3> HIDE DEF fs, texts
    <3>2. QED
      BY <2>1, <3>1 DEF TypeOK
  <2>3. wal' \in Seq(Line) /\ wal_open' \in BOOLEAN
    BY <1>3, LogType DEF Commit, TypeOK, Line
  <2>4. merged_cache' \in [File -> {None} \cup Text]
    BY <1>3 DEF Commit, TypeOK
  <2>5. /\ file_locks' \in [File -> Tx \cup {None}]
        /\ staged_intents' \in [Tx -> SUBSET Intent]
    BY <1>3 DEF Commit, LocksReleased, IntentsCleared, TypeOK
  <2>6. transactions' \in SUBSET Patch
    BY <1>3 DEF Commit, TypeOK
  <2>7. /\ UNCHANGED <<up, crawled, transaction_order, draft_transactions,
                        persisting, staged>>
    BY <1>3 DEF Commit, io
  <2>8. QED
    BY <1>0, <2>2, <2>3, <2>4, <2>5, <2>6, <2>7 DEF TypeOK, Line
<1>4. CASE ClearStaging
  BY <1>0, <1>4 DEF ClearStaging, TypeOK, store, log, io
<1>5. QED
  BY <1>0, <1>1, <1>2, <1>3, <1>4 DEF LibraryCall

\* The types and the idleness of persist are inductive together.
LEMMA TypeStep ==
  ASSUME TypeOK, IdleIsClean, [Next]_vars
  PROVE  TypeOK' /\ IdleIsClean'
<1>1. CASE UNCHANGED vars
  BY <1>1 DEF vars, TypeOK, IdleIsClean, store, log, overlay, io
<1>2. CASE Next
  BY <1>2, LifecycleType, StageRequestType, OtherRequestType, PersistStepType,
     LibraryCallType DEF Next
<1>3. QED
  BY <1>1, <1>2

LEMMA TypeInit ==
  ASSUME Init
  PROVE  TypeOK /\ IdleIsClean
<1>1. wal \in Seq(Patch \cup {Torn})
  BY DEF Init
<1>2. disk \in [File -> Text]
  BY TextType DEF Init
<1>3. QED
  BY <1>1, <1>2 DEF Init, TypeOK, IdleIsClean

\* Every variable keeps its type, whatever operations are called and whatever
\* fails; what persist still has to write are files that have a merged text.
THEOREM TypeCorrect == Spec => []TypeOK
<1>1. Init => TypeOK /\ IdleIsClean
  BY TypeInit
<1>2. (TypeOK /\ IdleIsClean) /\ [Next]_vars => (TypeOK /\ IdleIsClean)'
  BY TypeStep
<1>3. QED
  BY <1>1, <1>2, PTL DEF Spec

-----------------------------------------------------------------------------
(* Every step keeps the staged transactions listed.                        *)

\* A step that removes patches only, or adds one whose id it also lists, keeps
\* every staged transaction in transaction_order.
LEMMA OrderStep ==
  ASSUME TypeOK, StagedIsOrdered, [Next]_vars
  PROVE  StagedIsOrdered'
<1>1. ASSUME NEW tx \in Tx, NEW i \in Intent,
             NEW b \in [File -> {None} \cup Text],
             NEW c \in [File -> {None} \cup Text], Mutate(tx, i, b, c)
      PROVE  StagedIsOrdered'
  <2>0. PICK e \in Edit, p \in Patch : MutateWith(tx, i, b, c, e, p)
    BY <1>1, MutateShape
  <2>1. /\ p.tx = tx
        /\ transactions' = (transactions \ PatchesOf(Squashed(i))) \cup {p}
        /\ transaction_order' = (transaction_order \ Squashed(i)) \cup {tx}
    BY <2>0 DEF MutateWith, OrderAfter
  <2>2. QED
    BY <2>1 DEF StagedIsOrdered, PatchesOf
<1>2. CASE Lifecycle
  BY <1>2 DEF Lifecycle, RecoverFromWal, ScanProject, Crash, IdeSave,
         FreshOverlay, overlay, StagedIsOrdered
<1>3. CASE StageRequest
  <2>1. ASSUME NEW tx \in Tx, NEW i \in Intent,
               RpcStage(tx, i) \/ StageUniversal(tx, i)
        PROVE  StagedIsOrdered'
    BY <1>1, <2>1, BaseType DEF RpcStage, StageUniversal, TypeOK
  <2>2. ASSUME NEW tx \in Tx, NEW i \in Intent,
               RpcStageFails(tx, i) \/ StageUniversalReviewed(tx, i)
        PROVE  StagedIsOrdered'
    BY <2>2 DEF RpcStageFails, StageUniversalReviewed, overlay, StagedIsOrdered
  <2>3. ASSUME NEW tx \in Tx, NEW i \in Intent, StageUniversalFails(tx, i)
        PROVE  StagedIsOrdered'
    BY <2>3 DEF StageUniversalFails, PatchesOf, StagedIsOrdered
  <2>4. QED
    BY <1>3, <2>1, <2>2, <2>3 DEF StageRequest
<1>4. CASE OtherRequest
  BY <1>4 DEF OtherRequest, Rollback, Heal, HardenWal, RegisterGhosts, overlay,
         StagedIsOrdered
<1>5. CASE PersistStep
  BY <1>5 DEF PersistStep, RpcCommit, RpcPersist, BeginPersist, PersistOpen,
         PersistWrite, PersistFails, PersistFinish, overlay, StagedIsOrdered
<1>6. CASE LibraryCall
  <2>1. ASSUME NEW tx \in Tx, NEW f \in File, Stage(tx, f)
        PROVE  StagedIsOrdered'
    BY <2>1 DEF Stage, StagedIsOrdered
  <2>2. ASSUME NEW tx \in Tx, Prepare(tx) \/ Commit(tx)
        PROVE  StagedIsOrdered'
    BY <2>2 DEF Prepare, Commit, StagedIsOrdered
  <2>3. CASE ClearStaging
    BY <2>3 DEF ClearStaging, StagedIsOrdered
  <2>4. QED
    BY <1>6, <2>1, <2>2, <2>3 DEF LibraryCall, StagePatch, StageDraft
<1>7. CASE UNCHANGED vars
  BY <1>7 DEF vars, overlay, StagedIsOrdered
<1>8. QED
  BY <1>2, <1>3, <1>4, <1>5, <1>6, <1>7 DEF Next

-----------------------------------------------------------------------------
(* Every step keeps the recorded intents backed.                           *)

\* A transaction loses its last patch only together with its intents.
LEMMA IntentsStep ==
  ASSUME TypeOK, IntentsBackedByPatches, [Next]_vars
  PROVE  IntentsBackedByPatches'
<1>1. ASSUME NEW tx \in Tx, NEW i \in Intent,
             NEW b \in [File -> {None} \cup Text],
             NEW c \in [File -> {None} \cup Text], Mutate(tx, i, b, c)
      PROVE  IntentsBackedByPatches'
  <2> DEFINE gone == Squashed(i)
  <2>0. PICK e \in Edit, p \in Patch : MutateWith(tx, i, b, c, e, p)
    BY <1>1, MutateShape
  <2>1. /\ p.tx = tx
        /\ transactions' = (transactions \ PatchesOf(gone)) \cup {p}
        /\ staged_intents' = [t \in Tx |-> (staged_intents[t] \ SquashedBy(i))
                                           \cup (IF t = tx THEN {i} ELSE {})]
    BY <2>0, Zenon DEF MutateWith
  <2>2. ASSUME NEW t \in Tx, staged_intents'[t] # {}
        PROVE  \E q \in transactions' : q.tx = t
    <3>1. CASE t = tx
      BY <2>1, <3>1
    <3>2. CASE t # tx
      <4>1. staged_intents[t] # {} /\ t \notin gone
        BY <2>1, <2>2, <3>2 DEF Squashed
      <4>2. PICK q \in transactions : q.tx = t
        BY <4>1 DEF IntentsBackedByPatches
      <4>3. q \in transactions'
        BY <2>1, <4>1, <4>2 DEF PatchesOf
      <4>4. QED
        BY <4>2, <4>3
    <3>3. QED
      BY <3>1, <3>2
  <2>3. QED
    BY <2>2 DEF IntentsBackedByPatches
<1>2. CASE Lifecycle
  BY <1>2 DEF Lifecycle, RecoverFromWal, ScanProject, Crash, IdeSave,
         FreshOverlay, overlay, IntentsBackedByPatches
<1>3. CASE StageRequest
  <2>1. ASSUME NEW tx \in Tx, NEW i \in Intent,
               RpcStage(tx, i) \/ StageUniversal(tx, i)
        PROVE  IntentsBackedByPatches'
    BY <1>1, <2>1, BaseType DEF RpcStage, StageUniversal, TypeOK
  <2>2. ASSUME NEW tx \in Tx, NEW i \in Intent,
               RpcStageFails(tx, i) \/ StageUniversalReviewed(tx, i)
        PROVE  IntentsBackedByPatches'
    BY <2>2 DEF RpcStageFails, StageUniversalReviewed, overlay,
                IntentsBackedByPatches
  <2>3. ASSUME NEW tx \in Tx, NEW i \in Intent, StageUniversalFails(tx, i)
        PROVE  IntentsBackedByPatches'
    <3>1. /\ transactions' = transactions \ PatchesOf(Squashed(i))
          /\ staged_intents' = [t \in Tx |-> staged_intents[t] \ SquashedBy(i)]
      BY <2>3 DEF StageUniversalFails
    <3>2. ASSUME NEW t \in Tx, staged_intents'[t] # {}
          PROVE  \E p \in transactions' : p.tx = t
      <4>1. staged_intents[t] # {} /\ t \notin Squashed(i)
        BY <3>1, <3>2 DEF Squashed
      <4>2. PICK p \in transactions : p.tx = t
        BY <4>1 DEF IntentsBackedByPatches
      <4>3. QED
        BY <3>1, <4>1, <4>2 DEF PatchesOf
    <3>3. QED
      BY <3>2 DEF IntentsBackedByPatches
  <2>4. QED
    BY <1>3, <2>1, <2>2, <2>3 DEF StageRequest
<1>4. ASSUME NEW tx \in Tx,
             transactions' = transactions \ PatchesOf({tx}),
             staged_intents' = IntentsCleared(tx)
      PROVE  IntentsBackedByPatches'
  <2>1. ASSUME NEW t \in Tx, staged_intents'[t] # {}
        PROVE  \E p \in transactions' : p.tx = t
    <3>1. t # tx /\ staged_intents[t] # {}
      BY <1>4, <2>1 DEF IntentsCleared, TypeOK
    <3>2. PICK p \in transactions : p.tx = t
      BY <3>1 DEF IntentsBackedByPatches
    <3>3. QED
      BY <1>4, <3>1, <3>2 DEF PatchesOf
  <2>2. QED
    BY <2>1 DEF IntentsBackedByPatches
<1>5. CASE OtherRequest
  <2>1. ASSUME NEW tx \in Tx, Rollback(tx) PROVE IntentsBackedByPatches'
    BY <1>4, <2>1 DEF Rollback
  <2>2. CASE Heal \/ HardenWal \/ \E f \in File : RegisterGhosts(f)
    BY <2>2 DEF Heal, HardenWal, RegisterGhosts, overlay, IntentsBackedByPatches
  <2>3. QED
    BY <1>5, <2>1, <2>2 DEF OtherRequest
<1>6. CASE PersistStep
  BY <1>6 DEF PersistStep, RpcCommit, RpcPersist, BeginPersist, PersistOpen,
         PersistWrite, PersistFails, PersistFinish, overlay,
         IntentsBackedByPatches
<1>7. CASE LibraryCall
  <2>1. ASSUME NEW tx \in Tx, NEW f \in File, Stage(tx, f)
        PROVE  IntentsBackedByPatches'
    BY <2>1 DEF Stage, IntentsBackedByPatches
  <2>2. ASSUME NEW tx \in Tx, Prepare(tx) PROVE IntentsBackedByPatches'
    BY <2>2 DEF Prepare, IntentsBackedByPatches
  <2>3. ASSUME NEW tx \in Tx, Commit(tx) PROVE IntentsBackedByPatches'
    BY <1>4, <2>3 DEF Commit
  <2>4. CASE ClearStaging
    BY <2>4 DEF ClearStaging, IntentsBackedByPatches
  <2>5. QED
    BY <1>7, <2>1, <2>2, <2>3, <2>4 DEF LibraryCall, StagePatch, StageDraft
<1>8. CASE UNCHANGED vars
  BY <1>8 DEF vars, overlay, IntentsBackedByPatches
<1>9. QED
  BY <1>2, <1>3, <1>5, <1>6, <1>7, <1>8 DEF Next

-----------------------------------------------------------------------------
(* Every step keeps the merged texts accounted for.                        *)

\* Texts rebuilt for new transactions T1 and a new order O1 are accounted for
\* when the texts left alone were, and their pending edits do not shrink.
LEMMA RebuiltAllAccounted ==
  ASSUME NEW c \in [File -> {None} \cup Text],
         NEW b \in [File -> {None} \cup Text],
         NEW T, NEW O, NEW T1, NEW O1, NEW fs,
         \A f \in File \ fs : Pending(T, O, f) \subseteq Pending(T1, O1, f),
         \A f \in File : f \notin fs \/ b[f] = None => Accounted(c, b, T, O, f)
  PROVE  \A f \in File : Accounted(Rebuilt(c, b, T1, O1, fs), b, T1, O1, f)
<1> SUFFICES ASSUME NEW f \in File
             PROVE  Accounted(Rebuilt(c, b, T1, O1, fs), b, T1, O1, f)
  OBVIOUS
<1>1. ASSUME f \notin fs PROVE Accounted(c, b, T1, O1, f)
  BY <1>1, AccountedMonotone
<1>2. ASSUME b[f] = None PROVE Accounted(c, b, T1, O1, f)
  BY <1>2 DEF Accounted
<1>3. QED
  BY <1>1, <1>2, RebuiltAccounted

\* Taking the transactions in txs away leaves the pending edits of the files
\* they do not touch.
LEMMA PendingAfterRemoval ==
  ASSUME NEW txs, NEW T1, NEW O1, NEW f \in File,
         f \notin FilesOf(PatchesOf(txs)),
         transactions \ PatchesOf(txs) \subseteq T1,
         transaction_order \ txs \subseteq O1
  PROVE  Pending(transactions, transaction_order, f) \subseteq Pending(T1, O1, f)
<1> SUFFICES ASSUME NEW q \in transactions, q.file = f, q.tx \in transaction_order
             PROVE  q \in Pending(T1, O1, f)
  BY DEF Pending
<1>1. q.tx \notin txs
  BY DEF FilesOf, PatchesOf
<1>2. q \in T1 /\ q.tx \in O1
  BY <1>1 DEF PatchesOf
<1>3. QED
  BY <1>2 DEF Pending

\* What the crawl of a cold stage_universal builds is accounted for.
LEMMA CrawledAccounted ==
  ASSUME TypeOK, CacheIsAccounted
  PROVE  \A f \in File : Accounted(CrawledCache, CrawledBase, transactions,
                                   transaction_order, f)
<1>1. CASE Cold
  <2>1. disk \in [File -> {None} \cup Text] /\ \A f \in File : disk[f] # None
    BY TextType DEF TypeOK
  <2>2. \A f \in File : Accounted(
          Rebuilt(merged_cache, disk, transactions, transaction_order, File),
          disk, transactions, transaction_order, f)
    BY <2>1, RebuiltAccounted DEF TypeOK
  <2>3. QED
    BY <1>1, <2>2 DEF CrawledCache, CrawledBase
<1>2. CASE ~Cold
  BY <1>2 DEF CrawledCache, CrawledBase, CacheIsAccounted
<1>3. QED
  BY <1>1, <1>2

\* A successful stage_mutation keeps the merged texts accounted for: first what
\* it squashes goes, then its own edit comes.
LEMMA MutateAccounted ==
  ASSUME TypeOK, NEW tx \in Tx, NEW i \in Intent,
         NEW b \in [File -> {None} \cup Text],
         NEW c \in [File -> {None} \cup Text],
         \A f \in File : Accounted(c, b, transactions, transaction_order, f),
         Mutate(tx, i, b, c)
  PROVE  CacheIsAccounted'
<1> DEFINE f0   == fileOf[i]
           gone == Squashed(i)
           T1   == transactions \ PatchesOf(gone)
           O1   == transaction_order \ gone
           b1   == LoadedIfAbsent(b, f0)
           c1   == CacheAfterSquash(gone, f0, b, c)
           fs   == FilesOf(PatchesOf(gone)) \cup (IF b[f0] = None THEN {f0} ELSE {})
<1>0. f0 \in File
  BY ConstantsAssumption
<1>1. /\ base' = b1
      /\ T1 \subseteq transactions'
      /\ O1 \subseteq transaction_order'
      /\ merged_cache' = Rebuilt(c1, b1, transactions', transaction_order', {f0})
  <2>1. PICK e \in Edit, p \in Patch : MutateWith(tx, i, b, c, e, p)
    BY MutateShape
  <2>2. QED
    BY <2>1, Zenon DEF MutateWith, OrderAfter
<1>2. /\ b1 \in [File -> {None} \cup Text]
      /\ b1[f0] # None
      /\ c1 \in [File -> {None} \cup Text]
  BY <1>0, SquashType
<1>3. \A f \in File \ fs : Pending(transactions, transaction_order, f)
                          \subseteq Pending(T1, O1, f)
  BY PendingAfterRemoval
<1>4. ASSUME NEW f \in File, f \notin fs \/ b1[f] = None
      PROVE  Accounted(c, b1, transactions, transaction_order, f)
  <2>1. b1[f] = b[f]
    BY <1>0, <1>2, <1>4 DEF LoadedIfAbsent
  <2>2. QED
    BY <2>1 DEF Accounted
<1>5. c1 = Rebuilt(c, b1, T1, O1, fs)
  BY DEF CacheAfterSquash
<1> HIDE DEF f0, gone, T1, O1, b1, c1, fs
<1>6. \A f \in File : Accounted(c1, b1, T1, O1, f)
  BY <1>2, <1>3, <1>4, <1>5, RebuiltAllAccounted
<1>7. \A f \in File : Pending(T1, O1, f)
                       \subseteq Pending(transactions', transaction_order', f)
  BY <1>1 DEF Pending
<1>8. \A f \in File : Accounted(
        Rebuilt(c1, b1, transactions', transaction_order', {f0}), b1,
        transactions', transaction_order', f)
  BY <1>2, <1>6, <1>7, RebuiltAllAccounted
<1>9. QED
  BY <1>1, <1>8 DEF CacheIsAccounted

\* Lifecycle steps, requests to stage.
LEMMA CacheLifecycle ==
  ASSUME TypeOK, CacheIsAccounted, Lifecycle
  PROVE  CacheIsAccounted'
<1>1. CASE RecoverFromWal \/ Crash
  <2>1. merged_cache' = [f \in File |-> None]
    BY <1>1 DEF RecoverFromWal, Crash, FreshOverlay
  <2>2. QED
    BY <2>1 DEF CacheIsAccounted, Accounted
<1>2. CASE ScanProject
  <2>1. disk \in [File -> {None} \cup Text] /\ \A f \in File : disk[f] # None
    BY TextType DEF TypeOK
  <2>2. /\ base' = disk
        /\ transactions' = transactions
        /\ transaction_order' = transaction_order
        /\ merged_cache' = Rebuilt([f \in File |-> None], disk, transactions,
                                   transaction_order, File)
    BY <1>2 DEF ScanProject
  <2>3. [f \in File |-> None] \in [File -> {None} \cup Text]
    OBVIOUS
  <2>4. \A f \in File : Accounted(
          Rebuilt([g \in File |-> None], disk, transactions, transaction_order,
                  File), disk, transactions, transaction_order, f)
    BY <2>1, <2>3, RebuiltAccounted
  <2>5. QED
    BY <2>2, <2>4 DEF CacheIsAccounted
<1>3. ASSUME NEW f \in File, IdeSave(f) PROVE CacheIsAccounted'
  BY <1>3 DEF IdeSave, overlay, CacheIsAccounted
<1>4. QED
  BY <1>1, <1>2, <1>3 DEF Lifecycle

LEMMA CacheStageRequest ==
  ASSUME TypeOK, CacheIsAccounted, StageRequest
  PROVE  CacheIsAccounted'
<1>1. ASSUME NEW tx \in Tx, NEW i \in Intent, RpcStage(tx, i)
      PROVE  CacheIsAccounted'
  BY <1>1, MutateAccounted DEF RpcStage, TypeOK, CacheIsAccounted
<1>2. ASSUME NEW tx \in Tx, NEW i \in Intent, RpcStageFails(tx, i)
      PROVE  CacheIsAccounted'
  BY <1>2 DEF RpcStageFails, overlay, LoadedIfAbsent, TypeOK, CacheIsAccounted,
              Accounted
<1>3. ASSUME NEW tx \in Tx, NEW i \in Intent, StageUniversal(tx, i)
      PROVE  CacheIsAccounted'
  BY <1>3, BaseType, CrawledAccounted, MutateAccounted DEF StageUniversal
<1>4. ASSUME NEW tx \in Tx, NEW i \in Intent, StageUniversalReviewed(tx, i)
      PROVE  CacheIsAccounted'
  BY <1>4, CrawledAccounted DEF StageUniversalReviewed, CacheIsAccounted
<1>5. ASSUME NEW tx \in Tx, NEW i \in Intent, StageUniversalFails(tx, i)
      PROVE  CacheIsAccounted'
  <2> DEFINE gone == Squashed(i)
             fs   == FilesOf(PatchesOf(gone))
  <2>1. /\ base' = CrawledBase
        /\ transactions' = transactions \ PatchesOf(gone)
        /\ transaction_order' = transaction_order \ gone
        /\ merged_cache' = Rebuilt(CrawledCache, CrawledBase, transactions',
                                   transaction_order', fs)
    BY <1>5 DEF StageUniversalFails
  <2>2. \A f \in File \ fs : Pending(transactions, transaction_order, f)
                          \subseteq Pending(transactions', transaction_order', f)
    BY <2>1, PendingAfterRemoval
  <2> HIDE DEF gone, fs
  <2>3. QED
    BY <2>1, <2>2, BaseType, CrawledAccounted, RebuiltAllAccounted
       DEF CacheIsAccounted
<1>6. QED
  BY <1>1, <1>2, <1>3, <1>4, <1>5 DEF StageRequest

LEMMA CacheOtherRequest ==
  ASSUME TypeOK, CacheIsAccounted, OtherRequest
  PROVE  CacheIsAccounted'
<1>1. ASSUME NEW tx \in Tx, Rollback(tx) PROVE CacheIsAccounted'
  <2> DEFINE fs == FilesOf(PatchesOf({tx}))
  <2>1. /\ base' = base
        /\ transactions' = transactions \ PatchesOf({tx})
        /\ transaction_order' = transaction_order
        /\ merged_cache' = Rebuilt(merged_cache, base, transactions',
                                   transaction_order', fs)
    BY <1>1 DEF Rollback, CacheWithout
  <2>2. \A f \in File \ fs : Pending(transactions, transaction_order, f)
                          \subseteq Pending(transactions', transaction_order', f)
    BY <2>1, PendingAfterRemoval
  <2> HIDE DEF fs
  <2>3. QED
    BY <2>1, <2>2, RebuiltAllAccounted DEF TypeOK, CacheIsAccounted
<1>2. CASE Heal
  BY <1>2 DEF Heal, CacheIsAccounted, Accounted
<1>3. CASE HardenWal
  BY <1>3 DEF HardenWal, overlay, CacheIsAccounted
<1>4. ASSUME NEW f \in File, RegisterGhosts(f) PROVE CacheIsAccounted'
  <2> DEFINE c1 == [merged_cache EXCEPT ![f] = None]
             b1 == [base EXCEPT ![f] = disk[f]]
  <2>1. /\ base' = b1
        /\ transactions' = transactions
        /\ transaction_order' = transaction_order
        /\ merged_cache' = Rebuilt(c1, b1, transactions, transaction_order, {f})
    BY <1>4 DEF RegisterGhosts, CacheAfterLoad
  <2>2. /\ c1 \in [File -> {None} \cup Text]
        /\ b1 \in [File -> {None} \cup Text]
    BY DEF TypeOK
  <2>3. ASSUME NEW g \in File
        PROVE  Accounted(c1, b1, transactions, transaction_order, g)
    BY DEF Accounted, CacheIsAccounted, TypeOK
  <2> HIDE DEF c1, b1
  <2>4. QED
    BY <2>1, <2>2, <2>3, RebuiltAccounted DEF CacheIsAccounted
<1>5. QED
  BY <1>1, <1>2, <1>3, <1>4 DEF OtherRequest

LEMMA CachePersistStep ==
  ASSUME TypeOK, CacheIsAccounted, PersistStep
  PROVE  CacheIsAccounted'
<1>1. CASE PersistFinish
  <2>1. /\ base' = [f \in File |-> IF merged_cache[f] # None
                                  THEN merged_cache[f] ELSE base[f]]
        /\ merged_cache' = merged_cache
    BY <1>1 DEF PersistFinish, overlay
  <2>2. QED
    BY <2>1 DEF CacheIsAccounted, Accounted
<1>2. CASE ~PersistFinish
  BY <1>2 DEF PersistStep, RpcCommit, RpcPersist, BeginPersist, PersistOpen,
         PersistWrite, PersistFails, store, overlay, CacheIsAccounted
<1>3. QED
  BY <1>1, <1>2

LEMMA CacheLibraryCall ==
  ASSUME TypeOK, CacheIsAccounted, LibraryCall
  PROVE  CacheIsAccounted'
<1>1. ASSUME NEW tx \in Tx, NEW f \in File, Stage(tx, f)
      PROVE  CacheIsAccounted'
  <2>1. /\ base' = base
        /\ transactions \subseteq transactions'
        /\ transaction_order \subseteq transaction_order'
        /\ merged_cache' = Rebuilt(merged_cache, base, transactions',
                                   transaction_order', {f})
    BY <1>1 DEF Stage
  <2>2. \A g \in File : Pending(transactions, transaction_order, g)
                    \subseteq Pending(transactions', transaction_order', g)
    BY <2>1 DEF Pending
  <2>3. QED
    BY <2>1, <2>2, RebuiltAllAccounted DEF TypeOK, CacheIsAccounted
<1>2. ASSUME NEW tx \in Tx, Prepare(tx) PROVE CacheIsAccounted'
  BY <1>2 DEF Prepare, CacheIsAccounted
<1>3. ASSUME NEW tx \in Tx, Commit(tx) PROVE CacheIsAccounted'
  <2> DEFINE fs == FilesOf(PatchesOf({tx}))
  <2>1. /\ transactions' = transactions \ PatchesOf({tx})
        /\ transaction_order' = transaction_order
        /\ merged_cache' = [f \in File |-> IF f \in fs THEN None
                                          ELSE merged_cache[f]]
        /\ \A f \in File \ fs : base'[f] = base[f]
    BY <1>3 DEF Commit
  <2>2. \A f \in File \ fs : Pending(transactions, transaction_order, f)
                          \subseteq Pending(transactions', transaction_order', f)
    BY <2>1, PendingAfterRemoval
  <2> HIDE DEF fs
  <2>3. ASSUME NEW f \in File, f \notin fs
        PROVE  Accounted(merged_cache', base', transactions', transaction_order', f)
    <3>1. Accounted(merged_cache, base, transactions', transaction_order', f)
      BY <2>2, <2>3, AccountedMonotone DEF CacheIsAccounted
    <3>2. merged_cache'[f] = merged_cache[f] /\ base'[f] = base[f]
      BY <2>1, <2>3
    <3>3. QED
      BY <3>1, <3>2 DEF Accounted
  <2>4. ASSUME NEW f \in File, f \in fs
        PROVE  Accounted(merged_cache', base', transactions', transaction_order', f)
    BY <2>1, <2>4 DEF Accounted
  <2>5. QED
    BY <2>3, <2>4 DEF CacheIsAccounted
<1>4. CASE ClearStaging
  BY <1>4 DEF ClearStaging, CacheIsAccounted, Accounted
<1>5. QED
  BY <1>1, <1>2, <1>3, <1>4 DEF LibraryCall, StagePatch, StageDraft

\* The merged texts stay accounted for over every step.
LEMMA CacheStep ==
  ASSUME TypeOK, CacheIsAccounted, [Next]_vars
  PROVE  CacheIsAccounted'
<1>1. CASE UNCHANGED vars
  BY <1>1 DEF vars, overlay, CacheIsAccounted
<1>2. CASE Next
  BY <1>2, CacheLifecycle, CacheStageRequest, CacheOtherRequest,
     CachePersistStep, CacheLibraryCall DEF Next
<1>3. QED
  BY <1>1, <1>2

-----------------------------------------------------------------------------
(* The theorems.                                                           *)

\* The inductive invariant holds throughout.
THEOREM Inductive == Spec => []IInv
<1>1. Init => IInv
  BY TypeInit DEF Init, IInv, StagedIsOrdered, IntentsBackedByPatches,
     CacheIsAccounted, Accounted
<1>2. IInv /\ [Next]_vars => IInv'
  BY TypeStep, OrderStep, IntentsStep, CacheStep DEF IInv
<1>3. QED
  BY <1>1, <1>2, PTL DEF Spec

\* Every transaction that holds patches is listed in transaction_order, so that
\* none of them is staged, counted and journaled but never shown or written.
THEOREM StagedOrdered == Spec => []StagedIsOrdered
<1>1. IInv => StagedIsOrdered
  BY DEF IInv
<1>2. QED
  BY <1>1, Inductive, PTL

\* A transaction with recorded intents still holds patches, so that conflict
\* detection never raises a conflict against an edit that is gone.
THEOREM IntentsBacked == Spec => []IntentsBackedByPatches
<1>1. IInv => IntentsBackedByPatches
  BY DEF IInv
<1>2. QED
  BY <1>1, Inductive, PTL

\* A merged text is made of its base and of the edits still staged for the
\* file: one that was rolled back, squashed, healed or forgotten by a restart no
\* longer adds to what is served and written.
THEOREM MergedAreStaged == Spec => []MergedFromStaged
<1>1. IInv => MergedFromStaged
  BY DEF IInv, CacheIsAccounted, Accounted, MergedFromStaged
<1>2. QED
  BY <1>1, Inductive, PTL

\* A file lock passes from one transaction to another only by way of its
\* release: prepare refuses a file another transaction holds.
THEOREM LocksKept == Spec => LockNeverStolen
<1>1. [Next]_vars => \A f \in File : file_locks[f] # None =>
                       file_locks'[f] \in {file_locks[f], None}
  <2> SUFFICES ASSUME [Next]_vars, NEW f \in File, file_locks[f] # None
               PROVE  file_locks'[f] \in {file_locks[f], None}
    OBVIOUS
  <2>1. CASE Lifecycle
    BY <2>1 DEF Lifecycle, RecoverFromWal, ScanProject, Crash, IdeSave,
           FreshOverlay, overlay
  <2>2. CASE StageRequest
    <3>1. ASSUME NEW tx \in Tx, NEW i \in Intent, NEW b, NEW c, Mutate(tx, i, b, c)
          PROVE  UNCHANGED file_locks
      BY <3>1 DEF Mutate
    <3>2. ASSUME NEW tx \in Tx, NEW i \in Intent,
                 \/ RpcStageFails(tx, i)
                 \/ StageUniversalReviewed(tx, i)
                 \/ StageUniversalFails(tx, i)
          PROVE  UNCHANGED file_locks
      BY <3>2 DEF RpcStageFails, StageUniversalReviewed, StageUniversalFails,
             overlay
    <3>3. UNCHANGED file_locks
      BY <2>2, <3>1, <3>2 DEF StageRequest, RpcStage, StageUniversal
    <3>4. QED
      BY <3>3
  <2>3. CASE OtherRequest
    BY <2>3 DEF OtherRequest, Rollback, Heal, HardenWal, RegisterGhosts,
           LocksReleased, overlay
  <2>4. CASE PersistStep
    BY <2>4 DEF PersistStep, RpcCommit, RpcPersist, BeginPersist, PersistOpen,
           PersistWrite, PersistFails, PersistFinish, overlay
  <2>5. CASE LibraryCall
    <3>1. ASSUME NEW tx \in Tx, Prepare(tx)
          PROVE  file_locks'[f] \in {file_locks[f], None}
      BY <3>1 DEF Prepare, MayLock
    <3>2. CASE ~\E tx \in Tx : Prepare(tx)
      BY <2>5, <3>2 DEF LibraryCall, StagePatch, StageDraft, Stage, Commit,
             ClearStaging, LocksReleased
    <3>3. QED
      BY <3>1, <3>2
  <2>6. CASE UNCHANGED vars
    BY <2>6 DEF vars, overlay
  <2>7. QED
    BY <2>1, <2>2, <2>3, <2>4, <2>5, <2>6 DEF Next
<1>2. QED
  BY <1>1, PTL DEF Spec, LockNeverStolen

-----------------------------------------------------------------------------
(* Merged texts contain their base; the user's saves.                      *)

\* The merged text of f in c contains what the base text in b does, and is
\* empty when that is: no edit lands in an empty text.
Keeps(c, b, f) ==
  /\ c[f] # None =>
       /\ b[f] # None
       /\ b[f] \subseteq c[f]
  /\ b[f] = EmptyText => c[f] \in {None, EmptyText}

BaseIsKept == \A f \in File : Keeps(merged_cache, base, f)

\* Rebuilding keeps the base of the rebuilt files, and leaves the others alone.
LEMMA RebuiltKeeps ==
  ASSUME NEW c \in [File -> {None} \cup Text],
         NEW b \in [File -> {None} \cup Text],
         NEW T, NEW O, NEW fs,
         \A f \in File : f \notin fs \/ b[f] = None => Keeps(c, b, f)
  PROVE  \A f \in File : Keeps(Rebuilt(c, b, T, O, fs), b, f)
<1> SUFFICES ASSUME NEW f \in File
             PROVE  Keeps(Rebuilt(c, b, T, O, fs), b, f)
  OBVIOUS
<1>1. CASE f \notin fs \/ b[f] = None
  <2>1. Rebuilt(c, b, T, O, fs)[f] = c[f]
    BY <1>1 DEF Rebuilt
  <2>2. QED
    BY <1>1, <2>1 DEF Keeps
<1>2. CASE f \in fs /\ b[f] # None /\ Pending(T, O, f) = {}
  <2>1. Rebuilt(c, b, T, O, fs)[f] = None
    BY <1>2 DEF Rebuilt
  <2>2. QED
    BY <2>1 DEF Keeps
<1>3. CASE f \in fs /\ b[f] # None /\ Pending(T, O, f) # {}
  <2> DEFINE P == Pending(T, O, f)
  <2>1. Rebuilt(c, b, T, O, fs)[f] = apply_edits(b[f], P)
    BY <1>3 DEF Rebuilt
  <2>2. b[f] \in Text
    BY <1>3
  <2>3. /\ b[f] \subseteq apply_edits(b[f], P)
        /\ b[f] = EmptyText => apply_edits(b[f], P) = EmptyText
    <3> HIDE DEF P
    <3> QED BY DEF apply_edits, EmptyText
  <2>4. QED
    BY <1>3, <2>1, <2>3 DEF Keeps
<1>4. QED
  BY <1>1, <1>2, <1>3

\* Loading f leaves the texts that were kept so: there was no merged text of f.
LEMMA LoadedKeeps ==
  ASSUME NEW c, NEW b \in [File -> {None} \cup Text], NEW g \in File,
         disk[g] \in Text, \A f \in File : Keeps(c, b, f)
  PROVE  \A f \in File : Keeps(c, LoadedIfAbsent(b, g), f)
BY DEF LoadedIfAbsent, Keeps

\* What the crawl of a cold stage_universal builds keeps the base.
LEMMA CrawledKeeps ==
  ASSUME TypeOK, BaseIsKept
  PROVE  \A f \in File : Keeps(CrawledCache, CrawledBase, f)
<1>1. CASE Cold
  <2>1. disk \in [File -> {None} \cup Text] /\ \A f \in File : disk[f] # None
    BY TextType DEF TypeOK
  <2>2. \A f \in File : Keeps(
          Rebuilt(merged_cache, disk, transactions, transaction_order, File),
          disk, f)
    BY <2>1, RebuiltKeeps DEF TypeOK
  <2>3. QED
    BY <1>1, <2>2 DEF CrawledCache, CrawledBase
<1>2. CASE ~Cold
  BY <1>2 DEF CrawledCache, CrawledBase, BaseIsKept
<1>3. QED
  BY <1>1, <1>2

\* A successful stage_mutation keeps the base.
LEMMA MutateKeeps ==
  ASSUME TypeOK, NEW tx \in Tx, NEW i \in Intent,
         NEW b \in [File -> {None} \cup Text],
         NEW c \in [File -> {None} \cup Text],
         \A f \in File : Keeps(c, b, f),
         Mutate(tx, i, b, c)
  PROVE  BaseIsKept'
<1> DEFINE f0   == fileOf[i]
           gone == Squashed(i)
           b1   == LoadedIfAbsent(b, f0)
           c1   == CacheAfterSquash(gone, f0, b, c)
<1>0. f0 \in File /\ disk[f0] \in Text
  BY ConstantsAssumption DEF TypeOK
<1>1. /\ base' = b1
      /\ merged_cache' = Rebuilt(c1, b1, transactions', transaction_order', {f0})
  <2>1. PICK e \in Edit, p \in Patch : MutateWith(tx, i, b, c, e, p)
    BY MutateShape
  <2>2. QED
    BY <2>1, Zenon DEF MutateWith
<1>2. /\ b1 \in [File -> {None} \cup Text]
      /\ c1 \in [File -> {None} \cup Text]
      /\ \A f \in File : Keeps(c, b1, f)
  BY <1>0, SquashType, LoadedKeeps
<1>3. \A f \in File : Keeps(c1, b1, f)
  BY <1>2, RebuiltKeeps DEF CacheAfterSquash
<1> HIDE DEF f0, gone, b1, c1
<1>4. QED
  BY <1>1, <1>2, <1>3, RebuiltKeeps DEF BaseIsKept

\* The merged texts contain their base over every step.
LEMMA KeptStep ==
  ASSUME TypeOK, BaseIsKept, [Next]_vars
  PROVE  BaseIsKept'
<1>1. CASE Lifecycle
  <2>1. CASE RecoverFromWal \/ Crash
    BY <2>1 DEF RecoverFromWal, Crash, FreshOverlay, BaseIsKept, Keeps
  <2>2. CASE ScanProject
    <3>1. disk \in [File -> {None} \cup Text] /\ \A f \in File : disk[f] # None
      BY TextType DEF TypeOK
    <3>2. [f \in File |-> None] \in [File -> {None} \cup Text]
      OBVIOUS
    <3>3. /\ base' = disk
          /\ merged_cache' = Rebuilt([f \in File |-> None], disk, transactions,
                                     transaction_order, File)
      BY <2>2 DEF ScanProject
    <3>4. \A f \in File : Keeps(
            Rebuilt([g \in File |-> None], disk, transactions,
                    transaction_order, File), disk, f)
      BY <3>1, <3>2, RebuiltKeeps
    <3>5. QED
      BY <3>3, <3>4 DEF BaseIsKept
  <2>3. QED
    BY <1>1, <2>1, <2>2 DEF Lifecycle, IdeSave, overlay, BaseIsKept
<1>2. CASE StageRequest
  <2>1. ASSUME NEW tx \in Tx, NEW i \in Intent,
               RpcStage(tx, i) \/ StageUniversal(tx, i)
        PROVE  BaseIsKept'
    <3>1. CASE RpcStage(tx, i)
      BY <3>1, MutateKeeps DEF RpcStage, TypeOK, BaseIsKept
    <3>2. CASE StageUniversal(tx, i)
      BY <3>2, BaseType, CrawledKeeps, MutateKeeps DEF StageUniversal
    <3>3. QED
      BY <2>1, <3>1, <3>2
  <2>2. ASSUME NEW tx \in Tx, NEW i \in Intent, RpcStageFails(tx, i)
        PROVE  BaseIsKept'
    <3>1. fileOf[i] \in File /\ disk[fileOf[i]] \in Text
      BY ConstantsAssumption DEF TypeOK
    <3>2. base' = LoadedIfAbsent(base, fileOf[i]) /\ UNCHANGED merged_cache
      BY <2>2 DEF RpcStageFails, overlay
    <3>3. QED
      BY <3>1, <3>2, LoadedKeeps DEF BaseIsKept, TypeOK
  <2>3. ASSUME NEW tx \in Tx, NEW i \in Intent, StageUniversalReviewed(tx, i)
        PROVE  BaseIsKept'
    BY <2>3, CrawledKeeps DEF StageUniversalReviewed, BaseIsKept
  <2>4. ASSUME NEW tx \in Tx, NEW i \in Intent, StageUniversalFails(tx, i)
        PROVE  BaseIsKept'
    <3>1. /\ base' = CrawledBase
          /\ merged_cache' = Rebuilt(CrawledCache, CrawledBase, transactions',
               transaction_order', FilesOf(PatchesOf(Squashed(i))))
      BY <2>4 DEF StageUniversalFails
    <3>2. QED
      BY <3>1, BaseType, CrawledKeeps, RebuiltKeeps DEF BaseIsKept
  <2>5. QED
    BY <1>2, <2>1, <2>2, <2>3, <2>4 DEF StageRequest
<1>3. CASE OtherRequest
  <2>1. ASSUME NEW tx \in Tx, Rollback(tx) PROVE BaseIsKept'
    BY <2>1, RebuiltKeeps DEF Rollback, CacheWithout, TypeOK, BaseIsKept
  <2>2. CASE Heal \/ HardenWal
    BY <2>2 DEF Heal, HardenWal, overlay, BaseIsKept, Keeps
  <2>3. ASSUME NEW f \in File, RegisterGhosts(f) PROVE BaseIsKept'
    <3> DEFINE c1 == [merged_cache EXCEPT ![f] = None]
               b1 == [base EXCEPT ![f] = disk[f]]
    <3>1. /\ base' = b1
          /\ merged_cache' = Rebuilt(c1, b1, transactions, transaction_order, {f})
      BY <2>3 DEF RegisterGhosts, CacheAfterLoad
    <3>2. /\ c1 \in [File -> {None} \cup Text]
          /\ b1 \in [File -> {None} \cup Text]
      BY DEF TypeOK
    <3>3. \A g \in File : Keeps(c1, b1, g)
      BY DEF Keeps, BaseIsKept, TypeOK
    <3> HIDE DEF c1, b1
    <3>4. QED
      BY <3>1, <3>2, <3>3, RebuiltKeeps DEF BaseIsKept
  <2>4. QED
    BY <1>3, <2>1, <2>2, <2>3 DEF OtherRequest
<1>4. CASE PersistStep
  <2>1. CASE PersistFinish
    BY <2>1 DEF PersistFinish, overlay, BaseIsKept, Keeps
  <2>2. QED
    BY <1>4, <2>1 DEF PersistStep, RpcCommit, RpcPersist, BeginPersist,
       PersistOpen, PersistWrite, PersistFails, store, overlay, BaseIsKept
<1>5. CASE LibraryCall
  <2>1. ASSUME NEW tx \in Tx, NEW f \in File, Stage(tx, f) PROVE BaseIsKept'
    BY <2>1, RebuiltKeeps DEF Stage, TypeOK, BaseIsKept
  <2>2. ASSUME NEW tx \in Tx, Commit(tx) PROVE BaseIsKept'
    BY <2>2 DEF Commit, BaseIsKept, Keeps
  <2>3. CASE ClearStaging
    BY <2>3 DEF ClearStaging, BaseIsKept, Keeps
  <2>4. QED
    BY <1>5, <2>1, <2>2, <2>3 DEF LibraryCall, StagePatch, StageDraft, Prepare,
       BaseIsKept
<1>6. CASE UNCHANGED vars
  BY <1>6 DEF vars, overlay, BaseIsKept
<1>7. QED
  BY <1>1, <1>2, <1>3, <1>4, <1>5, <1>6 DEF Next

\* Whatever is staged, rolled back, healed or loaded, the merged text of a file contains
\* what its base text does.
THEOREM Kept == Spec => []BaseIsKept
<1>1. Init => BaseIsKept
  BY DEF Init, BaseIsKept, Keeps
<1>2. TypeOK /\ BaseIsKept /\ [Next]_vars => BaseIsKept'
  BY KeptStep
<1>3. QED
  BY <1>1, <1>2, TypeCorrect, PTL DEF Spec

\* While persist runs, a merged text it is done with has the user's save only
\* where the disk has it: either persist wrote that text, or it is the base.
PersistKeepsSaves ==
  persisting => \A f \in File :
    /\ f \notin unwritten
    /\ merged_cache[f] # None /\ IdeEdit \in merged_cache[f]
    /\ disk[f] # EmptyText
    => IdeEdit \in disk[f]

\* Steps of persist keep what the user saved and the sidecar has loaded.
LEMMA SavesPersist ==
  ASSUME TypeOK, IdleIsClean, BaseIsKept, LoadedSavesSurvive, PersistKeepsSaves,
         PersistStep
  PROVE  LoadedSavesSurvive' /\ PersistKeepsSaves'
<1> USE DEF LoadedSavesSurvive, PersistKeepsSaves
<1>1. CASE RpcCommit \/ RpcPersist
  <2>1. /\ UNCHANGED <<disk, base, merged_cache>>
        /\ unwritten' \in ToWrite
    BY <1>1 DEF RpcCommit, RpcPersist, BeginPersist, store, overlay
  <2>2. \A f \in File : f \notin unwritten' /\ merged_cache[f] # None
                         => merged_cache[f] = base[f]
    BY <2>1 DEF ToWrite
  <2>3. QED
    BY <2>1, <2>2
<1>2. ASSUME NEW f \in File, PersistOpen(f)
      PROVE  LoadedSavesSurvive' /\ PersistKeepsSaves'
  <2>1. /\ persisting
        /\ UNCHANGED <<base, merged_cache, persisting, unwritten>>
        /\ disk' = [disk EXCEPT ![f] = EmptyText]
    BY <1>2 DEF PersistOpen, overlay
  <2>2. disk'[f] = EmptyText /\ \A g \in File \ {f} : disk'[g] = disk[g]
    BY <2>1 DEF TypeOK
  <2>3. QED
    BY <2>1, <2>2
<1>3. CASE PersistWrite
  <2>1. /\ UNCHANGED <<base, merged_cache, persisting>>
        /\ unwritten' = unwritten \ {writing}
        /\ disk' = [disk EXCEPT ![writing] = merged_cache[writing]]
    BY <1>3 DEF PersistWrite, overlay
  <2>2. writing \in File /\ merged_cache[writing] # None /\ persisting
    BY <1>3 DEF PersistWrite, TypeOK, IdleIsClean
  <2>3. /\ disk'[writing] = merged_cache[writing]
        /\ \A g \in File \ {writing} : disk'[g] = disk[g]
    BY <2>1, <2>2 DEF TypeOK
  <2>4. base[writing] \subseteq merged_cache[writing]
    BY <2>2 DEF BaseIsKept, Keeps
  <2>5. QED
    BY <2>1, <2>2, <2>3, <2>4
<1>4. CASE PersistFails
  BY <1>4 DEF PersistFails, store
<1>5. CASE PersistFinish
  <2>1. /\ persisting /\ persisting' = FALSE /\ unwritten = {}
        /\ UNCHANGED disk
        /\ base' = [f \in File |-> IF merged_cache[f] # None
                                   THEN merged_cache[f] ELSE base[f]]
    BY <1>5 DEF PersistFinish
  <2>2. QED
    BY <2>1
<1>6. QED
  BY <1>1, <1>2, <1>3, <1>4, <1>5 DEF PersistStep

\* So does every step: a base is loaded from the disk, or written to it.
LEMMA SavesStep ==
  ASSUME TypeOK, IdleIsClean, BaseIsKept, LoadedSavesSurvive, PersistKeepsSaves,
         [Next]_vars
  PROVE  LoadedSavesSurvive' /\ PersistKeepsSaves'
<1> USE DEF LoadedSavesSurvive, PersistKeepsSaves
<1>0. ASSUME ~persisting', UNCHANGED disk,
             \A f \in File : base'[f] \in {base[f], disk[f], None}
      PROVE  LoadedSavesSurvive' /\ PersistKeepsSaves'
  BY <1>0
<1>1. \A f \in File : CrawledBase[f] \in {base[f], disk[f]}
  BY DEF CrawledBase
<1>2. CASE Lifecycle
  <2>1. CASE RecoverFromWal \/ Crash
    BY <1>0, <2>1 DEF RecoverFromWal, Crash, FreshOverlay
  <2>2. CASE ScanProject
    BY <1>0, <2>2 DEF ScanProject, store, io
  <2>3. ASSUME NEW f \in File, IdeSave(f)
        PROVE  LoadedSavesSurvive' /\ PersistKeepsSaves'
    <3>1. UNCHANGED <<base, merged_cache, persisting, unwritten>>
      BY <2>3 DEF IdeSave, overlay, io
    <3>2. /\ IdeEdit \in disk'[f]
          /\ \A g \in File \ {f} : disk'[g] = disk[g]
      BY <2>3 DEF IdeSave, TypeOK
    <3>3. QED
      BY <3>1, <3>2
  <2>4. QED
    BY <1>2, <2>1, <2>2, <2>3 DEF Lifecycle
<1>3. CASE StageRequest
  <2>1. PICK tx \in Tx, i \in Intent :
          \/ RpcStage(tx, i)
          \/ RpcStageFails(tx, i)
          \/ StageUniversal(tx, i)
          \/ StageUniversalReviewed(tx, i)
          \/ StageUniversalFails(tx, i)
    BY <1>3 DEF StageRequest
  <2>2. fileOf[i] \in File
    BY ConstantsAssumption
  <2>3. /\ UNCHANGED <<disk, persisting>>
        /\ \/ base' = LoadedIfAbsent(base, fileOf[i])
           \/ base' = LoadedIfAbsent(CrawledBase, fileOf[i])
           \/ base' = CrawledBase
    BY <2>1 DEF RpcStage, RpcStageFails, StageUniversal,
       StageUniversalReviewed, StageUniversalFails, Mutate, store, io
  <2>4. \A g \in File : base'[g] \in {base[g], disk[g]}
    BY <1>1, <2>2, <2>3, BaseType, SMTT(30) DEF LoadedIfAbsent, TypeOK
  <2>5. ~persisting
    BY <2>1 DEF RpcStage, RpcStageFails, StageUniversal, UniversalRequest,
       StageUniversalReviewed, StageUniversalFails, Serving
  <2>6. QED
    BY <1>0, <2>3, <2>4, <2>5
<1>4. CASE OtherRequest
  <2>1. UNCHANGED <<disk, persisting>> /\ ~persisting
    BY <1>4 DEF OtherRequest, Rollback, Heal, HardenWal, RegisterGhosts,
       Serving, store, io
  <2>2. \A f \in File : base'[f] \in {base[f], disk[f]}
    BY <1>4 DEF OtherRequest, Rollback, Heal, HardenWal, RegisterGhosts, TypeOK
  <2>3. QED
    BY <1>0, <2>1, <2>2
<1>5. CASE PersistStep
  BY <1>5, SavesPersist
<1>6. CASE LibraryCall
  <2>1. ASSUME NEW tx \in Tx, Commit(tx)
        PROVE  LoadedSavesSurvive' /\ PersistKeepsSaves'
    <3>1. \A f \in File : \/ base'[f] = base[f] /\ disk'[f] = disk[f]
                          \/ base'[f] = disk'[f]
      BY <2>1 DEF Commit
    <3>2. ~persisting'
      BY <2>1 DEF Commit, io, Serving
    <3>3. QED
      BY <3>1, <3>2
  <2>2. CASE ~\E tx \in Tx : Commit(tx)
    <3>1. UNCHANGED <<disk, base, persisting>> /\ ~persisting
      BY <1>6, <2>2 DEF LibraryCall, StagePatch, StageDraft, Stage, Prepare,
         ClearStaging, Serving, store, io
    <3>2. QED
      BY <1>0, <3>1
  <2>3. QED
    BY <2>1, <2>2
<1>7. CASE UNCHANGED vars
  BY <1>7 DEF vars, store, overlay, io
<1>8. QED
  BY <1>2, <1>3, <1>4, <1>5, <1>6, <1>7 DEF Next

\* Whatever the user saved in the editor and the sidecar has since loaded stays
\* on the disk, unless a write that was cut off leaves the file empty: every
\* operation and failure allowed.
THEOREM SavesSurvive == Spec => []LoadedSavesSurvive
<1>1. Init => LoadedSavesSurvive /\ PersistKeepsSaves
  BY DEF Init, LoadedSavesSurvive, PersistKeepsSaves
<1>2. /\ IInv /\ BaseIsKept /\ LoadedSavesSurvive /\ PersistKeepsSaves
      /\ [Next]_vars
      => LoadedSavesSurvive' /\ PersistKeepsSaves'
  BY SavesStep DEF IInv
<1>3. QED
  BY <1>1, <1>2, Inductive, Kept, PTL DEF Spec

-----------------------------------------------------------------------------
(* Staged patches are visible.                                             *)

\* Once the crawl is over, the base holds every file.
CrawledIsLoaded == crawled => \A f \in File : base[f] # None

LEMMA LoadedStep ==
  ASSUME TypeOK, CrawledIsLoaded, [Next]_vars
  PROVE  CrawledIsLoaded'
<1>1. \A f \in File : disk[f] # None
  BY TextType DEF TypeOK
<1>2. CASE Lifecycle
  BY <1>1, <1>2 DEF Lifecycle, RecoverFromWal, ScanProject, Crash, IdeSave,
     CrawledIsLoaded
<1>3. CASE StageRequest
  <2>1. /\ UNCHANGED crawled
        /\ \E f \in File : \/ base' = LoadedIfAbsent(base, f)
                           \/ base' = LoadedIfAbsent(CrawledBase, f)
                           \/ base' = CrawledBase
    <3>1. PICK tx \in Tx, i \in Intent :
            \/ RpcStage(tx, i)
            \/ RpcStageFails(tx, i)
            \/ StageUniversal(tx, i)
            \/ StageUniversalReviewed(tx, i)
            \/ StageUniversalFails(tx, i)
      BY <1>3 DEF StageRequest
    <3>2. fileOf[i] \in File
      BY ConstantsAssumption
    <3>3. /\ UNCHANGED crawled
          /\ \/ base' = LoadedIfAbsent(base, fileOf[i])
             \/ base' = LoadedIfAbsent(CrawledBase, fileOf[i])
             \/ base' = CrawledBase
      BY <3>1 DEF RpcStage, RpcStageFails, StageUniversal,
         StageUniversalReviewed, StageUniversalFails, Mutate
    <3>4. QED
      BY <3>2, <3>3
  <2>2. \A f \in File : base[f] # None => CrawledBase[f] # None
    BY <1>1 DEF CrawledBase
  <2>3. QED
    BY <1>1, <2>1, <2>2, BaseType DEF LoadedIfAbsent, CrawledIsLoaded, TypeOK
<1>4. CASE OtherRequest
  BY <1>1, <1>4 DEF OtherRequest, Rollback, Heal, HardenWal, RegisterGhosts,
     CrawledIsLoaded, TypeOK
<1>5. CASE PersistStep
  BY <1>5 DEF PersistStep, RpcCommit, RpcPersist, BeginPersist, PersistOpen,
     PersistWrite, PersistFails, PersistFinish, CrawledIsLoaded
<1>6. CASE LibraryCall
  <2>1. ASSUME NEW tx \in Tx, Commit(tx) PROVE CrawledIsLoaded'
    <3>1. /\ UNCHANGED crawled
          /\ \A f \in File : \/ base'[f] = base[f]
                             \/ read(f) # None /\ base'[f] = read(f)
                             \/ base'[f] = EmptyText
      BY <2>1 DEF Commit
    <3>2. QED
      BY <3>1, TextType DEF CrawledIsLoaded
  <2>2. QED
    BY <1>6, <2>1 DEF LibraryCall, StagePatch, StageDraft, Stage, Prepare,
       ClearStaging, CrawledIsLoaded
<1>7. CASE UNCHANGED vars
  BY <1>7 DEF vars, CrawledIsLoaded
<1>8. QED
  BY <1>2, <1>3, <1>4, <1>5, <1>6, <1>7 DEF Next

\* A text that is not empty has its first line.
Begun(text) == text \notin {None, EmptyText} => Original \in text

AllBegun == \A f \in File : Begun(disk[f]) /\ Begun(base[f])

LEMMA MergedBegun ==
  ASSUME BaseIsKept, AllBegun, NEW f \in File
  PROVE  Begun(merged_cache[f]) /\ Begun(read(f))
BY DEF BaseIsKept, Keeps, AllBegun, Begun, read, Shadow

\* Every text that is loaded or written has its first line, or is empty.
LEMMA BegunStep ==
  ASSUME TypeOK, BaseIsKept, AllBegun, [Next]_vars
  PROVE  AllBegun'
<1>0. \A f \in File : Begun(disk[f]) /\ Begun(base[f]) /\ Begun(merged_cache[f])
                     /\ Begun(read(f))
  BY MergedBegun DEF AllBegun
<1>1. ASSUME \A f \in File :
               /\ \/ disk'[f] \in {disk[f], EmptyText, merged_cache[f], read(f)}
                  \/ Original \in disk'[f]
               /\ base'[f] \in {base[f], disk[f], None, EmptyText,
                                merged_cache[f], read(f)}
      PROVE  AllBegun'
  BY <1>0, <1>1 DEF AllBegun, Begun
<1>2. \A f \in File : CrawledBase[f] \in {base[f], disk[f]}
  BY DEF CrawledBase
<1>3. CASE Lifecycle
  <2>1. CASE RecoverFromWal \/ Crash
    BY <1>1, <2>1 DEF RecoverFromWal, Crash, FreshOverlay
  <2>2. CASE ScanProject
    BY <1>1, <2>2 DEF ScanProject, store
  <2>3. ASSUME NEW f \in File, IdeSave(f) PROVE AllBegun'
    <3>1. /\ UNCHANGED base
          /\ Original \in disk'[f]
          /\ \A g \in File \ {f} : disk'[g] = disk[g]
      BY <2>3 DEF IdeSave, TypeOK
    <3>2. QED
      BY <1>1, <3>1
  <2>4. QED
    BY <1>3, <2>1, <2>2, <2>3 DEF Lifecycle
<1>4. CASE StageRequest
  <2>1. PICK tx \in Tx, i \in Intent :
          \/ RpcStage(tx, i)
          \/ RpcStageFails(tx, i)
          \/ StageUniversal(tx, i)
          \/ StageUniversalReviewed(tx, i)
          \/ StageUniversalFails(tx, i)
    BY <1>4 DEF StageRequest
  <2>2. fileOf[i] \in File
    BY ConstantsAssumption
  <2>3. /\ UNCHANGED disk
        /\ \/ base' = LoadedIfAbsent(base, fileOf[i])
           \/ base' = LoadedIfAbsent(CrawledBase, fileOf[i])
           \/ base' = CrawledBase
    BY <2>1 DEF RpcStage, RpcStageFails, StageUniversal,
       StageUniversalReviewed, StageUniversalFails, Mutate, store
  <2>4. \A g \in File : base'[g] \in {base[g], disk[g]}
    BY <1>2, <2>2, <2>3, BaseType DEF LoadedIfAbsent, TypeOK
  <2>5. QED
    BY <1>1, <2>3, <2>4
<1>5. CASE OtherRequest
  <2>1. UNCHANGED disk /\ \A f \in File : base'[f] \in {base[f], disk[f]}
    BY <1>5 DEF OtherRequest, Rollback, Heal, HardenWal, RegisterGhosts, store,
           TypeOK
  <2>2. QED
    BY <1>1, <2>1
<1>6. CASE PersistStep
  <2>1. CASE RpcCommit \/ RpcPersist \/ PersistFails
    BY <1>1, <2>1 DEF RpcCommit, RpcPersist, BeginPersist, PersistFails, store
  <2>2. ASSUME NEW f \in File, PersistOpen(f) PROVE AllBegun'
    BY <1>1, <2>2 DEF PersistOpen, TypeOK
  <2>3. CASE PersistWrite
    BY <1>1, <2>3 DEF PersistWrite, TypeOK
  <2>4. CASE PersistFinish
    BY <1>1, <2>4 DEF PersistFinish
  <2>5. QED
    BY <1>6, <2>1, <2>2, <2>3, <2>4 DEF PersistStep
<1>7. CASE LibraryCall
  <2>1. ASSUME NEW tx \in Tx, Commit(tx) PROVE AllBegun'
    BY <1>1, <2>1 DEF Commit
  <2>2. CASE ~\E tx \in Tx : Commit(tx)
    BY <1>1, <1>7, <2>2 DEF LibraryCall, StagePatch, StageDraft, Stage, Prepare,
       ClearStaging, store
  <2>3. QED
    BY <2>1, <2>2
<1>8. CASE UNCHANGED vars
  BY <1>1, <1>8 DEF vars, store
<1>9. QED
  BY <1>3, <1>4, <1>5, <1>6, <1>7, <1>8 DEF Next

\* Readers of f, given the merged texts in c and the base texts in b, see every
\* edit of T an intent staged on f, when f is loaded and not empty.
Shows(c, b, T, f) ==
  b[f] \notin {None, EmptyText} =>
    \A p \in T : p.file = f /\ p.at = Original => p.edit \in Shadow(c, b, f)

\* Rebuilding a file that is loaded and not empty yields a text with each edit
\* an intent staged on it whose transaction is listed.
LEMMA RebuiltMerged ==
  ASSUME NEW c, NEW b \in [File -> {None} \cup Text],
         NEW T \in SUBSET Patch, NEW O, NEW fs,
         NEW p \in T, p.tx \in O, p.file \in fs, p.at = Original,
         b[p.file] \notin {None, EmptyText}, Begun(b[p.file])
  PROVE  /\ Rebuilt(c, b, T, O, fs)[p.file] # None
         /\ p.edit \in Rebuilt(c, b, T, O, fs)[p.file]
<1> DEFINE P == Pending(T, O, p.file)
<1>1. p \in P /\ P # {} /\ P \in SUBSET Patch /\ p.file \in File
      /\ p.edit \in p.new_text
  BY DEF Pending, Patch
<1>2. Rebuilt(c, b, T, O, fs)[p.file] = apply_edits(b[p.file], P)
  BY <1>1 DEF Rebuilt
<1>3. b[p.file] \in Text /\ p.at \in b[p.file]
  BY <1>1 DEF Begun
<1> HIDE DEF P
<1>4. p.edit \in apply_edits(b[p.file], P)
  BY <1>1, <1>3 DEF apply_edits
<1>5. apply_edits(b[p.file], P) # None
  BY <1>1, <1>3, ApplyEditsType, TextType
<1>6. QED
  BY <1>2, <1>4, <1>5

\* Texts rebuilt for new transactions T1 and an order O1 that lists them show
\* their edits, when the texts left alone did and gained no patch.
LEMMA RebuiltShows ==
  ASSUME NEW c, NEW b \in [File -> {None} \cup Text],
         NEW T, NEW T1 \in SUBSET Patch, NEW O1, NEW fs,
         \A p \in T1 : p.tx \in O1,
         \A p \in T1 : p.file \notin fs => p \in T,
         \A f \in File \ fs : Shows(c, b, T, f),
         \A f \in File : Begun(b[f])
  PROVE  \A f \in File : Shows(Rebuilt(c, b, T1, O1, fs), b, T1, f)
<1> SUFFICES ASSUME NEW f \in File, b[f] \notin {None, EmptyText},
                    NEW p \in T1, p.file = f, p.at = Original
             PROVE  p.edit \in Shadow(Rebuilt(c, b, T1, O1, fs), b, f)
  BY DEF Shows
<1>1. CASE f \in fs
  BY <1>1, RebuiltMerged DEF Shadow
<1>2. CASE f \notin fs
  <2>1. Rebuilt(c, b, T1, O1, fs)[f] = c[f]
    BY <1>2 DEF Rebuilt
  <2>2. p \in T /\ Shows(c, b, T, f)
    BY <1>2
  <2>3. p.edit \in Shadow(c, b, f)
    BY <2>2 DEF Shows
  <2>4. QED
    BY <2>1, <2>3 DEF Shadow
<1>3. QED
  BY <1>1, <1>2

AllShown == \A f \in File : Shows(merged_cache, base, transactions, f)

LEMMA VisibleIsShown ==
  ASSUME TypeOK, CrawledIsLoaded
  PROVE  StagedIsVisible <=> (crawled => AllShown)
<1>1. \A p \in transactions : p.file \in File
  BY DEF TypeOK, Patch
<1>2. QED
  BY <1>1 DEF StagedIsVisible, AllShown, Shows, read, CrawledIsLoaded

\* What the crawl of a cold stage_universal builds shows the staged edits.
LEMMA CrawledShows ==
  ASSUME TypeOK, StagedIsOrdered, AllBegun, AllShown
  PROVE  /\ \A f \in File : Shows(CrawledCache, CrawledBase, transactions, f)
         /\ \A f \in File : Begun(CrawledBase[f])
<1>1. CASE Cold
  <2>1. disk \in [File -> {None} \cup Text]
    BY DEF TypeOK
  <2>2. \A f \in File : Shows(
          Rebuilt(merged_cache, disk, transactions, transaction_order, File),
          disk, transactions, f)
    BY <2>1, RebuiltShows DEF TypeOK, Patch, StagedIsOrdered, AllBegun
  <2>3. QED
    BY <1>1, <2>2 DEF CrawledCache, CrawledBase, AllBegun
<1>2. CASE ~Cold
  BY <1>2 DEF CrawledCache, CrawledBase, AllShown, AllBegun
<1>3. QED
  BY <1>1, <1>2

\* A successful stage_mutation shows what it stages and what was staged.
LEMMA MutateShows ==
  ASSUME TypeOK, TypeOK', StagedIsOrdered, StagedIsOrdered', AllBegun,
         NEW tx \in Tx, NEW i \in Intent,
         NEW b \in [File -> {None} \cup Text],
         NEW c \in [File -> {None} \cup Text],
         \A f \in File : Shows(c, b, transactions, f),
         \A f \in File : Begun(b[f]),
         Mutate(tx, i, b, c)
  PROVE  AllShown'
<1> DEFINE f0   == fileOf[i]
           gone == Squashed(i)
           T1   == transactions \ PatchesOf(gone)
           O1   == transaction_order \ gone
           b1   == LoadedIfAbsent(b, f0)
           c1   == CacheAfterSquash(gone, f0, b, c)
           fs   == FilesOf(PatchesOf(gone)) \cup (IF b[f0] = None THEN {f0} ELSE {})
<1>0. f0 \in File
  BY ConstantsAssumption
<1>1. /\ base' = b1
      /\ \A p \in transactions' : p \in T1 \/ p.file = f0
      /\ merged_cache' = Rebuilt(c1, b1, transactions', transaction_order', {f0})
  <2>1. PICK e \in Edit, p \in Patch : MutateWith(tx, i, b, c, e, p)
    BY MutateShape
  <2>2. /\ base' = b1
        /\ transactions' = T1 \cup {p} /\ p.file = f0
        /\ merged_cache' = Rebuilt(c1, base', transactions', transaction_order', {f0})
    BY <2>1, Zenon DEF MutateWith
  <2>3. QED
    BY <2>2, Zenon
<1>2. b1 \in [File -> {None} \cup Text]
  BY <1>0, SquashType
<1>3. \A f \in File \ fs : Shows(c, b1, transactions, f)
  BY DEF LoadedIfAbsent, Shows, Shadow
<1>4. \A f \in File : Begun(b1[f])
  BY DEF LoadedIfAbsent, AllBegun
<1>5. T1 \in SUBSET Patch /\ \A p \in T1 : p \in transactions /\ p.tx \in O1
  BY DEF TypeOK, StagedIsOrdered, PatchesOf
<1>6. c1 = Rebuilt(c, b1, T1, O1, fs)
  BY DEF CacheAfterSquash
<1>7. transactions' \in SUBSET Patch /\ \A p \in transactions' : p.tx \in transaction_order'
  BY DEF TypeOK, StagedIsOrdered
<1> HIDE DEF f0, gone, T1, O1, b1, c1, fs
<1>8. \A f \in File : Shows(c1, b1, T1, f)
  BY <1>2, <1>3, <1>4, <1>5, <1>6, RebuiltShows
<1>9. \A p \in transactions' : p.file \notin {f0} => p \in T1
  BY <1>1
<1>10. \A f \in File : Shows(merged_cache', base', transactions', f)
  BY <1>1, <1>2, <1>4, <1>7, <1>8, <1>9, RebuiltShows
<1>11. QED
  BY <1>10 DEF AllShown

\* The crawl shows what was staged before it or brought back by recovery.
LEMMA ScanShows ==
  ASSUME TypeOK, StagedIsOrdered, AllBegun, ScanProject
  PROVE  AllShown'
<1>1. disk \in [File -> {None} \cup Text] /\ transactions \in SUBSET Patch
  BY DEF TypeOK
<1>2. /\ base' = disk /\ transactions' = transactions
      /\ merged_cache' = Rebuilt([f \in File |-> None], disk, transactions,
                                 transaction_order, File)
  BY DEF ScanProject
<1>3. \A p \in transactions : p.tx \in transaction_order /\ p.file \in File
  BY <1>1 DEF StagedIsOrdered, Patch
<1>4. \A f \in File : Shows(Rebuilt([g \in File |-> None], disk, transactions,
                           transaction_order, File), disk, transactions, f)
  BY <1>1, <1>3, RebuiltShows DEF AllBegun
<1>5. QED
  BY <1>2, <1>4 DEF AllShown

\* Only the crawl itself ends the time before it.
LEMMA CrawlBegins ==
  ASSUME [Next]_vars, crawled', ~crawled
  PROVE  ScanProject
<1>1. CASE Lifecycle
  BY <1>1 DEF Lifecycle, RecoverFromWal, Crash, IdeSave
<1>2. StageRequest => UNCHANGED crawled
  <2>1. \A tx, i, b, c : Mutate(tx, i, b, c) => UNCHANGED crawled
    BY DEF Mutate
  <2>2. \A tx, i : \/ RpcStageFails(tx, i)
                   \/ StageUniversalReviewed(tx, i)
                   \/ StageUniversalFails(tx, i)
                   => UNCHANGED crawled
    BY DEF RpcStageFails, StageUniversalReviewed, StageUniversalFails
  <2>3. \A tx, i : RpcStage(tx, i) \/ StageUniversal(tx, i) => UNCHANGED crawled
    BY <2>1, Zenon DEF RpcStage, StageUniversal
  <2>4. QED
    BY <2>2, <2>3, Zenon DEF StageRequest
<1>3. OtherRequest => UNCHANGED crawled
  BY DEF OtherRequest, Rollback, Heal, HardenWal, RegisterGhosts
<1>4. PersistStep => UNCHANGED crawled
  BY DEF PersistStep, RpcCommit, RpcPersist, BeginPersist, PersistOpen,
     PersistWrite, PersistFails, PersistFinish
<1>5. LibraryCall => UNCHANGED crawled
  BY DEF LibraryCall, StagePatch, StageDraft, Stage, Prepare, Commit, ClearStaging
<1>6. QED
  BY <1>1, <1>2, <1>3, <1>4, <1>5 DEF Next, vars

\* What is shown stays so over every step after the crawl.
LEMMA VisibleStep ==
  ASSUME IInv, IInv', BaseIsKept, CrawledIsLoaded, AllBegun, AllShown, crawled,
         [Next]_vars, crawled'
  PROVE  AllShown'
<1> DEFINE Shown(c, b, T) == \A f \in File : Shows(c, b, T, f)
<1>0. /\ TypeOK /\ TypeOK' /\ StagedIsOrdered /\ StagedIsOrdered'
      /\ Shown(merged_cache, base, transactions)
      /\ \A f \in File : Begun(base[f]) /\ Begun(disk[f])
      /\ base \in [File -> {None} \cup Text]
      /\ merged_cache \in [File -> {None} \cup Text]
      /\ transactions \in SUBSET Patch /\ transactions' \in SUBSET Patch
      /\ \A p \in transactions : p.tx \in transaction_order
      /\ \A p \in transactions' : p.tx \in transaction_order'
  BY DEF IInv, TypeOK, StagedIsOrdered, AllBegun, AllShown
<1>1. SUFFICES Shown(merged_cache', base', transactions')
  BY DEF AllShown
<1>2. CASE Lifecycle
  BY <1>0, <1>2 DEF Lifecycle, RecoverFromWal, Crash, ScanProject, IdeSave,
         overlay
<1>3. CASE StageRequest
  <2>1. ASSUME NEW tx \in Tx, NEW i \in Intent,
               RpcStage(tx, i) \/ StageUniversal(tx, i)
        PROVE  Shown(merged_cache', base', transactions')
    <3>1. ASSUME RpcStage(tx, i) PROVE AllShown'
      BY <1>0, <3>1, MutateShows DEF RpcStage
    <3>2. ASSUME StageUniversal(tx, i) PROVE AllShown'
      BY <1>0, <3>2, BaseType, CrawledShows, MutateShows DEF StageUniversal
    <3>3. QED
      BY <2>1, <3>1, <3>2 DEF AllShown
  <2>2. ASSUME NEW tx \in Tx, NEW i \in Intent, RpcStageFails(tx, i)
        PROVE  Shown(merged_cache', base', transactions')
    <3>1. /\ UNCHANGED <<merged_cache, transactions>>
          /\ base' = LoadedIfAbsent(base, fileOf[i])
      BY <2>2 DEF RpcStageFails, overlay
    <3>2. base' = base
      BY <3>1, ConstantsAssumption DEF CrawledIsLoaded, LoadedIfAbsent
    <3>3. QED
      BY <1>0, <3>1, <3>2
  <2>3. ASSUME NEW tx \in Tx, NEW i \in Intent, StageUniversalReviewed(tx, i)
        PROVE  Shown(merged_cache', base', transactions')
    BY <1>0, <2>3, CrawledShows DEF StageUniversalReviewed, IInv
  <2>4. ASSUME NEW tx \in Tx, NEW i \in Intent, StageUniversalFails(tx, i)
        PROVE  Shown(merged_cache', base', transactions')
    <3>1. /\ base' = CrawledBase
          /\ transactions' \subseteq transactions
          /\ merged_cache' = Rebuilt(CrawledCache, CrawledBase, transactions',
               transaction_order', FilesOf(PatchesOf(Squashed(i))))
      BY <2>4 DEF StageUniversalFails
    <3>2. Shown(CrawledCache, CrawledBase, transactions)
          /\ CrawledBase \in [File -> {None} \cup Text]
          /\ \A f \in File : Begun(CrawledBase[f])
      BY <1>0, BaseType, CrawledShows
    <3> DEFINE fs == FilesOf(PatchesOf(Squashed(i)))
    <3> HIDE DEF fs
    <3>3. QED
      BY <1>0, <3>1, <3>2, RebuiltShows DEF fs
  <2>5. QED
    BY <1>3, <2>1, <2>2, <2>3, <2>4 DEF StageRequest
<1>4. CASE OtherRequest
  <2>1. ASSUME NEW tx \in Tx, Rollback(tx)
        PROVE  Shown(merged_cache', base', transactions')
    <3> DEFINE fs == FilesOf(PatchesOf({tx}))
    <3>1. /\ base' = base /\ transactions' \subseteq transactions
          /\ UNCHANGED transaction_order
          /\ merged_cache' = Rebuilt(merged_cache, base, transactions',
                                     transaction_order', fs)
      BY <2>1 DEF Rollback, CacheWithout
    <3> HIDE DEF fs
    <3>2. QED
      BY <1>0, <3>1, RebuiltShows
  <2>2. CASE Heal \/ HardenWal
    BY <1>0, <2>2 DEF Heal, HardenWal, overlay, Shows
  <2>3. ASSUME NEW f \in File, RegisterGhosts(f)
        PROVE  Shown(merged_cache', base', transactions')
    <3> DEFINE c1 == [merged_cache EXCEPT ![f] = None]
               b1 == [base EXCEPT ![f] = disk[f]]
    <3>1. /\ base' = b1 /\ transactions' = transactions
          /\ merged_cache' = Rebuilt(c1, b1, transactions, transaction_order, {f})
      BY <2>3 DEF RegisterGhosts, CacheAfterLoad
    <3>2. b1 \in [File -> {None} \cup Text] /\ \A g \in File : Begun(b1[g])
      BY <1>0 DEF TypeOK
    <3>3. \A g \in File \ {f} : Shows(c1, b1, transactions, g)
      BY <1>0 DEF Shows, Shadow
    <3> HIDE DEF c1, b1
    <3>4. QED
      BY <1>0, <3>1, <3>2, <3>3, RebuiltShows
  <2>4. QED
    BY <1>4, <2>1, <2>2, <2>3 DEF OtherRequest
<1>5. CASE PersistStep
  <2>1. CASE PersistFinish
    <3>1. /\ UNCHANGED <<merged_cache, transactions>>
          /\ base' = [f \in File |-> IF merged_cache[f] # None
                                     THEN merged_cache[f] ELSE base[f]]
      BY <2>1 DEF PersistFinish, overlay
    <3>2. \A f \in File : merged_cache[f] \notin {None, EmptyText}
                            => base[f] \notin {None, EmptyText}
      BY DEF BaseIsKept, Keeps
    <3>3. QED
      BY <1>0, <3>1, <3>2 DEF Shows, Shadow
  <2>2. QED
    BY <1>0, <1>5, <2>1 DEF PersistStep, RpcCommit, RpcPersist, BeginPersist,
       PersistOpen, PersistWrite, PersistFails, store, overlay
<1>6. CASE LibraryCall
  <2>1. ASSUME NEW tx \in Tx, NEW f \in File, Stage(tx, f)
        PROVE  Shown(merged_cache', base', transactions')
    <3>1. /\ base' = base
          /\ \A p \in transactions' : p \in transactions \/ p.file = f
          /\ merged_cache' = Rebuilt(merged_cache, base, transactions',
                                     transaction_order', {f})
      BY <2>1 DEF Stage
    <3>2. QED
      BY <1>0, <3>1, RebuiltShows
  <2>2. ASSUME NEW tx \in Tx, Commit(tx)
        PROVE  Shown(merged_cache', base', transactions')
    <3>1. /\ transactions' \subseteq transactions
          /\ \A f \in File :
               \/ base'[f] = base[f] /\ merged_cache'[f] = merged_cache[f]
               \/ /\ merged_cache'[f] = None
                  /\ base'[f] = read(f) \/ base'[f] = EmptyText
      BY <2>2 DEF Commit
    <3>2. \A f \in File : read(f) \notin {None, EmptyText}
                            => base[f] \notin {None, EmptyText}
      BY DEF BaseIsKept, Keeps, read, Shadow
    <3>3. QED
      BY <1>0, <3>1, <3>2 DEF Shows, read, Shadow
  <2>3. CASE ClearStaging
    BY <2>3 DEF ClearStaging, Shows
  <2>4. QED
    BY <1>0, <1>6, <2>1, <2>2, <2>3 DEF LibraryCall, StagePatch, StageDraft,
       Prepare
<1>7. CASE UNCHANGED vars
  BY <1>0, <1>7 DEF vars, overlay
<1>8. QED
  BY <1>2, <1>3, <1>4, <1>5, <1>6, <1>7 DEF Next

\* Once the start-up crawl is over, every edit an intent staged on a file that
\* is not empty is in what readers of the file see: every operation and failure
\* allowed, whether requests wait for the crawl or not.
THEOREM StagedVisible == Spec => []StagedIsVisible
<1> DEFINE Shown == crawled => AllShown
<1>1. Init => CrawledIsLoaded /\ AllBegun /\ Shown
  BY DEF Init, CrawledIsLoaded, AllBegun, Begun, OriginalText
<1>2. IInv /\ CrawledIsLoaded /\ [Next]_vars => CrawledIsLoaded'
  BY LoadedStep DEF IInv
<1>3. IInv /\ BaseIsKept /\ AllBegun /\ [Next]_vars => AllBegun'
  BY BegunStep DEF IInv
<1>4. /\ IInv /\ IInv' /\ BaseIsKept /\ CrawledIsLoaded /\ AllBegun /\ Shown
      /\ [Next]_vars
      => Shown'
  BY CrawlBegins, ScanShows, VisibleStep DEF IInv
<1>5. IInv /\ CrawledIsLoaded /\ Shown => StagedIsVisible
  BY VisibleIsShown DEF IInv
<1>6. QED
  BY <1>1, <1>2, <1>3, <1>4, <1>5, Inductive, Kept, PTL DEF Spec

=============================================================================
