----------------------------- MODULE VfsHistory -----------------------------
(* The instances of Vfs with the history of what the user gave up, for the     *)
(* claims about discarded and acknowledged edits that the code does not keep.  *)
EXTENDS MCVfs

VARIABLE discarded  \* edits rolled back, replaced by a squash, or healed away

HistoryInit == Init /\ discarded = {}

\* A patch leaves the overlay for good unless it is committed or the process ends.
HistoryNext ==
  /\ Next
  /\ discarded' = IF ~up' \/ \E tx \in Tx : Commit(tx) THEN discarded
                  ELSE discarded \cup EditsOf(transactions \ transactions')

HistorySpec == HistoryInit /\ [][HistoryNext]_<<vars, discarded>>

\* Fails: a merged text shows no edit the user discarded, unless a commit wrote
\* it to the base.  An edit staged later is the whole file as it looked then, so
\* it brings an earlier edit of the file back after that one is rolled back.
DiscardedNotShown ==
  \A f \in File : merged_cache[f] # None =>
    merged_cache[f] \cap discarded \subseteq base[f]

\* Fails: no discarded edit is staged again.  Rollback leaves the log alone, so
\* recovery after a restart replays what it discarded.
DiscardedStaysOut == EditsOf(transactions) \cap discarded = {}

\* Fails: an edit whose staging was answered Success is in the readable log or on
\* the disk, unless the user discarded it, whenever persist has no file open.  A
\* commit before the crawl truncates the log and writes nothing of what
\* recovery replayed.
NothingStagedIsLost ==
  writing = None =>
    staged \subseteq discarded \cup EditsOf(read_all(wal)) \cup
                      UNION {disk[f] : f \in File}
=============================================================================
