------------------------------ MODULE Snapshots ------------------------------
(***************************************************************************)
(* The backup directory of one application (backup.go): a sequence of      *)
(* snapshot directories, oldest first.  A snapshot is a record             *)
(*   complete - snapshot.json was written, the last act of creating it     *)
(*   image    - for each item it covers, the contents saved, None when the *)
(*              path did not exist; the items it does not cover are absent *)
(*              from the domain                                            *)
(* Directories are ordered by age; the order by modification time that     *)
(* pruneBackups really uses is that order while the clock does not go back.*)
(***************************************************************************)
EXTENDS Integers, Sequences

Items == {"binary", "unit", "data"}

\* The position of an item among the sources of a snapshot; Restore goes backwards.
Position == [i \in Items |->
                CASE i = "binary" -> 1 [] i = "unit" -> 2 [] i = "data" -> 3]

\* The next item Restore handles among those left.
LastOf(left) == CHOOSE i \in left : \A j \in left : Position[j] <= Position[i]

NoImage == [i \in {} |-> {}]

Partial == [complete |-> FALSE, image |-> NoImage]

Complete(image) == [complete |-> TRUE, image |-> image]

\* createBackupSnapshot: the directory is made first and filled afterwards.
Opened(dirs) == Append(dirs, Partial)

Filled(dirs, image) == [dirs EXCEPT ![Len(dirs)] = Complete(image)]

\* os.RemoveAll of the newest directory.
Discarded(dirs) == SubSeq(dirs, 1, Len(dirs) - 1)

\* os.RemoveAll that fails or is cut short: what is left is not a usable snapshot.
Damaged(dirs, i) == [dirs EXCEPT ![i] = Partial]

\* Mutant of Pruned.
Pruned_KeepsOldest(dirs, keep) ==
    IF keep >= Len(dirs) THEN dirs ELSE SubSeq(dirs, 1, keep)

EffectiveKeep(keep) == IF keep = 0 THEN 3 ELSE keep

\* pruneBackups: every directory but the newest ones goes, usable or not.
Pruned(dirs, keep) ==
    IF keep >= Len(dirs) THEN dirs
    ELSE SubSeq(dirs, Len(dirs) - keep + 1, Len(dirs))

(***************************************************************************)
(* pruneBackups cut short, by an error or by the end of the process.  It   *)
(* removes the youngest of the doomed directories first: `done' of them    *)
(* are gone and the next one is whole or damaged.  Deleting from a         *)
(* directory changes its modification time, so a damaged one may count as  *)
(* the newest from then on.                                                *)
(***************************************************************************)
HalfPruned(dirs, keep, done) ==
    LET doomed == Len(dirs) - keep
        older  == SubSeq(dirs, 1, doomed - done - 1)
        kept   == SubSeq(dirs, doomed + 1, Len(dirs))
    IN  {older \o <<dirs[doomed - done]>> \o kept,
         older \o <<Partial>> \o kept,
         older \o kept \o <<Partial>>}

PrunedPartWay(dirs, keep) ==
    UNION {HalfPruned(dirs, keep, done) : done \in 0 .. (Len(dirs) - keep - 1)}

=============================================================================
