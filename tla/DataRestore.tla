---------------------------- MODULE DataRestore ----------------------------
(***************************************************************************)
(* Snapshot and restore over a tree of files: which backup targets an      *)
(* application may declare (validateBackupTargetsLinux) and what Restore   *)
(* makes of the tree, entry by entry, last to first.  Targets may lie      *)
(* within one another; whatever the hook, the service or the transaction   *)
(* did to the tree in between, the host must be as it was.                 *)
(*                                                                         *)
(* A path is the sequence of its names; the data of a file stands for all  *)
(* that copyPath preserves, and for the target of a symbolic link, which   *)
(* is saved as a link.                                                     *)
(***************************************************************************)
EXTENDS Integers, SequencesExt

CONSTANTS
    Paths,                    \* the paths there are, but for the root
    Data,                     \* contents of files
    MaxTargets,               \* declared targets (a bound of the model)
    StateDir,                 \* holds manifest, lock and snapshots
    ManagedFiles              \* the executable and the service definitions, a sequence

Root == <<>>

\* resolvePathsLinux: the state directory is not the root.  The executable is always
\* among the managed files, and none of them is the state directory or one above it:
\* those are directories, over which nothing is installed.
ASSUME PathsAssumption ==
    /\ Root \notin Paths
    /\ StateDir \in Paths
    /\ ManagedFiles \in Seq(Paths) /\ ManagedFiles # <<>>
    /\ \A i \in DOMAIN ManagedFiles : ~IsPrefix(ManagedFiles[i], StateDir)

Nodes == {"absent", "dir"} \cup Data

PathContains(parent, child) == IsPrefix(parent, child)

Above(path) == {above \in Paths : IsStrictPrefix(above, path)}

\* Trees in which the state directory exists.
Trees ==
    {tree \in [Paths -> Nodes] :
        /\ \A path \in Paths : tree[path] # "absent" => \A a \in Above(path) : tree[a] = "dir"
        /\ tree[StateDir] = "dir"}

VARIABLES
    pc,       \* "declared", "saved", "restoring" or "done"
    targets,  \* App.Upgrade.BackupTargets
    tree,     \* the file system
    saved,    \* the file system when the snapshot was taken
    changed,  \* history: the file system when the rollback began
    next,     \* the entry Restore handles next
    failed    \* Restore has noted an error

vars == <<pc, targets, tree, saved, changed, next, failed>>

-----------------------------------------------------------------------------

\* Mutant of OverlapsState.
OverlapsState_OneWay(path) == PathContains(StateDir, path)

OverlapsState(path) == PathContains(path, StateDir) \/ PathContains(StateDir, path)

\* validateBackupTargetsLinux
Accepted(declared) ==
    \A i \in DOMAIN declared :
        LET path == declared[i]
        IN  /\ path # Root
            /\ \A j \in 1 .. i - 1 : declared[j] # path
            /\ ~OverlapsState(path)
            /\ \A f \in DOMAIN ManagedFiles : ~PathContains(path, ManagedFiles[f])

\* transactionSnapshotSources
Sources == ManagedFiles \o targets

Init ==
    /\ pc = "declared"
    /\ targets \in UNION {[1 .. n -> Paths \cup {Root}] : n \in 0 .. MaxTargets}
    /\ Accepted(targets)
    /\ tree \in Trees
    /\ saved = tree /\ changed = tree
    /\ next = 0 /\ failed = FALSE

\* createBackupSnapshot, when no required target is missing.
TakeSnapshot ==
    /\ pc = "declared"
    /\ saved' = tree
    /\ pc' = "saved"
    /\ UNCHANGED <<targets, tree, changed, next, failed>>

\* Hook, transaction and service do what they like outside the state directory.
Change ==
    /\ pc = "saved"
    /\ tree' \in {t \in Trees : \A path \in Paths :
                     OverlapsState(path) => t[path] = tree[path]}
    /\ changed' = tree'
    /\ next' = Len(Sources)
    /\ pc' = "restoring"
    /\ UNCHANGED <<targets, saved, failed>>

\* RemoveAll fails where a file is in the place of a directory of the path.
Obstructed(path) == \E above \in Above(path) : tree[above] \in Data

\* Mutant of Cleared.
Cleared_Merged(t, path) == t

\* os.RemoveAll
Cleared(t, path) ==
    [p \in Paths |-> IF PathContains(path, p) THEN "absent" ELSE t[p]]

\* MkdirAll of the directories above, and copyPath of what was saved.
Copied(t, path) ==
    [p \in Paths |-> IF PathContains(path, p) /\ saved[p] # "absent" THEN saved[p]
                     ELSE IF p \in Above(path) THEN "dir"
                     ELSE t[p]]

\* restorePath of one entry; without the snapshot there is nothing to copy.
RestoreEntry ==
    LET path    == Sources[next]
        cleared == Cleared(tree, path)
        existed == saved[path] # "absent"
    IN  /\ pc = "restoring"
        /\ IF Obstructed(path)
           THEN failed' = TRUE /\ UNCHANGED tree
           ELSE IF existed /\ cleared[StateDir] = "dir"
           THEN tree' = Copied(cleared, path) /\ UNCHANGED failed
           ELSE tree' = cleared /\ failed' = (failed \/ existed)
        /\ next' = next - 1
        /\ pc' = IF next = 1 THEN "done" ELSE pc
        /\ UNCHANGED <<targets, saved, changed>>

Next == TakeSnapshot \/ Change \/ RestoreEntry

Spec == Init /\ [][Next]_vars

-----------------------------------------------------------------------------

Managed(path) == \E i \in DOMAIN Sources : PathContains(Sources[i], path)

(***************************************************************************)
(* A restore that notes no error has brought every entry back to what it   *)
(* was, with all below it and nothing more, in whatever order the targets  *)
(* were declared and however they lie within one another.                  *)
(***************************************************************************)
RestoredExactly ==
    pc = "done" /\ ~failed =>
        \A path \in Paths : Managed(path) => tree[path] = saved[path]

(***************************************************************************)
(* Restoring touches nothing else: no accepted target reaches the state    *)
(* directory, from which the restore reads, and outside the entries at     *)
(* most a directory that had gone missing comes back.                      *)
(***************************************************************************)
RestLeftAlone ==
    pc \in {"restoring", "done"} =>
        /\ tree[StateDir] = "dir"
        /\ \A path \in Paths :
              ~Managed(path) /\ tree[path] # changed[path]
                  => /\ changed[path] = "absent" /\ tree[path] = "dir"
                     /\ \E i \in DOMAIN Sources : path \in Above(Sources[i])

=============================================================================
