-------------------------- MODULE DataRestoreProofs --------------------------
(***************************************************************************)
(* A restore without an error is exact, and spares what is not restored,   *)
(* for any tree of paths, any contents and any number of declared targets, *)
(* in any order and however they lie within one another.                   *)
(***************************************************************************)
EXTENDS DataRestore, SequenceTheorems, TLAPS

\* The entries are paths, none of them the state directory or one above it.
Entries ==
    /\ targets \in Seq(Paths) /\ Sources \in Seq(Paths)
    /\ Len(Sources) > 0
    /\ \A i \in DOMAIN Sources : ~PathContains(Sources[i], StateDir)

\* The trees are trees, and the entry handled next is one.
Typed ==
    /\ pc \in {"declared", "saved", "restoring", "done"}
    /\ tree \in [Paths -> Nodes] /\ saved \in Trees
    /\ next \in 0 .. Len(Sources) /\ failed \in BOOLEAN
    /\ pc = "restoring" => next > 0
    /\ pc = "done" => next = 0

\* The entries handled so far are what they were.
Handled ==
    pc \in {"restoring", "done"} /\ ~failed =>
        \A i \in DOMAIN Sources : i > next =>
            \A path \in Paths : PathContains(Sources[i], path) => tree[path] = saved[path]

\* A path outside the entries that is not as it was.
Reappeared(path) ==
    /\ changed[path] = "absent" /\ tree[path] = "dir"
    /\ \E i \in DOMAIN Sources : path \in Above(Sources[i])

\* Between snapshot and rollback nothing is claimed but that the state directory is there.
Spared ==
    /\ tree[StateDir] = "dir"
    /\ pc \in {"declared", "saved"} => tree \in Trees
    /\ pc \in {"restoring", "done"} =>
          \A path \in Paths : ~Managed(path) => tree[path] = changed[path] \/ Reappeared(path)

DInv == Entries /\ Typed /\ Handled /\ Spared

-----------------------------------------------------------------------------

\* Accepted targets are paths that do not reach the state directory.
LEMMA AcceptedEntries ==
    ASSUME NEW n \in Nat, targets \in [1 .. n -> Paths \cup {Root}], Accepted(targets)
    PROVE  Entries
<1>1. targets \in Seq(Paths \cup {Root}) /\ DOMAIN targets = 1 .. n /\ Len(targets) = n
  OBVIOUS
<1>2. \A i \in 1 .. n : targets[i] \in Paths /\ ~PathContains(targets[i], StateDir)
  BY <1>1 DEF Accepted, OverlapsState
<1>3. targets \in Seq(Paths)
  BY <1>1, <1>2
<1>4. /\ Sources \in Seq(Paths) /\ Len(Sources) = Len(ManagedFiles) + Len(targets)
      /\ \A i \in 1 .. Len(Sources) :
            Sources[i] = IF i <= Len(ManagedFiles) THEN ManagedFiles[i]
                         ELSE targets[i - Len(ManagedFiles)]
  BY <1>3, PathsAssumption DEF Sources
<1>5. Len(ManagedFiles) > 0 /\ Len(ManagedFiles) \in Nat
  BY PathsAssumption
<1>6. ASSUME NEW i \in DOMAIN Sources PROVE ~PathContains(Sources[i], StateDir)
  <2>1. i \in 1 .. Len(Sources)
    BY <1>4
  <2>2. CASE i <= Len(ManagedFiles)
    BY <1>4, <1>5, <2>1, <2>2, PathsAssumption DEF PathContains
  <2>3. CASE ~(i <= Len(ManagedFiles))
    <3>1. i - Len(ManagedFiles) \in 1 .. n
      BY <1>1, <1>4, <1>5, <2>1, <2>3
    <3> QED
      BY <1>2, <1>4, <2>1, <2>3, <3>1
  <2> QED
    BY <2>2, <2>3
<1> QED
  BY <1>1, <1>3, <1>4, <1>5, <1>6 DEF Entries

\* Before anything is saved, and when everything is as declared, DInv holds.
LEMMA DInvInit == Init => DInv
<1> SUFFICES ASSUME Init PROVE DInv
  OBVIOUS
<1>1. PICK n \in 0 .. MaxTargets : targets \in [1 .. n -> Paths \cup {Root}]
  BY DEF Init
<1>2. Entries
  BY <1>1, AcceptedEntries DEF Init
<1>3. Typed
  <2>1. Len(Sources) \in Nat
    BY <1>2 DEF Entries
  <2>2. 0 \in 0 .. Len(Sources)
    BY <2>1
  <2>3. pc = "declared" /\ next = 0 /\ failed = FALSE /\ tree \in Trees /\ saved = tree
    BY DEF Init
  <2> QED
    BY <2>2, <2>3 DEF Typed, Trees
<1>4. Handled /\ Spared
  BY DEF Init, Handled, Spared, Trees
<1> QED
  BY <1>2, <1>3, <1>4 DEF DInv

\* Saving the tree changes nothing in it.
LEMMA TakeSnapshotStep == DInv /\ TakeSnapshot => DInv'
BY DEF DInv, TakeSnapshot, Entries, Sources, Typed, Handled, Spared

\* Whatever happens to the tree, no entry is handled yet and the state directory stays.
LEMMA ChangeStep == DInv /\ Change => DInv'
<1> SUFFICES ASSUME DInv, Change PROVE DInv'
  OBVIOUS
<1>1. /\ pc = "saved" /\ pc' = "restoring" /\ tree' \in Trees /\ changed' = tree'
      /\ next' = Len(Sources) /\ UNCHANGED <<targets, saved, failed>>
  BY DEF Change
<1>2. Sources' = Sources /\ Entries'
  BY <1>1 DEF DInv, Entries, Sources
<1>3. Typed'
  BY <1>1, <1>2 DEF DInv, Entries, Typed, Trees
<1>4. Handled'
  BY <1>1, <1>2 DEF DInv, Entries, Handled
<1>5. Spared'
  BY <1>1, <1>2 DEF Spared, Trees
<1> QED
  BY <1>2, <1>3, <1>4, <1>5 DEF DInv

-----------------------------------------------------------------------------
(* One entry                                                               *)

\* What was saved of an entry is a tree: below what was missing nothing was there, and
\* above what was there were directories.
LEMMA SavedTree ==
    ASSUME saved \in Trees, NEW path \in Paths
    PROVE  /\ saved[path] = "absent" =>
                 \A p \in Paths : PathContains(path, p) => saved[p] = "absent"
           /\ saved[path] # "absent" => \A p \in Above(path) : saved[p] = "dir"
BY DEF Trees, Above, PathContains, IsStrictPrefix

\* An entry restored without an error is what it was, with all below it; elsewhere only
\* directories above it were made.
LEMMA EntryRestored ==
    ASSUME DInv, RestoreEntry
    PROVE  LET path == Sources[next] IN
           /\ ~failed' => \A p \in Paths : PathContains(path, p) => tree'[p] = saved[p]
           /\ \A p \in Paths : ~PathContains(path, p) =>
                 \/ tree'[p] = tree[p]
                 \/ p \in Above(path) /\ tree'[p] = "dir"
                    /\ tree[p] \notin Data /\ saved[p] = "dir"
           /\ tree' \in [Paths -> Nodes]
<1> DEFINE path == Sources[next]
           cleared == Cleared(tree, path)
           existed == saved[path] # "absent"
<1>1. next \in DOMAIN Sources /\ path \in Paths /\ saved \in Trees
      /\ tree \in [Paths -> Nodes] /\ saved \in [Paths -> Nodes]
  BY DEF DInv, Entries, Typed, RestoreEntry, Trees
<1>2. cleared \in [Paths -> Nodes]
      /\ \A p \in Paths : cleared[p] = IF PathContains(path, p) THEN "absent" ELSE tree[p]
  BY <1>1 DEF Cleared, Nodes
<1> HIDE DEF path, cleared
<1>3. CASE Obstructed(path)
  BY <1>1, <1>3 DEF RestoreEntry, path
<1>4. CASE ~Obstructed(path) /\ existed /\ cleared[StateDir] = "dir"
  <2>1. tree' = Copied(cleared, path)
    BY <1>4 DEF RestoreEntry, path, cleared
  <2>2. \A p \in Paths :
           tree'[p] = IF PathContains(path, p) /\ saved[p] # "absent" THEN saved[p]
                      ELSE IF p \in Above(path) THEN "dir" ELSE cleared[p]
    BY <2>1 DEF Copied
  <2>3. tree' \in [Paths -> Nodes]
    BY <1>1, <1>2, <2>1 DEF Copied, Nodes
  <2>4. \A p \in Above(path) : saved[p] = "dir" /\ tree[p] \notin Data
    BY <1>1, <1>4, SavedTree DEF Obstructed
  <2>5. \A p \in Paths : PathContains(path, p) => tree'[p] = saved[p]
    BY <1>2, <2>2, <2>4
  <2>6. \A p \in Paths : ~PathContains(path, p) =>
           \/ tree'[p] = tree[p]
           \/ p \in Above(path) /\ tree'[p] = "dir"
              /\ tree[p] \notin Data /\ saved[p] = "dir"
    BY <1>2, <2>2, <2>4
  <2> QED
    BY <2>3, <2>5, <2>6 DEF path
<1>5. CASE ~Obstructed(path) /\ ~(existed /\ cleared[StateDir] = "dir")
  <2>1. tree' = cleared /\ failed' = (failed \/ existed)
    BY <1>5 DEF RestoreEntry, path, cleared
  <2>2. ~existed => \A p \in Paths : PathContains(path, p) => saved[p] = "absent"
    BY <1>1, SavedTree
  <2> QED
    BY <1>2, <2>1, <2>2 DEF path
<1> QED
  BY <1>3, <1>4, <1>5

\* Restoring an entry leaves those handled before as they were, and spares the rest.
LEMMA RestoreEntryStep == DInv /\ RestoreEntry => DInv'
<1> SUFFICES ASSUME DInv, RestoreEntry PROVE DInv'
  OBVIOUS
<1> DEFINE path == Sources[next]
<1>1. /\ pc = "restoring" /\ next \in 1 .. Len(Sources) /\ next \in DOMAIN Sources
      /\ next' = next - 1 /\ pc' = IF next = 1 THEN "done" ELSE pc
      /\ UNCHANGED <<targets, saved, changed>>
      /\ failed' \in BOOLEAN /\ (failed => failed')
  <2>1. failed' = TRUE \/ failed' = failed \/ \E some \in BOOLEAN : failed' = (failed \/ some)
    BY DEF RestoreEntry
  <2>2. failed \in BOOLEAN /\ failed' \in BOOLEAN /\ (failed => failed')
    BY <2>1 DEF DInv, Typed
  <2>3. pc = "restoring" /\ next' = next - 1 /\ pc' = IF next = 1 THEN "done" ELSE pc
    BY DEF RestoreEntry
  <2>4. next \in 1 .. Len(Sources) /\ next \in DOMAIN Sources
    BY <2>3 DEF DInv, Entries, Typed
  <2> QED
    BY <2>2, <2>3, <2>4 DEF RestoreEntry
<1>2. /\ ~failed' => \A p \in Paths : PathContains(path, p) => tree'[p] = saved[p]
      /\ \A p \in Paths : ~PathContains(path, p) =>
            \/ tree'[p] = tree[p]
            \/ p \in Above(path) /\ tree'[p] = "dir"
               /\ tree[p] \notin Data /\ saved[p] = "dir"
      /\ tree' \in [Paths -> Nodes]
  BY EntryRestored
<1>3. Sources' = Sources /\ Entries'
  BY <1>1 DEF DInv, Entries, Sources
<1>4. Typed'
  BY <1>1, <1>2, <1>3 DEF DInv, Entries, Typed
<1>5. Handled'
  <2> SUFFICES ASSUME ~failed', NEW i \in DOMAIN Sources, i > next - 1,
                      NEW p \in Paths, PathContains(Sources[i], p)
               PROVE  tree'[p] = saved[p]
    BY <1>1, <1>3 DEF Handled
  <2>1. CASE PathContains(path, p)
    BY <1>2, <2>1
  <2>2. CASE ~PathContains(path, p)
    <3>1. i \in Int /\ i # next
      BY <2>2 DEF DInv, Entries
    <3>2. i > next
      BY <1>1, <3>1
    <3>3. tree[p] = saved[p]
      BY <1>1, <3>2 DEF DInv, Handled
    <3> QED
      BY <1>2, <2>2, <3>3
  <2> QED
    BY <2>1, <2>2
<1>6. Spared'
  <2>1. tree'[StateDir] = "dir"
    BY <1>1, <1>2, PathsAssumption DEF DInv, Entries, Spared
  <2>2. ASSUME NEW p \in Paths, ~Managed(p)
        PROVE  tree'[p] = changed[p] \/ Reappeared(p)'
    <3>1. ~PathContains(path, p)
      BY <1>1, <2>2 DEF Managed
    <3>2. tree[p] = changed[p] \/ Reappeared(p)
      BY <1>1, <2>2 DEF DInv, Spared
    <3>3. CASE tree'[p] = tree[p]
      BY <1>1, <1>3, <3>2, <3>3 DEF Reappeared
    <3>4. CASE tree'[p] # tree[p]
      <4>1. p \in Above(path) /\ tree'[p] = "dir" /\ tree[p] \notin Data
        BY <1>2, <3>1, <3>4
      <4>2. tree[p] = "absent"
        BY <3>4, <4>1 DEF DInv, Typed, Nodes
      <4>3. changed[p] = "absent"
        BY <3>2, <4>2 DEF Reappeared
      <4> QED
        BY <1>1, <1>3, <4>1, <4>3 DEF Reappeared
    <3> QED
      BY <3>3, <3>4
  <2>3. \A p \in Paths : Managed(p)' <=> Managed(p)
    BY <1>3 DEF Managed
  <2> QED
    BY <1>1, <2>1, <2>2, <2>3 DEF Spared
<1> QED
  BY <1>3, <1>4, <1>5, <1>6 DEF DInv

\* DInv is inductive.
LEMMA DInvInductive == DInv /\ [Next]_vars => DInv'
<1>1. DInv /\ UNCHANGED vars => DInv'
  BY DEF DInv, vars, Entries, Sources, Typed, Handled, Spared, Reappeared, Managed
<1> QED
  BY <1>1, TakeSnapshotStep, ChangeStep, RestoreEntryStep DEF Next

-----------------------------------------------------------------------------

(***************************************************************************)
(* A restore that notes no error has brought every entry back to what it   *)
(* was, with all below it and nothing more (backupSnapshot.Restore).       *)
(***************************************************************************)
THEOREM RestoreIsExact == Spec => []RestoredExactly
<1>1. DInv => RestoredExactly
  <2> SUFFICES ASSUME DInv, pc = "done", ~failed, NEW path \in Paths, Managed(path)
               PROVE  tree[path] = saved[path]
    BY DEF RestoredExactly
  <2>1. PICK i \in DOMAIN Sources : PathContains(Sources[i], path)
    BY DEF Managed
  <2>2. i > next
    BY DEF DInv, Entries, Typed
  <2> QED
    BY <2>1, <2>2 DEF DInv, Handled
<1> QED
  BY <1>1, DInvInit, DInvInductive, PTL DEF Spec

(***************************************************************************)
(* The state directory, from which Restore reads, stays; outside the       *)
(* entries at most a directory that had gone missing comes back            *)
(* (validateBackupTargetsLinux, restorePath).                              *)
(***************************************************************************)
THEOREM RestIsLeftAlone == Spec => []RestLeftAlone
<1>1. DInv => RestLeftAlone
  BY DEF DInv, Spared, Reappeared, RestLeftAlone
<1> QED
  BY <1>1, DInvInit, DInvInductive, PTL DEF Spec

=============================================================================
