---------------------------- MODULE PromisesProofs ----------------------------
(***************************************************************************)
(* What an operation promises those who own the files, the data, the       *)
(* versions and the snapshots, proved for any number of processes, builds, *)
(* requests and snapshots on top of the invariants Base and Exact.         *)
(***************************************************************************)
EXTENDS Status, LifecycleProofs

-----------------------------------------------------------------------------
(* What a step leaves as it was                                            *)

\* The transaction of p goes on with what it read at its admission; no other one moves.
Continues(p) ==
    /\ \A q \in Procs \ {p} : tx'[q] = tx[q]
    /\ tx'[p].src = tx[p].src /\ tx'[p].was = tx[p].was /\ tx'[p].old = tx[p].old

\* Failing and finishing do not change what was read.
LEMMA FailContinues ==
    ASSUME TypeOK, NEW p \in Procs,
           Fail(p) \/ RollBack(p) \/ \E o \in Outcomes : Finish(p, o)
    PROVE  Continues(p)
BY DEF TypeOK, TxType, Fail, RollBack, Finish, Continues

\* Nor do the steps of a rollback.
LEMMA UndoContinues ==
    ASSUME TypeOK, NEW p \in Procs, NEW ok \in BOOLEAN,
           \/ Close(p, ok)
           \/ \E item \in Items : ItemDone(p, item, ok)
           \/ \E more \in BOOLEAN, step \in Steps : Onward(p, ok, more, step)
    PROVE  Continues(p)
<1>1. tx \in [Procs -> TxType]
  BY DEF TypeOK
<1>2. ASSUME NEW clean \in BOOLEAN, Close(p, clean) PROVE Continues(p)
  BY <1>1, <1>2 DEF Close, TxType, Continues
<1>3. CASE \E item \in Items : ItemDone(p, item, ok)
  <2>1. PICK item \in Items : ItemDone(p, item, ok)
    BY <1>3
  <2>2. tx[p].clean \in BOOLEAN /\ (tx[p].clean /\ ok) \in BOOLEAN
    BY <1>1 DEF TxType
  <2>3. CASE Close(p, tx[p].clean /\ ok)
    BY <1>2, <2>2, <2>3
  <2>4. CASE ~Close(p, tx[p].clean /\ ok)
    <3>1. \E left \in SUBSET Items :
             tx' = [tx EXCEPT ![p].left = left, ![p].clean = tx[p].clean /\ ok]
      BY <1>1, <2>1, <2>4 DEF ItemDone, Remaining, TxType
    <3>2. QED
      BY <1>1, <2>2, <3>1 DEF TxType, Continues
  <2>5. QED
    BY <2>3, <2>4
<1>4. CASE \E more \in BOOLEAN, step \in Steps : Onward(p, ok, more, step)
  <2>1. tx[p].clean \in BOOLEAN /\ (tx[p].clean /\ ok) \in BOOLEAN
    BY <1>1 DEF TxType
  <2>2. Close(p, tx[p].clean /\ ok) \/ tx' = [tx EXCEPT ![p].clean = tx[p].clean /\ ok]
    BY <1>4 DEF Onward
  <2>3. QED
    BY <1>1, <1>2, <2>1, <2>2 DEF TxType, Continues
<1>5. QED
  BY <1>2, <1>3, <1>4

\* A step of an operation that was admitted.
LEMMA Proceeds ==
    ASSUME Base, NEW p \in Procs, Prepare(p) \/ Mutate(p) \/ UndoStep(p)
    PROVE  /\ pc[p] \in Underway /\ lock = p
           /\ UNCHANGED <<lock, req>>
           /\ \A q \in Procs \ {p} : pc'[q] = pc[q]
           /\ Continues(p)
<1>1. TypeOK /\ tx \in [Procs -> TxType] /\ pc \in [Procs -> Steps]
  BY DEF Base, TypeOK
<1>2. pc[p] \in Underway /\ UNCHANGED <<lock, req>> /\ \A q \in Procs \ {p} : pc'[q] = pc[q]
  <2>1. CASE Prepare(p)
    BY <1>1, <2>1 DEF Prepare, StopOld, StopOldFails, OpenSnapshot, OpenSnapshotFails,
       FillSnapshot, FillSnapshotFails, RestartOld, AfterFailedSnapshot, MayFail, Finish,
       Goto, Underway, Steps
  <2>2. CASE Mutate(p)
    BY <1>1, <2>2 DEF Mutate, Hook, HookFails, Copy, Verify, Define, DefineFails, Load,
       SetAutostart, Start, StartFails, Healthy, Commit, Disable, Undefine, UndefineFails,
       Unload, RemoveBinary, RemoveManifest, CallFails, PlainCalls, Retain, RetainFails,
       Fail, RollBack, MayFail, Finish, Goto, Underway, Steps
  <2>3. CASE UndoStep(p)
    BY <1>1, <2>3 DEF UndoStep, RbStop, RbInspectFails, RbDisable, Wipe, WipeFails, Refill,
       RefillFails, RbReload, RbEnable, RbStart, RollbackMayFail, ItemDone, Onward, Close,
       Goto, Underway, Steps
  <2>4. QED
    BY <2>1, <2>2, <2>3
<1>3. lock = p
  BY <1>2 DEF Base, MutualExclusion, Underway
<1>4. Continues(p)
  <2>1. UNCHANGED tx \/ tx' = [tx EXCEPT ![p].mutated = TRUE] => Continues(p)
    BY <1>1 DEF TxType, Continues
  <2>2. CASE Prepare(p)
    BY <1>1, <2>1, <2>2, FailContinues DEF Prepare, StopOld, StopOldFails, OpenSnapshot,
       OpenSnapshotFails, FillSnapshot, FillSnapshotFails, RestartOld, AfterFailedSnapshot,
       Outcomes
  <2>3. CASE Mutate(p)
    <3>1. Retain(p) \/ RetainFails(p) => Continues(p)
      BY <1>1, FailContinues DEF Retain, RetainFails, Outcomes
    <3>2. QED
      BY <1>1, <2>1, <2>3, <3>1, FailContinues DEF Mutate, Hook, HookFails, Copy, Verify,
       Define, DefineFails, Load, SetAutostart, Start, StartFails, Healthy, Commit, Disable,
       Undefine, UndefineFails, Unload, RemoveBinary, RemoveManifest, CallFails, host
  <2>4. CASE UndoStep(p)
    <3>1. CASE RbStop(p) \/ RbInspectFails(p) \/ RbDisable(p)
      BY <1>1, <3>1 DEF RbStop, RbInspectFails, RbDisable, TxType, Continues
    <3>2. CASE Wipe(p) \/ WipeFails(p) \/ Refill(p) \/ RefillFails(p)
      <4>1. LastOf(tx[p].left) \in Items
        BY <3>2, RequestFacts, LastOfFacts
        DEF Wipe, WipeFails, Refill, RefillFails, RollbackMayFail, Base, Local, Undoing
      <4>2. QED
        BY <1>1, <2>1, <3>2, <4>1, UndoContinues DEF Wipe, WipeFails, Refill, RefillFails
    <3>3. CASE RbReload(p) \/ RbEnable(p) \/ RbStart(p)
      <4>1. AfterReload(p) \in BOOLEAN /\ tx[p].old.running \in BOOLEAN
            /\ tx[p].clean \in BOOLEAN /\ "reenable" \in Steps /\ "resume" \in Steps
        BY <1>1 DEF AfterReload, TxType, Observations, Steps, ManifestType, OldService, NotInstalled
      <4>2. QED
        BY <1>1, <3>3, <4>1, UndoContinues DEF RbReload, RbEnable, RbStart
    <3>4. QED
      BY <2>4, <3>1, <3>2, <3>3 DEF UndoStep
  <2>5. QED
    BY <2>2, <2>3, <2>4
<1>5. QED
  BY <1>2, <1>3, <1>4

\* The snapshots change only where one is made and where retention sees to them.
LEMMA SnapshotKept ==
    ASSUME NEW p \in Procs, Prepare(p) \/ Mutate(p) \/ UndoStep(p),
           pc[p] \notin {"snapshot", "archive", "retain"}
    PROVE  UNCHANGED backups
<1>1. CASE Prepare(p)
  BY <1>1 DEF Prepare, StopOld, StopOldFails, OpenSnapshot, OpenSnapshotFails, FillSnapshot,
     FillSnapshotFails, RestartOld, MayFail, host
<1>2. CASE Mutate(p)
  BY <1>2 DEF Mutate, Hook, HookFails, Copy, Verify, Define, DefineFails, Load, SetAutostart,
     Start, StartFails, Healthy, Commit, Disable, Undefine, UndefineFails, Unload,
     RemoveBinary, RemoveManifest, CallFails, Retain, RetainFails, MayFail, host
<1>3. CASE UndoStep(p)
  BY <1>3 DEF UndoStep, RbStop, RbInspectFails, RbDisable, Wipe, WipeFails, Refill,
     RefillFails, RbReload, RbEnable, RbStart, host
<1>4. QED
  BY <1>1, <1>2, <1>3

\* The snapshot holds what is on the disk when it is made.
LEMMA FilledOwn ==
    ASSUME Base, NEW p \in Procs, FillSnapshot(p), NEW i \in Covered(p)
    PROVE  Own'.image[i] = disk[i]
<1> DEFINE image == [j \in Covered(p) |-> disk[j]]
<1>1. pc[p] = "archive" /\ backups' = Filled(backups, image)
  BY DEF FillSnapshot
<1>2. Covered(p) \in SUBSET Items /\ disk \in [Items -> Contents]
  BY <1>1, RequestFacts DEF Base, TypeOK
<1>3. image \in [Covered(p) -> Contents]
  BY <1>2
<1>4. image[i] = disk[i]
  OBVIOUS
<1> HIDE DEF image
<1>5. Complete(image) \in SnapshotType
  BY <1>2, <1>3, SnapshotTypes
<1>6. Len(backups) >= 1 /\ backups \in Seq(SnapshotType)
  BY <1>1 DEF Base, Local, TypeOK
<1>7. Own' = Complete(image)
  BY <1>1, <1>5, <1>6, FilledFacts DEF Own
<1>8. QED
  BY <1>4, <1>7 DEF Complete

\* A transaction gets to the steps that rely on a snapshot by making it.
LEMMA OnlySnapshot ==
    ASSUME TypeOK, NEW p \in Procs, Prepare(p) \/ Mutate(p) \/ UndoStep(p),
           pc[p] \notin WithSnapshot, pc'[p] \in WithSnapshot
    PROVE  FillSnapshot(p)
<1>1. CASE Prepare(p)
  BY <1>1 DEF Prepare, StopOld, StopOldFails, OpenSnapshot, OpenSnapshotFails,
     FillSnapshotFails, RestartOld, AfterFailedSnapshot, MayFail, Finish, Goto, TypeOK,
     WithSnapshot, Forward
<1>2. CASE Mutate(p) \/ UndoStep(p)
  BY <1>2 DEF Mutate, Hook, HookFails, Copy, Verify, Define, DefineFails, Load, SetAutostart,
     Start, StartFails, Healthy, Commit, Disable, Undefine, UndefineFails, Unload,
     RemoveBinary, RemoveManifest, CallFails, PlainCalls, Retain, RetainFails, UndoStep,
     RbStop, RbInspectFails, RbDisable, Wipe, WipeFails, Refill, RefillFails, RbReload,
     RbEnable, RbStart, MayFail, RollbackMayFail, WithSnapshot, Forward
<1>3. QED
  BY <1>1, <1>2

\* After retention there is only the unlock.
LEMMA RetainEnds ==
    ASSUME TypeOK, NEW p \in Procs, Prepare(p) \/ Mutate(p) \/ UndoStep(p), pc[p] = "retain"
    PROVE  pc'[p] = "unlock"
<1>1. Retain(p) \/ RetainFails(p)
  BY DEF Prepare, StopOld, StopOldFails, OpenSnapshot, OpenSnapshotFails, FillSnapshot,
     FillSnapshotFails, RestartOld, Mutate, Hook, HookFails, Copy, Verify, Define,
     DefineFails, Load, SetAutostart, Start, StartFails, Healthy, Commit, Disable, Undefine,
     UndefineFails, Unload, RemoveBinary, RemoveManifest, CallFails, PlainCalls, MayFail,
     UndoStep, RbStop, RbInspectFails, RbDisable, Wipe, WipeFails, Refill, RefillFails,
     RbReload, RbEnable, RbStart, RollbackMayFail
<1>2. QED
  BY <1>1 DEF Retain, RetainFails, Finish, Goto, TypeOK

\* While p is past the lock nobody else does anything that matters to it.
LEMMA Bystander ==
    ASSUME Base, NEW p \in Procs, pc[p] \notin Outside, NEW q \in Procs, q # p,
           Begin(q) \/ Step(q) \/ Crash(q)
    PROVE  /\ pc'[p] = pc[p] /\ req'[p] = req[p] /\ tx'[p] = tx[p]
           /\ UNCHANGED <<lock, disk, manifest, service, backups>>
<1>1. TypeOK /\ lock = p /\ pc[q] \in Outside
  BY Alone DEF Base, MutualExclusion, Outside
<1>2. Begin(q) \/ Acquire(q) \/ TurnedAway(q) \/ Crash(q)
  <2>1. ~Prepare(q) /\ ~Mutate(q) /\ ~UndoStep(q)
    BY <1>1, Proceeds DEF Underway, Outside
  <2>2. ~Admit(q) /\ ~Refuse(q) /\ ~Unlock(q)
    BY <1>1 DEF Admit, Refuse, Unlock, Outside
  <2>3. QED
    BY <2>1, <2>2 DEF Step, Enter
<1>3. ~Acquire(q)
  BY <1>1, ConstantFacts DEF Acquire, LockFree
<1>4. QED
  BY <1>1, <1>2, <1>3 DEF Begin, TurnedAway, Crash, Goto, host, TypeOK, Outside

(***************************************************************************)
(* An operation that is under way after a step was admitted by it, took it *)
(* itself, or did not notice it: nobody else is past the lock.             *)
(***************************************************************************)
LEMMA UnderWay ==
    ASSUME Base, [Next]_vars, NEW p \in Procs, pc'[p] \in Underway
    PROVE  \/ Admit(p)
           \/ /\ Prepare(p) \/ Mutate(p) \/ UndoStep(p)
              /\ pc[p] \in Underway \ {"retain"}
              /\ req'[p] = req[p] /\ Continues(p)
           \/ /\ pc'[p] = pc[p] /\ req'[p] = req[p] /\ tx'[p] = tx[p]
              /\ UNCHANGED <<manifest, backups>>
<1>1. TypeOK
  BY DEF Base
<1>2. CASE UNCHANGED vars \/ Environment
  BY <1>2 DEF vars, Environment, ServiceWrites, ServiceExits, ServiceRestarts, Drift
<1>3. ASSUME NEW q \in Procs \ {p}, Begin(q) \/ Step(q) \/ Crash(q)
      PROVE  /\ pc'[p] = pc[p] /\ req'[p] = req[p] /\ tx'[p] = tx[p]
             /\ UNCHANGED <<manifest, backups>>
  <2>1. pc'[p] = pc[p]
    BY <1>1, <1>3, Proceeds DEF Step, Begin, Enter, Acquire, TurnedAway, Admit, Refuse, Unlock,
       Crash, Finish, Goto, TypeOK
  <2>2. QED
    BY <1>3, <2>1, Bystander DEF Underway, Outside
<1>4. ASSUME Begin(p) \/ Enter(p) \/ Crash(p)
      PROVE  Admit(p)
  BY <1>1, <1>4 DEF Begin, Enter, Acquire, TurnedAway, Refuse, Unlock, Crash, Finish, Goto,
     TypeOK, Underway
<1>5. ASSUME Prepare(p) \/ Mutate(p) \/ UndoStep(p)
      PROVE  /\ pc[p] \in Underway \ {"retain"}
             /\ req'[p] = req[p] /\ Continues(p)
  <2>1. pc[p] \in Underway /\ UNCHANGED req /\ Continues(p)
    BY <1>5, Proceeds
  <2>2. pc[p] # "retain"
    BY <1>1, <1>5, RetainEnds DEF Underway
  <2>3. QED
    BY <2>1, <2>2
<1>6. QED
  BY <1>2, <1>3, <1>4, <1>5 DEF Next, Step

\* The manifest changes only where an operation commits.
LEMMA ManifestWritten ==
    ASSUME [Next]_vars, manifest' # manifest
    PROVE  \E p \in Procs : Commit(p) \/ RemoveManifest(p)
BY DEF Next, vars, Begin, Step, Enter, Acquire, TurnedAway, Admit, Refuse, Unlock,
   Prepare, StopOld, StopOldFails, OpenSnapshot, OpenSnapshotFails, FillSnapshot,
   FillSnapshotFails, RestartOld, Mutate, Hook, HookFails, Copy, Verify, Define,
   DefineFails, Load, SetAutostart, Start, StartFails, Healthy, Disable, Undefine,
   UndefineFails, Unload, RemoveBinary, CallFails, Retain, RetainFails,
   UndoStep, RbStop, RbInspectFails, RbDisable, Wipe, WipeFails, Refill, RefillFails,
   RbReload, RbEnable, RbStart, Crash, Environment, ServiceWrites, ServiceExits,
   ServiceRestarts, Drift, host

\* What process p may do to a file, and where.
Writes(p, i) ==
    \/ pc[p] = "hook" /\ i = "data"
    \/ pc[p] = "copy" /\ i = "binary" /\ disk'[i] \in {req[p].build, Corrupt}
    \/ pc[p] = "define" /\ i = "unit" /\ disk'[i] = req[p].build
    \/ pc[p] = "undefine" /\ i = "unit" /\ disk'[i] = None
    \/ pc[p] = "rmbinary" /\ i = "binary" /\ disk'[i] = None
    \/ /\ pc[p] \in Undoing /\ i \in tx[p].left
       /\ disk'[i] \in {None, Corrupt, Own.image[i]}

\* Whoever changes a file does it in one of these ways.
LEMMA FilesWritten ==
    ASSUME Base, NEW p \in Procs, Begin(p) \/ Step(p) \/ Crash(p),
           NEW i \in Items, disk'[i] # disk[i]
    PROVE  Writes(p, i)
<1>1. disk \in [Items -> Contents]
  BY DEF Base, TypeOK
<1>2. CASE Begin(p) \/ Enter(p) \/ Prepare(p)
  BY <1>2 DEF Begin, Enter, Acquire, TurnedAway, Admit, Refuse, Unlock, Prepare, StopOld,
     StopOldFails, OpenSnapshot, OpenSnapshotFails, FillSnapshot, FillSnapshotFails,
     RestartOld, host
<1>3. CASE Mutate(p)
  <2>1. CASE Hook(p) \/ HookFails(p) \/ Copy(p) \/ Verify(p)
    BY <1>1, <2>1 DEF Hook, HookFails, Copy, Verify, MayFail, host, Writes
  <2>2. CASE Define(p) \/ DefineFails(p) \/ Load(p) \/ SetAutostart(p) \/ Start(p)
             \/ StartFails(p) \/ Healthy(p) \/ Commit(p)
    BY <1>1, <2>2 DEF Define, DefineFails, Load, SetAutostart, Start, StartFails, Healthy,
       Commit, MayFail, host, Writes
  <2>3. CASE Disable(p) \/ Undefine(p) \/ UndefineFails(p) \/ Unload(p) \/ RemoveBinary(p)
             \/ RemoveManifest(p) \/ CallFails(p) \/ Retain(p) \/ RetainFails(p)
    BY <1>1, <2>3 DEF Disable, Undefine, UndefineFails, Unload, RemoveBinary, RemoveManifest,
       CallFails, Retain, RetainFails, MayFail, host, Writes
  <2>4. QED
    BY <1>3, <2>1, <2>2, <2>3 DEF Mutate
<1>4. CASE UndoStep(p) \/ Crash(p)
  <2>1. CASE pc[p] \in {"wipe", "refill"}
    <3>1. LastOf(tx[p].left) \in tx[p].left /\ tx[p].left \subseteq Items
      BY <2>1, RequestFacts, LastOfFacts DEF Base, Local, Undoing
    <3>2. disk'[i] \in {None, Corrupt, Own.image[i]} /\ i = LastOf(tx[p].left)
      <4>1. CASE UndoStep(p)
        BY <1>1, <2>1, <4>1
        DEF UndoStep, RbStop, RbInspectFails, RbDisable, Wipe, WipeFails, WipedPartWay, Refill,
           RefillFails, RbReload, RbEnable, RbStart, RollbackMayFail, host
      <4>2. CASE Crash(p) /\ pc[p] = "wipe"
        <5>1. disk' \in WipedPartWay(LastOf(tx[p].left))
          BY <4>2 DEF Crash
        <5>2. QED
          BY <1>1, <5>1 DEF WipedPartWay
      <4>3. CASE Crash(p) /\ pc[p] = "refill"
        <5>1. disk' \in {disk, [disk EXCEPT ![LastOf(tx[p].left)] = Corrupt]}
          BY <4>3 DEF Crash
        <5>2. QED
          BY <1>1, <5>1
      <4>4. QED
        BY <1>4, <2>1, <4>1, <4>2, <4>3
    <3>3. QED
      BY <2>1, <3>1, <3>2 DEF Writes, Undoing
  <2>2. CASE pc[p] \notin {"wipe", "refill"}
    BY <1>4, <2>2
    DEF UndoStep, RbStop, RbInspectFails, RbDisable, Wipe, WipeFails, Refill, RefillFails,
       RbReload, RbEnable, RbStart, Crash, RollbackMayFail, host
  <2>3. QED
    BY <2>1, <2>2
<1>5. QED
  BY <1>2, <1>3, <1>4 DEF Step

-----------------------------------------------------------------------------
(* The data of the application                                             *)

\* A remove covers no data, runs no hook and restores nothing it did not cover.
LEMMA DataKept ==
    ASSUME Base, [Next]_vars, NEW p \in Procs, lock = p, req[p].op = "remove", disk' # disk
    PROVE  \/ disk'["data"] = disk["data"]
           \/ service.state = "active" /\ disk'["data"] = service.image
<1>1. disk \in [Items -> Contents] /\ p # None
  BY ConstantFacts DEF Base, TypeOK
<1>2. CASE Environment
  BY <1>1, <1>2 DEF Environment, ServiceWrites, ServiceExits, ServiceRestarts, Drift, Items
<1>3. ASSUME NEW q \in Procs, Begin(q) \/ Step(q) \/ Crash(q), disk'["data"] # disk["data"]
      PROVE  FALSE
  <2>1. Writes(q, "data")
    BY <1>3, FilesWritten DEF Items
  <2>2. pc[q] \notin {"idle", "lock"}
    BY <2>1 DEF Writes, Undoing
  <2>3. q = p
    BY <2>2 DEF Base, MutualExclusion
  <2>4. CASE pc[p] = "hook"
    BY <2>4 DEF Base, Local, Forward
  <2>5. CASE pc[p] \in Undoing
    BY <2>1, <2>3, <2>5 DEF Base, Local, Covered, Writes, Undoing
  <2>6. QED
    BY <2>1, <2>3, <2>4, <2>5 DEF Writes
<1>4. QED
  BY <1>2, <1>3 DEF Next, vars

(***************************************************************************)
(* A remove never touches the data of the application, whether it ends,    *)
(* fails, rolls back or dies on the way: its snapshot does not cover the   *)
(* backup targets, so its rollback has no data to put back (removeLinux    *)
(* and transactionSnapshotSources).                                        *)
(***************************************************************************)
THEOREM RemovalSparesData == Spec => RemoveKeepsData
<1>1. Init => Base
  BY BaseInit
<1>2. Base /\ [Next]_vars => Base'
  BY BaseStep
<1>3. Base /\ [Next]_vars =>
          [\A p \in Procs :
              lock = p /\ req[p].op = "remove" /\ disk' # disk
                  => \/ disk'["data"] = disk["data"]
                     \/ service.state = "active" /\ disk'["data"] = service.image]_vars
  BY DataKept
<1>4. QED
  BY <1>1, <1>2, <1>3, PTL DEF Spec, RemoveKeepsData

-----------------------------------------------------------------------------
(* The installed version                                                   *)

\* What DecideInstall and repairVersionMatches allowed, remembered up to the commit.
Ordered(p) ==
    pc[p] \in Before /\ req[p].op # "remove" /\ HadInstall(p) =>
        \/ VersionOf[req[p].build] = 0
        \/ VersionOf[tx[p].was.build] = 0
        \/ VersionOf[req[p].build] >= VersionOf[tx[p].was.build]
        \/ req[p].downgrade

Lawful == Exact /\ \A p \in Procs : Ordered(p)

\* Lawful is inductive: the manifest an operation was admitted for is there until it commits.
LEMMA LawfulStep ==
    ASSUME Lawful, [Next]_vars
    PROVE  Lawful'
<1>1. Exact' /\ Base /\ TypeOK
  BY ExactStep DEF Lawful, Exact, Base
<1>2. ASSUME NEW p \in Procs, pc'[p] \in Before PROVE Ordered(p)'
  <2>1. CASE Admit(p)
    <3>1. /\ Admissible(req[p]) /\ UNCHANGED req /\ tx'[p].was = manifest
          /\ req[p] \in RequestType
      BY <1>1, <2>1, RequestFacts DEF Admit, TypeOK, TxType
    <3>2. SUFFICES ASSUME req[p].op # "remove", Installed
                   PROVE  \/ VersionOf[req[p].build] = 0
                          \/ VersionOf[manifest.build] = 0
                          \/ VersionOf[req[p].build] >= VersionOf[manifest.build]
                          \/ req[p].downgrade
      BY <3>1 DEF Ordered, HadInstall, Installed
    <3>3. VersionAllowed(req[p]) \/ RepairVersionMatches(req[p])
      BY <3>1, <3>2 DEF Admissible, RequestType
    <3>4. VersionOf[req[p].build] \in Nat /\ VersionOf[manifest.build] \in Nat
      BY <1>1, <3>1, <3>2, RequestsAssumption DEF RequestType, TypeOK, ManifestType, Installed
    <3>5. QED
      BY <3>3, <3>4 DEF VersionAllowed, RepairVersionMatches
  <2>2. CASE ~Admit(p)
    <3>1. pc[p] \in Before /\ req'[p] = req[p] /\ tx'[p].was = tx[p].was
      BY <1>1, <1>2, <2>2, UnderWay DEF Before, Continues
    <3>2. QED
      BY <3>1 DEF Lawful, Ordered, HadInstall
  <2>3. QED
    BY <2>1, <2>2
<1>3. QED
  BY <1>1, <1>2 DEF Lawful, Ordered

(***************************************************************************)
(* The installed version never goes back unless the process that commits   *)
(* was allowed to downgrade: what DecideInstall compared with is what the  *)
(* commit replaces, because the manifest cannot change in between          *)
(* (DecideInstall and repairVersionMatches, WriteManifest much later).     *)
(***************************************************************************)
THEOREM DowngradesAreAsked == Spec => NoSilentDowngrade
<1>1. Init => Lawful
  <2> SUFFICES ASSUME Init PROVE Lawful
    OBVIOUS
  <2>1. Exact /\ \A p \in Procs : pc[p] = "idle"
    BY ExactInit DEF Init
  <2>2. QED
    BY <2>1 DEF Lawful, Ordered, Before, Underway
<1>2. Lawful /\ [Next]_vars => Lawful'
  BY LawfulStep
<1>3. Lawful /\ [Next]_vars =>
          [Installed /\ manifest' # NotInstalled
           /\ VersionOf[manifest'.build] # 0
           /\ VersionOf[manifest'.build] < VersionOf[manifest.build]
              => \E p \in Procs : lock = p /\ req[p].downgrade]_vars
  <2> SUFFICES ASSUME Lawful, [Next]_vars, Installed, manifest' # NotInstalled,
                      VersionOf[manifest'.build] # 0,
                      VersionOf[manifest'.build] < VersionOf[manifest.build]
               PROVE  \E p \in Procs : lock = p /\ req[p].downgrade
    OBVIOUS
  <2>1. VersionOf \in [Builds -> Nat] /\ manifest.build \in Builds
    BY RequestsAssumption DEF Lawful, Exact, Base, TypeOK, Installed, ManifestType
  <2>2. manifest' # manifest
    BY <2>1
  <2>3. PICK p \in Procs : Commit(p)
    BY <2>2, ManifestWritten DEF RemoveManifest
  <2>4. /\ pc[p] = "commit" /\ manifest'.build = req[p].build
        /\ req[p].op # "remove" /\ req[p].build \in Builds
    BY <2>3, RequestFacts DEF Commit, NewManifest, Lawful, Exact, Base, Local, Forward, RequestType
  <2>5. pc[p] \in Before /\ lock = p
    BY <2>4 DEF Before, Underway, Steps, Lawful, Exact, Base, MutualExclusion
  <2>6. tx[p].was = manifest
    BY <2>5 DEF Lawful, Exact, Fits, Admitted
  <2>7. QED
    BY <2>1, <2>4, <2>5, <2>6 DEF Lawful, Ordered, HadInstall, Installed
<1>4. QED
  BY <1>1, <1>2, <1>3, PTL DEF Spec, NoSilentDowngrade

-----------------------------------------------------------------------------
(* Files SvcForge did not write                                            *)

\* A binary of somebody else is there only while no operation works on it.
Unclaimed ==
    disk["binary"] = Foreign =>
        /\ ~Installed
        /\ \A p \in Procs : /\ pc[p] \notin Underway
                            /\ pc[p] # "idle" => ~req[p].self

\* No snapshot holds it, and a fresh install found no definition of somebody else.
Untaken(p) ==
    /\ pc[p] \in WithSnapshot => Own.image["binary"] # Foreign
    /\ pc[p] \in Before /\ req[p].op # "remove" /\ ~HadInstall(p) /\ NewService(p)
          => disk["unit"] # Foreign

Modest == Exact /\ Unclaimed /\ \A p \in Procs : Untaken(p)

\* Who changes an installed file.
LEMMA InstalledWritten ==
    ASSUME Base, [Next]_vars, NEW i \in {"binary", "unit"}, disk'[i] # disk[i]
    PROVE  \/ \E p \in Procs : pc[p] # "idle" /\ lock = p /\ Writes(p, i)
           \/ lock = None /\ Installed /\ disk'[i] \in {None, Corrupt}
<1>1. disk \in [Items -> Contents] /\ i \in Items
  BY DEF Base, TypeOK, Items
<1>2. CASE Environment
  BY <1>1, <1>2 DEF Environment, ServiceWrites, ServiceExits, ServiceRestarts, Drift, Items
<1>3. ASSUME NEW p \in Procs, Begin(p) \/ Step(p) \/ Crash(p)
      PROVE  pc[p] # "idle" /\ lock = p /\ Writes(p, i)
  <2>1. Writes(p, i)
    BY <1>1, <1>3, FilesWritten
  <2>2. pc[p] \notin {"idle", "lock"}
    BY <2>1 DEF Writes, Undoing
  <2>3. QED
    BY <2>1, <2>2 DEF Base, MutualExclusion
<1>4. QED
  BY <1>2, <1>3 DEF Next, vars

\* Nobody brings such contents: not a build, not a copy, not a snapshot.
LEMMA NoForeign ==
    ASSUME Modest, [Next]_vars, NEW i \in {"binary", "unit"},
           disk'[i] = Foreign, disk[i] # Foreign
    PROVE  i = "unit" /\ \E p \in Procs : lock = p /\ pc[p] \in Undoing /\ "unit" \in tx[p].left
                                          /\ Own.image["unit"] = Foreign
<1>1. Foreign \notin {None, Corrupt} /\ Foreign \notin Builds
  BY ContentsAssumption
<1>2. PICK p \in Procs : pc[p] # "idle" /\ lock = p /\ Writes(p, i)
  BY <1>1, InstalledWritten DEF Modest, Exact
<1>3. req[p].build \in Builds
  BY <1>2, RequestFacts DEF Modest, Exact, RequestType
<1>4. pc[p] \in Undoing /\ i \in tx[p].left /\ Own.image[i] = Foreign
  BY <1>1, <1>2, <1>3 DEF Writes
<1>5. i # "binary"
  BY <1>4 DEF Modest, Untaken, Undoing, WithSnapshot
<1>6. QED
  BY <1>2, <1>4, <1>5

\* Modest is inductive: nobody takes over a file that was there before.
LEMMA ModestStep ==
    ASSUME Modest, [Next]_vars
    PROVE  Modest'
<1>1. Exact' /\ Base /\ Base' /\ TypeOK
  BY ExactStep DEF Modest, Exact, Base
<1>2. Unclaimed'
  <2> DEFINE Free(p) == pc[p] \notin Underway /\ (pc[p] # "idle" => ~req[p].self)
  <2>1. SUFFICES ASSUME disk'["binary"] = Foreign
                 PROVE  ~Installed' /\ \A p \in Procs : Free(p)'
    BY DEF Unclaimed
  <2>2. /\ ~Installed /\ disk["binary"] = Foreign
        /\ \A p \in Procs : Free(p)
    BY <2>1, NoForeign DEF Modest, Unclaimed
  <2>3. ASSUME NEW q \in Procs, Begin(q) \/ Enter(q) \/ Crash(q)
        PROVE  ~Installed' /\ \A p \in Procs : Free(p)'
    <3>1. UNCHANGED manifest
      BY <2>3 DEF Begin, Enter, Acquire, TurnedAway, Admit, Refuse, Unlock, Crash, host
    <3>2. ~Admit(q)
      <4>1. SUFFICES ASSUME Admit(q) PROVE FALSE
        OBVIOUS
      <4>2. Admissible(req[q]) /\ req[q] \in RequestType /\ ~req[q].self
        BY <1>1, <2>2, <4>1, RequestFacts DEF Admit
      <4>3. QED
        BY <2>2, <4>2, ContentsAssumption DEF Admissible, PathsFree, RequestType
    <3>3. CASE Begin(q)
      <4>1. PICK r \in Requests : /\ r.self => disk["binary"] = r.build
                                  /\ req' = [req EXCEPT ![q] = r]
        BY <3>3 DEF Begin
      <4>2. ~r.self
        BY <2>2, <4>1, ContentsAssumption, ConstantFacts DEF RequestType
      <4>3. QED
        BY <1>1, <2>2, <3>1, <3>3, <4>1, <4>2 DEF Begin, Goto, TypeOK, Underway, Installed
    <3>4. CASE Acquire(q) \/ TurnedAway(q) \/ Refuse(q) \/ Unlock(q) \/ Crash(q)
      BY <1>1, <2>2, <3>1, <3>4 DEF Acquire, TurnedAway, Refuse, Unlock, Crash, Finish, Goto,
         TypeOK, Underway, Installed
    <3>5. QED
      BY <2>3, <3>2, <3>3, <3>4 DEF Enter
  <2>4. ASSUME NEW q \in Procs, Prepare(q) \/ Mutate(q) \/ UndoStep(q) PROVE FALSE
    BY <1>1, <2>2, <2>4, Proceeds
  <2>5. CASE UNCHANGED vars \/ Environment
    BY <2>2, <2>5 DEF vars, Environment, ServiceWrites, ServiceExits, ServiceRestarts, Drift,
       Installed
  <2>6. QED
    BY <2>3, <2>4, <2>5 DEF Next, Step
<1>3. ASSUME NEW p \in Procs, pc'[p] \in WithSnapshot PROVE Own'.image["binary"] # Foreign
  <2>1. pc'[p] \in Underway
    BY <1>3 DEF WithSnapshot, Underway, Steps, Forward
  <2>2. ~Admit(p)
    BY <1>1, <1>3 DEF Admit, Goto, TypeOK, WithSnapshot, Forward
  <2>3. CASE pc[p] \in WithSnapshot
    <3>1. UNCHANGED backups
      BY <1>1, <2>1, <2>2, <2>3, UnderWay, SnapshotKept DEF WithSnapshot, Forward
    <3>2. QED
      BY <2>3, <3>1 DEF Modest, Untaken, Own
  <2>4. CASE pc[p] \notin WithSnapshot
    <3>1. FillSnapshot(p) /\ pc[p] = "archive"
      BY <1>1, <1>3, <2>1, <2>2, <2>4, UnderWay, OnlySnapshot DEF FillSnapshot
    <3>2. disk["binary"] # Foreign
      BY <3>1 DEF Modest, Unclaimed, Underway, Steps
    <3>3. Own'.image["binary"] = disk["binary"]
      BY <1>1, <3>1, FilledOwn DEF Covered
    <3>4. QED
      BY <3>2, <3>3
  <2>5. QED
    BY <2>3, <2>4
<1>4. ASSUME NEW p \in Procs, pc'[p] \in Before, req'[p].op # "remove",
             ~HadInstall(p)', NewService(p)'
      PROVE  disk'["unit"] # Foreign
  <2>1. CASE Admit(p)
    <3>1. /\ Admissible(req[p]) /\ req' = req /\ tx'[p].was = manifest /\ disk' = disk
          /\ req[p] \in RequestType
      BY <1>1, <2>1, RequestFacts DEF Admit, TypeOK, TxType, host
    <3>2. PathsFree(req[p]) /\ req[p].service
      BY <1>4, <3>1 DEF Admissible, HadInstall, NewService, Installed, RequestType
    <3>3. QED
      BY <3>1, <3>2, ContentsAssumption DEF PathsFree
  <2>2. CASE ~Admit(p)
    <3>1. pc[p] \in Before /\ req'[p] = req[p] /\ tx'[p].was = tx[p].was
      BY <1>1, <1>4, <2>2, UnderWay DEF Before, Continues
    <3>2. req[p].op # "remove" /\ ~HadInstall(p) /\ NewService(p)
      BY <1>4, <3>1 DEF HadInstall, NewService
    <3>3. disk["unit"] # Foreign /\ lock = p
      BY <3>1, <3>2 DEF Modest, Untaken, Exact, Base, MutualExclusion, Before, Underway
    <3>4. SUFFICES ASSUME disk'["unit"] = Foreign PROVE FALSE
      OBVIOUS
    <3>5. pc[p] \in Undoing /\ "unit" \in Covered(p) /\ Own.image["unit"] = Foreign
      BY <3>3, <3>4, NoForeign DEF Modest, Exact, Base, Local
    <3>6. Effective("unit") = None
      BY <3>1, <3>2 DEF Modest, Exact, Fits, Vacated
    <3>7. Effective("unit") = Own.image["unit"]
      BY <1>1, <3>5, EffectiveOf DEF Items, Outside, Undecidable, Undoing
    <3>8. QED
      BY <3>5, <3>6, <3>7, ContentsAssumption
  <2>3. QED
    BY <2>1, <2>2
<1>5. QED
  BY <1>1, <1>2, <1>3, <1>4 DEF Modest, Untaken

\* Only an operation that has to do with a definition writes it, and a fresh one found none.
LEMMA ForeignKept ==
    ASSUME Modest, [Next]_vars, ~Installed, NEW i \in {"binary", "unit"}, disk[i] = Foreign
    PROVE  disk'[i] = Foreign
<1>1. SUFFICES ASSUME disk'[i] # disk[i] PROVE FALSE
  OBVIOUS
<1>2. PICK p \in Procs : lock = p /\ Writes(p, i)
  BY <1>1, InstalledWritten DEF Modest, Exact
<1>3. pc[p] \in Before /\ pc[p] \in Underway
  BY <1>2 DEF Writes, Before, Underway, Steps, Undoing
<1>4. i = "unit"
  BY <1>3 DEF Modest, Unclaimed
<1>5. tx[p].was = NotInstalled
  BY <1>3 DEF Modest, Exact, Fits, Admitted, Installed
<1>6. ~OldService(p) /\ ~HadInstall(p)
  BY <1>5 DEF OldService, HadInstall, NotInstalled
<1>7. NewService(p)
  <2>1. CASE pc[p] \in {"define", "undefine"}
    BY <1>6, <2>1 DEF Modest, Exact, Fits, Routed
  <2>2. CASE pc[p] \in Undoing /\ "unit" \in Covered(p)
    BY <1>6, <2>2 DEF Covered
  <2>3. QED
    BY <1>2, <1>4, <2>1, <2>2 DEF Writes, Modest, Exact, Base, Local
<1>8. QED
  BY <1>3, <1>4, <1>6, <1>7 DEF Modest, Untaken, NewService

(***************************************************************************)
(* While the application is not installed, a binary or a definition that   *)
(* SvcForge did not write is never changed, not by an install that fails,  *)
(* rolls back or dies: a fresh install is refused when its paths are       *)
(* occupied, and its rollback restores only what it covered                *)
(* (ensureFreshPathsUnmanaged, transactionSnapshotSources, restorePath).   *)
(***************************************************************************)
THEOREM ForeignFilesStay == Spec => UnmanagedPreserved
<1>1. Init => Modest
  <2> SUFFICES ASSUME Init PROVE Modest
    OBVIOUS
  <2>1. Exact /\ ~Installed /\ \A p \in Procs : pc[p] = "idle"
    BY ExactInit DEF Init, Installed
  <2>2. QED
    BY <2>1 DEF Modest, Unclaimed, Untaken, Before, Underway, WithSnapshot, Forward
<1>2. Modest /\ [Next]_vars => Modest'
  BY ModestStep
<1>3. Modest /\ [Next]_vars =>
          [\A i \in {"binary", "unit"} :
              ~Installed /\ disk[i] = Foreign => disk'[i] = Foreign]_vars
  BY ForeignKept
<1>4. QED
  BY <1>1, <1>2, <1>3, PTL DEF Spec, UnmanagedPreserved

-----------------------------------------------------------------------------
(* While nothing leaves the installation in doubt                          *)

\* No process dies, no call of a rollback fails and nobody alters the installed files.
Calm == Events \cap {"crash", "rollback", "drift"} = {}

\* No rollback has an error to report, and what it restarts is the service that was there.
Clean(p) ==
    /\ tx[p].clean
    /\ pc[p] \in {"reenable", "resume"} => OldService(p)

Settled == Exact /\ sound /\ T!Consistent /\ \A p \in Procs : Clean(p)

\* What the manifest vouches for is what an operation under way finds.
LEMMA VouchedFor ==
    ASSUME Settled, NEW p \in Procs, pc[p] \in Before, HadInstall(p)
    PROVE  /\ Effective("binary") = tx[p].was.hash /\ tx[p].was.hash # None
           /\ OldService(p) => Effective("unit") = tx[p].was.build /\ tx[p].was.build # None
<1>1. manifest = tx[p].was /\ manifest # T!Nothing
  BY DEF Settled, Exact, Fits, Admitted, HadInstall, NotInstalled, T!Nothing
<1>2. manifest.hash # None /\ manifest.build # None
  BY <1>1, ConstantFacts DEF Settled, Exact, Base, TypeOK, ManifestType, HadInstall
<1>3. QED
  BY <1>1, <1>2 DEF Settled, T!Consistent, OldService

\* A rollback that starts the old service again finds its definition and its binary.
LEMMA Standing ==
    ASSUME Settled, NEW p \in Procs, pc[p] \in {"reenable", "resume"}
    PROVE  disk["unit"] # None /\ disk["binary"] # None
<1>1. OldService(p) /\ tx[p].clean
  BY DEF Settled, Clean
<1>2. HadInstall(p)
  BY <1>1 DEF OldService, HadInstall, NotInstalled
<1>3. pc[p] \in Before /\ pc[p] \in Restoring \ Undoing /\ pc[p] \in Undecidable
      /\ pc[p] \notin Outside
  BY DEF Before, Underway, Steps, Restoring, Undoing, Undecidable, Outside
<1>4. {"binary", "unit"} \subseteq Files(p)
  BY <1>1 DEF Files, Covered
<1>5. \A i \in {"binary", "unit"} : disk[i] = Own.image[i]
  BY <1>1, <1>3, <1>4 DEF Settled, Exact, Fits, Intact
<1>6. \A i \in {"binary", "unit"} : Effective(i) = Own.image[i]
  BY <1>3, <1>4, EffectiveOf DEF Settled, Exact, Items, Files
<1>7. QED
  BY <1>1, <1>2, <1>3, <1>5, <1>6, VouchedFor

\* A call of a rollback that succeeds keeps it clean.
LEMMA StaysClean ==
    ASSUME TypeOK, NEW p \in Procs, tx[p].clean, sound,
           \/ Close(p, tx[p].clean /\ TRUE)
           \/ \E item \in Items : ItemDone(p, item, TRUE)
           \/ \E more \in BOOLEAN, step \in Steps : Onward(p, TRUE, more, step)
    PROVE  sound' /\ tx'[p].clean
<1>1. tx \in [Procs -> TxType]
  BY DEF TypeOK
<1>2. CASE Close(p, tx[p].clean /\ TRUE)
  BY <1>1, <1>2 DEF Close, TxType
<1>3. CASE \E item \in Items : ItemDone(p, item, TRUE)
  BY <1>1, <1>2, <1>3 DEF ItemDone, TxType
<1>4. CASE \E more \in BOOLEAN, step \in Steps : Onward(p, TRUE, more, step)
  BY <1>1, <1>2, <1>4 DEF Onward, TxType
<1>5. QED
  BY <1>2, <1>3, <1>4

\* Every call of the rollback succeeds.
LEMMA CalmUndo ==
    ASSUME Calm, Settled, NEW p \in Procs, UndoStep(p)
    PROVE  /\ sound' /\ tx'[p].clean
           /\ pc'[p] \in {"reenable", "resume"} => OldService(p)
<1>1. TypeOK /\ tx \in [Procs -> TxType] /\ pc \in [Procs -> Steps] /\ tx[p].clean /\ sound
  BY DEF Settled, Exact, Base, TypeOK, Clean
<1>2. "rollback" \notin Events
  BY DEF Calm
<1>3. CASE RbStop(p) \/ RbInspectFails(p) \/ RbDisable(p)
  BY <1>1, <1>2, <1>3 DEF RbStop, RbInspectFails, RbDisable, RollbackMayFail, Goto, TxType
<1>4. CASE Wipe(p) \/ WipeFails(p) \/ Refill(p) \/ RefillFails(p)
  <2>1. LastOf(tx[p].left) \in Items
    BY <1>4, RequestFacts, LastOfFacts
    DEF Wipe, WipeFails, Refill, RefillFails, RollbackMayFail, Settled, Exact, Base, Local,
       Undoing
  <2>2. ItemDone(p, LastOf(tx[p].left), TRUE) \/ UNCHANGED <<tx, sound>>
    BY <1>2, <1>4 DEF Wipe, WipeFails, Refill, RefillFails, RollbackMayFail
  <2>3. pc'[p] \in {"refill", "wipe", "reload", "unlock"}
    BY <1>1, <1>4 DEF Wipe, WipeFails, Refill, RefillFails, ItemDone, Close, Goto
  <2>4. QED
    BY <1>1, <2>1, <2>2, <2>3, StaysClean
<1>5. CASE RbReload(p)
  <2>1. Onward(p, TRUE, AfterReload(p), "reenable")
    BY <1>2, <1>5 DEF RbReload
  <2>2. AfterReload(p) \in BOOLEAN /\ "reenable" \in Steps
    BY <1>1 DEF AfterReload, OldService, TxType, Observations, ManifestType, NotInstalled, Steps
  <2>3. pc'[p] = "reenable" => AfterReload(p)
    BY <1>1, <2>1 DEF Onward, Close, Goto
  <2>4. pc'[p] # "resume"
    BY <1>1, <2>1 DEF Onward, Close, Goto
  <2>5. QED
    BY <1>1, <2>1, <2>2, <2>3, <2>4, StaysClean DEF AfterReload
<1>6. CASE RbEnable(p)
  <2>1. pc[p] = "reenable" /\ OldService(p)
    BY <1>6 DEF RbEnable, Settled, Clean
  <2>2. Onward(p, TRUE, tx[p].old.running, "resume")
    BY <1>2, <1>6, <2>1, Standing DEF RbEnable
  <2>3. tx[p].old.running \in BOOLEAN /\ "resume" \in Steps
    BY <1>1 DEF TxType, Observations, Steps
  <2>4. QED
    BY <1>1, <2>1, <2>2, <2>3, StaysClean
<1>7. CASE RbStart(p)
  <2>1. pc[p] = "resume"
    BY <1>7 DEF RbStart
  <2>2. Close(p, tx[p].clean /\ TRUE)
    BY <1>2, <1>7, <2>1, Standing DEF RbStart, CanStart
  <2>3. pc'[p] = "unlock"
    BY <1>1, <2>2 DEF Close, Goto
  <2>4. QED
    BY <1>1, <2>2, <2>3, StaysClean
<1>8. QED
  BY <1>3, <1>4, <1>5, <1>6, <1>7 DEF UndoStep

\* The other steps of an operation report no error of a rollback.
LEMMA CalmMutate ==
    ASSUME TypeOK, NEW p \in Procs, Prepare(p) \/ Mutate(p), sound
    PROVE  /\ sound' /\ tx'[p].clean = tx[p].clean
           /\ pc'[p] \notin {"reenable", "resume"}
<1>1. tx \in [Procs -> TxType] /\ pc \in [Procs -> Steps]
  BY DEF TypeOK
<1>2. ASSUME Fail(p) \/ RollBack(p) \/ \E o \in Outcomes : Finish(p, o)
      PROVE  tx'[p].clean = tx[p].clean /\ pc'[p] \notin {"reenable", "resume"}
  BY <1>1, <1>2 DEF Fail, RollBack, Finish, Goto, TxType
<1>3. CASE Prepare(p)
  BY <1>1, <1>2, <1>3 DEF Prepare, StopOld, StopOldFails, OpenSnapshot, OpenSnapshotFails,
     FillSnapshot, FillSnapshotFails, AfterSnapshot, AfterFailedSnapshot, RestartOld, Goto,
     host, Outcomes
<1>4. CASE Retain(p) \/ RetainFails(p)
  BY <1>1, <1>2, <1>4 DEF Retain, RetainFails, Outcomes
<1>5. CASE Mutate(p) /\ ~Retain(p) /\ ~RetainFails(p)
  <2>1. tx' = [tx EXCEPT ![p].mutated = TRUE] => tx'[p].clean = tx[p].clean
    BY <1>1 DEF TxType
  <2>2. sound'
    BY <1>5 DEF Mutate, Hook, HookFails, Copy, Verify, Define, DefineFails, Load, SetAutostart,
       Start, StartFails, Healthy, Commit, Disable, Undefine, UndefineFails, Unload,
       RemoveBinary, RemoveManifest, CallFails, host
  <2>3. QED
    BY <1>1, <1>2, <1>5, <2>1, <2>2 DEF Mutate, Hook, HookFails, Copy, Verify, AfterVerify,
       WithNewService, Define, DefineFails, Load, SetAutostart, Start, StartFails, Healthy,
       Commit, Disable, Undefine, UndefineFails, Unload, RemoveBinary, RemoveManifest,
       CallFails, Goto, host
<1>6. QED
  BY <1>3, <1>4, <1>5

\* On a calm host Settled is inductive: every rollback succeeds and nothing is in doubt.
LEMMA SettledStep ==
    ASSUME Calm, Settled, [Next]_vars
    PROVE  Settled'
<1>1. Exact' /\ [T!Next]_(T!vars)
  BY ExactStep DEF Settled
<1>2. T!Consistent'
  BY <1>1, ConsistentStep DEF Settled
<1>3. TypeOK /\ Base
  BY DEF Settled, Exact, Base
<1>4. CASE UNCHANGED vars \/ Environment
  BY <1>1, <1>2, <1>4 DEF Calm, vars, Environment, ServiceWrites, ServiceExits, ServiceRestarts, Drift,
     Settled, Clean, OldService
<1>5. ASSUME NEW p \in Procs, Begin(p) \/ Enter(p) \/ Crash(p)
      PROVE  sound' /\ \A q \in Procs : Clean(q)'
  <2>1. sound' = sound /\ \A q \in Procs \ {p} : pc'[q] = pc[q] /\ tx'[q] = tx[q]
    <3>1. ~Crash(p)
      BY DEF Crash, Calm
    <3>2. UNCHANGED sound
      BY <1>5, <3>1 DEF Begin, Enter, Acquire, TurnedAway, Admit, Refuse, Unlock, host
    <3>3. pc \in [Procs -> Steps] /\ tx \in [Procs -> TxType]
      BY <1>3 DEF TypeOK
    <3>4. \A q \in Procs \ {p} : pc'[q] = pc[q] /\ tx'[q] = tx[q]
      BY <1>5, <3>1, <3>3 DEF Begin, Enter, Acquire, TurnedAway, Admit, Refuse, Unlock, Finish,
         Goto
    <3>5. QED
      BY <3>2, <3>4
  <2>2. tx'[p].clean /\ pc'[p] \notin {"reenable", "resume"}
    <3>1. tx \in [Procs -> TxType] /\ pc \in [Procs -> Steps] /\ tx[p].clean
      BY <1>3 DEF TypeOK, Settled, Clean
    <3>2. ~Crash(p)
      BY DEF Crash, Calm
    <3>3. CASE Admit(p)
      <4>1. PICK step \in {"stop", "snapshot"} : pc' = [pc EXCEPT ![p] = step]
        BY <3>3 DEF Admit, Goto
      <4>2. tx'[p].clean = tx[p].clean
        BY <3>1, <3>3 DEF Admit, TxType
      <4>3. QED
        BY <3>1, <4>1, <4>2
    <3>4. CASE ~Admit(p)
      BY <1>5, <3>1, <3>2, <3>4 DEF Begin, Enter, Acquire, TurnedAway, Refuse, Unlock, Finish,
         Goto, TxType, NoTx
    <3>5. QED
      BY <3>3, <3>4
  <2>3. QED
    BY <2>1, <2>2 DEF Settled, Clean, OldService
<1>6. ASSUME NEW p \in Procs, Prepare(p) \/ Mutate(p) \/ UndoStep(p)
      PROVE  sound' /\ \A q \in Procs : Clean(q)'
  <2>1. (\A q \in Procs \ {p} : pc'[q] = pc[q]) /\ Continues(p)
    BY <1>3, <1>6, Proceeds
  <2>2. sound' /\ tx'[p].clean /\ (pc'[p] \in {"reenable", "resume"} => OldService(p))
    BY <1>3, <1>6, CalmUndo, CalmMutate DEF Settled, Clean
  <2>3. QED
    BY <2>1, <2>2 DEF Settled, Clean, OldService, Continues
<1>7. QED
  BY <1>1, <1>2, <1>4, <1>5, <1>6 DEF Next, Step, Settled

-----------------------------------------------------------------------------
(* Snapshots after a commit                                                *)

\* At the commit the snapshot of the transaction holds the binary it replaced.
Saving(p) ==
    pc[p] = "retain" /\ HadInstall(p) => Own.image["binary"] = tx[p].was.hash

\* And so do the snapshots that retention has kept.
Spared(p) ==
    pc[p] = "unlock" /\ tx[p].outcome = "done" /\ HadInstall(p) =>
        /\ Saved(tx[p].was.hash)
        /\ Len(backups) <= EffectiveKeep(KeepBackups)

Thrifty == Settled /\ \A p \in Procs : Saving(p) /\ Spared(p)

\* Retention is reached by writing or by removing the manifest.
LEMMA OnlyCommit ==
    ASSUME TypeOK, NEW p \in Procs, Prepare(p) \/ Mutate(p) \/ UndoStep(p),
           pc'[p] = "retain"
    PROVE  Commit(p) \/ RemoveManifest(p)
<1>1. CASE Prepare(p)
  BY <1>1 DEF Prepare, StopOld, StopOldFails, OpenSnapshot, OpenSnapshotFails, FillSnapshot,
     FillSnapshotFails, AfterSnapshot, RestartOld, AfterFailedSnapshot, Finish, Goto, TypeOK
<1>2. CASE Mutate(p)
  BY <1>2 DEF Mutate, Hook, HookFails, Copy, Verify, AfterVerify, WithNewService, Define,
     DefineFails, Load, SetAutostart, Start, StartFails, Healthy, Disable, Undefine,
     UndefineFails, Unload, RemoveBinary, CallFails, Retain, RetainFails, Fail, RollBack,
     Finish, Goto, TypeOK
<1>3. CASE UndoStep(p)
  BY <1>3 DEF UndoStep, RbStop, RbInspectFails, RbDisable, Wipe, WipeFails, Refill,
     RefillFails, RbReload, RbEnable, RbStart, ItemDone, Onward, Close, Goto, TypeOK
<1>4. QED
  BY <1>1, <1>2, <1>3

\* Only retention ends an operation as done.
LEMMA OnlyRetain ==
    ASSUME TypeOK, NEW p \in Procs, Begin(p) \/ Step(p) \/ Crash(p),
           pc'[p] = "unlock", tx'[p].outcome = "done"
    PROVE  Retain(p)
<1>1. tx \in [Procs -> TxType] /\ pc \in [Procs -> Steps]
  BY DEF TypeOK
<1>2. ASSUME Fail(p) \/ RollBack(p) \/ \E o \in {"refused", "failed", "dirty", "untidy"} : Finish(p, o)
      PROVE  pc'[p] # "unlock" \/ tx'[p].outcome # "done"
  BY <1>1, <1>2 DEF Fail, RollBack, Finish, Goto, TxType
<1>3. CASE Begin(p) \/ Enter(p) \/ Crash(p)
  BY <1>1, <1>2, <1>3 DEF Begin, Enter, Acquire, TurnedAway, Admit, Refuse, Unlock, Crash, Goto
<1>4. CASE Prepare(p)
  BY <1>1, <1>2, <1>4 DEF Prepare, StopOld, StopOldFails, OpenSnapshot, OpenSnapshotFails,
     FillSnapshot, FillSnapshotFails, AfterSnapshot, RestartOld, AfterFailedSnapshot, Goto
<1>5. CASE Mutate(p)
  BY <1>1, <1>2, <1>5 DEF Mutate, Hook, HookFails, Copy, Verify, AfterVerify, WithNewService,
     Define, DefineFails, Load, SetAutostart, Start, StartFails, Healthy, Commit, Disable,
     Undefine, UndefineFails, Unload, RemoveBinary, RemoveManifest, CallFails, RetainFails, Goto
<1>6. CASE UndoStep(p)
  <2>1. ASSUME NEW clean, Close(p, clean) PROVE tx'[p].outcome # "done"
    BY <1>1, <2>1 DEF Close, TxType
  <2>2. ASSUME NEW item, NEW ok, ItemDone(p, item, ok)
        PROVE  pc'[p] # "unlock" \/ tx'[p].outcome # "done"
    BY <1>1, <2>1, <2>2 DEF ItemDone, Goto
  <2>3. ASSUME NEW ok, NEW more, NEW s \in {"reenable", "resume"}, Onward(p, ok, more, s)
        PROVE  pc'[p] # "unlock" \/ tx'[p].outcome # "done"
    BY <1>1, <2>1, <2>3 DEF Onward, Goto
  <2>4. QED
    BY <1>1, <1>6, <2>1, <2>2, <2>3 DEF UndoStep, RbStop, RbInspectFails, RbDisable, Wipe,
       WipeFails, Refill, RefillFails, RbReload, RbEnable, RbStart, Goto
<1>7. QED
  BY <1>3, <1>4, <1>5, <1>6 DEF Step

\* Thrifty is inductive: the binary replaced is in the own snapshot, which retention keeps.
LEMMA ThriftyStep ==
    ASSUME Calm, Thrifty, [Next]_vars
    PROVE  Thrifty'
<1>1. Settled' /\ Base /\ TypeOK
  BY SettledStep DEF Thrifty, Settled, Exact, Base
<1>2. ASSUME NEW p \in Procs, pc'[p] = "retain", HadInstall(p)'
      PROVE  Own'.image["binary"] = tx'[p].was.hash
  <2>1. pc'[p] \in Underway /\ ~Admit(p)
    BY <1>1, <1>2 DEF Underway, Steps, Admit, Goto, TypeOK
  <2>2. CASE pc'[p] = pc[p] /\ tx'[p] = tx[p] /\ UNCHANGED backups
    BY <1>2, <2>2 DEF Thrifty, Saving, HadInstall, Own
  <2>3. CASE /\ Prepare(p) \/ Mutate(p) \/ UndoStep(p)
             /\ Continues(p)
    <3>1. /\ Commit(p) \/ RemoveManifest(p)
          /\ tx'[p].was = tx[p].was
      BY <1>1, <1>2, <2>3, OnlyCommit DEF Continues
    <3>2. pc[p] \in {"commit", "rmmanifest"} /\ UNCHANGED backups /\ HadInstall(p)
      BY <1>2, <3>1 DEF Commit, RemoveManifest, HadInstall
    <3>3. pc[p] \in Before /\ pc[p] \in Undecidable /\ pc[p] \notin Outside
          /\ "binary" \in Covered(p)
      BY <3>2 DEF Before, Underway, Steps, Undecidable, Outside, Covered
    <3>4. Effective("binary") = Own.image["binary"]
      BY <1>1, <3>3, EffectiveOf DEF Items
    <3>5. Effective("binary") = tx[p].was.hash
      BY <3>2, <3>3, VouchedFor DEF Thrifty
    <3>6. QED
      BY <3>1, <3>2, <3>4, <3>5 DEF Own
  <2>4. QED
    BY <1>1, <2>1, <2>2, <2>3, UnderWay
<1>3. ASSUME NEW p \in Procs, pc'[p] = "unlock", tx'[p].outcome = "done", HadInstall(p)'
      PROVE  Saved(tx[p].was.hash)' /\ Len(backups') <= EffectiveKeep(KeepBackups)
             /\ tx'[p].was = tx[p].was
  <2>1. ASSUME NEW c, backups' = backups, Saved(c) PROVE Saved(c)'
    BY <2>1 DEF Saved
  <2>2. CASE pc[p] = "unlock" /\ tx'[p] = tx[p] /\ UNCHANGED backups
    BY <1>3, <2>1, <2>2 DEF Thrifty, Spared, HadInstall
  <2>3. CASE Retain(p)
    <3>1. /\ pc[p] = "retain" /\ tx'[p].was = tx[p].was
          /\ HadInstall(p) => backups' = Pruned(backups, EffectiveKeep(KeepBackups))
      BY <1>1, <2>3 DEF Retain, Finish, TypeOK, TxType
    <3>2. HadInstall(p) /\ Own.image["binary"] = tx[p].was.hash
      BY <1>3, <3>1 DEF Thrifty, Saving, HadInstall
    <3>3. OwnSnapshot(p) /\ backups \in Seq(SnapshotType) /\ "binary" \in Covered(p)
      BY <1>1, <3>1 DEF Base, TypeOK, Local, WithSnapshot, Covered
    <3>4. /\ backups' \in Seq(SnapshotType) /\ Len(backups') >= 1
          /\ Len(backups') <= EffectiveKeep(KeepBackups)
          /\ backups'[Len(backups')] = Own
      BY <3>1, <3>2, <3>3, PrunedFacts, ConstantFacts DEF OwnSnapshot, Own
    <3>5. Len(backups') \in DOMAIN backups'
      BY <3>4, LenProperties
    <3>6. QED
      BY <3>1, <3>2, <3>3, <3>4, <3>5 DEF Saved, OwnSnapshot
  <2>4. CASE UNCHANGED vars \/ Environment
    BY <1>3, <2>2, <2>4 DEF vars, Environment, ServiceWrites, ServiceExits, ServiceRestarts, Drift
  <2>5. ASSUME NEW q \in Procs \ {p}, Begin(q) \/ Step(q) \/ Crash(q)
        PROVE  pc[p] = "unlock" /\ tx'[p] = tx[p] /\ UNCHANGED backups
    <3>1. pc'[p] = pc[p]
      BY <1>1, <2>5, Proceeds DEF Step, Begin, Enter, Acquire, TurnedAway, Admit, Refuse,
         Unlock, Crash, Finish, Goto, TypeOK
    <3>2. QED
      BY <1>1, <1>3, <2>5, <3>1, Bystander DEF Outside
  <2>6. QED
    BY <1>1, <1>3, <2>2, <2>3, <2>4, <2>5, OnlyRetain DEF Next
<1>4. QED
  BY <1>1, <1>2, <1>3 DEF Thrifty, Saving, Spared, HadInstall

\* Settled holds at first: nothing is installed and nothing in doubt.
LEMMA SettledInit == Init => Settled
<1> SUFFICES ASSUME Init PROVE Settled
  OBVIOUS
<1>1. Exact /\ sound /\ manifest = NotInstalled
      /\ \A p \in Procs : pc[p] = "idle" /\ tx[p] = NoTx
  BY ExactInit DEF Init
<1>2. QED
  BY <1>1 DEF Settled, Clean, NoTx, T!Consistent, T!Nothing, NotInstalled

(***************************************************************************)
(* While no process dies, no rollback fails and nobody alters the files, a *)
(* successful upgrade, repair or remove leaves a usable snapshot of the    *)
(* binary it replaced, and no more snapshots than the policy keeps: the    *)
(* newest one is the transaction's own, made from what the manifest vouched*)
(* for, and pruneBackups spares it whatever KeepBackups says (Retain of    *)
(* installOrRepairLinux and removeLinux).                                  *)
(***************************************************************************)
THEOREM ReplacedBinaryIsKept == ASSUME Calm PROVE Spec => []Retention
<1>1. Init => Thrifty
  BY SettledInit DEF Thrifty, Saving, Spared, Init
<1>2. Thrifty /\ [Next]_vars => Thrifty'
  BY ThriftyStep
<1>3. Thrifty => Retention
  BY DEF Thrifty, Spared, Retention
<1>4. QED
  BY <1>1, <1>2, <1>3, PTL DEF Spec

\* A commit on an installation not in doubt: the own snapshot holds what the manifest vouches for.
LEMMA CommitSaves ==
    ASSUME Exact, T!Consistent, [Next]_vars, NEW p \in Procs, HadInstall(p),
           pc[p] # "retain", pc'[p] = "retain", sound
    PROVE  Own.complete /\ Own.image["binary"] = tx[p].was.hash
<1>1. Base /\ TypeOK
  BY DEF Exact, Base
<1>2. Commit(p) \/ RemoveManifest(p)
  <2>1. pc'[p] \in Underway /\ pc'[p] # pc[p] /\ ~Admit(p)
    BY <1>1 DEF Underway, Steps, Admit, Goto, TypeOK
  <2> QED
    BY <1>1, <2>1, UnderWay, OnlyCommit
<1>3. /\ pc[p] \in Before /\ pc[p] \in Undecidable /\ pc[p] \notin Outside
      /\ pc[p] \in WithSnapshot /\ "binary" \in Covered(p)
  BY <1>2 DEF Commit, RemoveManifest, Before, Underway, Steps, Undecidable, Outside,
     WithSnapshot, Forward, Covered
<1>4. Effective("binary") = Own.image["binary"]
  BY <1>1, <1>3, EffectiveOf DEF Items
<1>5. manifest = tx[p].was /\ manifest # T!Nothing
  BY <1>3 DEF Exact, Fits, Admitted, HadInstall, NotInstalled, T!Nothing
<1>6. Effective("binary") = tx[p].was.hash
  BY <1>5 DEF T!Consistent
<1>7. Own.complete
  BY <1>1, <1>3 DEF Base, Local, OwnSnapshot
<1> QED
  BY <1>4, <1>6, <1>7

\* Whatever ends it, retention leaves the snapshot of its operation.
LEMMA RetentionSpares ==
    ASSUME Base, [Next]_vars, NEW p \in Procs, HadInstall(p), pc[p] = "retain", pc'[p] # "retain"
    PROVE  \E i \in DOMAIN backups' : backups'[i] = Own
<1>1. TypeOK /\ OwnSnapshot(p) /\ backups \in Seq(SnapshotType)
  BY DEF Base, TypeOK, Local, WithSnapshot
<1>2. CASE backups' = backups
  BY <1>1, <1>2, LenProperties DEF OwnSnapshot, Own
<1>3. CASE backups' = Pruned(backups, EffectiveKeep(KeepBackups))
  <2>1. /\ backups' \in Seq(SnapshotType) /\ Len(backups') >= 1
        /\ backups'[Len(backups')] = Own
    BY <1>1, <1>3, PrunedFacts, ConstantFacts DEF OwnSnapshot, Own
  <2> QED
    BY <2>1, LenProperties
<1>4. CASE backups' \in PrunedPartWay(backups, EffectiveKeep(KeepBackups))
  BY <1>1, <1>4, PartWayKeepsNewest, SnapshotTypes, ConstantFacts DEF Own
<1>5. CASE Retain(p) \/ RetainFails(p)
  BY <1>2, <1>3, <1>4, <1>5 DEF Retain, RetainFails
<1>6. CASE Crash(p)
  BY <1>2, <1>4, <1>6 DEF Crash
<1>7. CASE Begin(p) \/ Enter(p) \/ Prepare(p) \/ UndoStep(p)
  BY <1>7 DEF Begin, Enter, Acquire, TurnedAway, Admit, Refuse, Unlock, Prepare, StopOld,
     StopOldFails, OpenSnapshot, OpenSnapshotFails, FillSnapshot, FillSnapshotFails, RestartOld,
     UndoStep, RbStop, RbInspectFails, RbDisable, Wipe, WipeFails, Refill, RefillFails,
     RbReload, RbEnable, RbStart, MayFail, RollbackMayFail
<1>8. CASE Mutate(p)
  BY <1>5, <1>8 DEF Mutate, Hook, HookFails, Copy, Verify, Define, DefineFails, Load,
     SetAutostart, Start, StartFails, Healthy, Commit, Disable, Undefine, UndefineFails, Unload,
     RemoveBinary, RemoveManifest, CallFails, MayFail, PlainCalls
<1>9. CASE UNCHANGED vars \/ Environment
  BY <1>9 DEF vars, Environment, ServiceWrites, ServiceExits, ServiceRestarts, Drift
<1>10. ASSUME NEW q \in Procs \ {p}, Begin(q) \/ Step(q) \/ Crash(q) PROVE pc'[p] = pc[p]
  BY <1>1, <1>10, Proceeds DEF Step, Begin, Enter, Acquire, TurnedAway, Admit, Refuse,
     Unlock, Crash, Finish, Goto, TypeOK
<1> QED
  BY <1>5, <1>6, <1>7, <1>8, <1>9, <1>10 DEF Next, Step

(***************************************************************************)
(* Without any assumption on what crashed, failed or was altered before:   *)
(* an operation that commits while the installation is not in doubt has    *)
(* the binary it replaces in its own snapshot, and retention, finished,    *)
(* failed or cut short by the end of the process, spares that snapshot for *)
(* every KeepBackups (installOrRepairLinux, removeLinux, pruneBackups).    *)
(***************************************************************************)
THEOREM ReplacementIsKept == Spec => ReplacedIsKept
<1>1. Init => Exact /\ T!Consistent
  <2>1. T!Init => T!Consistent
    BY DEF T!Init, T!Consistent
  <2> QED
    BY <2>1, ExactInit
<1>2. Exact /\ T!Consistent /\ [Next]_vars => (Exact /\ T!Consistent)'
  BY ExactStep, ConsistentStep
<1>3. Exact /\ T!Consistent /\ [Next]_vars =>
          [\A p \in Procs : HadInstall(p) =>
              /\ pc[p] # "retain" /\ pc'[p] = "retain" /\ sound
                    => Own.complete /\ Own.image["binary"] = tx[p].was.hash
              /\ pc[p] = "retain" /\ pc'[p] # "retain"
                    => \E i \in DOMAIN backups' : backups'[i] = Own]_vars
  BY CommitSaves, RetentionSpares DEF Exact
<1> QED
  BY <1>1, <1>2, <1>3, PTL DEF Spec, ReplacedIsKept

-----------------------------------------------------------------------------
(* The service                                                             *)

(***************************************************************************)
(* Calls of an operation fail, the service writes its data and ends by     *)
(* itself, the manager restarts it and fails to answer; but no process     *)
(* dies, no call of a rollback fails and nobody alters the files.          *)
(***************************************************************************)
Quiet == Events \subseteq {"call", "write", "exit", "restart", "probe"}

\* What lies at the paths and runs before SvcForge is used is somebody else's.
FirstUse ==
    /\ InitBinaries \subseteq {None, Foreign} /\ InitUnits \subseteq {None, Foreign}
    /\ \A s \in InitServices : s.state = "active" => s.image = Foreign

Running == service.state = "active"

Up == Alive(service)

\* The steps after the definition of the new service was written.
Launched == {"load", "autostart", "start", "health", "commit"}

\* Nothing of ours is left where the manifest does not account for it.
Bare ==
    /\ ~Installed => Effective("binary") \in {None, Foreign}
    /\ ~manifest.service => Effective("unit") \in {None, Foreign}

\* What p remembers of the old service, and the definition it finds.
Observed(p) ==
    pc[p] \in Before =>
        /\ OldService(p) => tx[p].old.defined
        /\ tx[p].old.running => OldService(p)
        /\ pc[p] \in {"stop", "restart", "resume"} => tx[p].old.running
        /\ pc[p] \in {"rbstop", "rbdisable"} => NewService(p) /\ tx[p].left = Covered(p)
        /\ OldService(p) /\ NewService(p) /\ pc[p] \notin Restoring \ {"rbstop"}
              => disk["unit"] # None
        /\ ~OldService(p) /\ ~(NewService(p) /\ pc[p] \in Launched \cup Restoring)
              => disk["unit"] \in {None, Foreign}

\* The files are back where the rollback of p has ended without an error.
FilesBack(p) == RolledBack(p) => FilesAsBefore(p)

\* What holds whatever the service manager answers.
Kept == Settled /\ Bare /\ \A p \in Procs : Observed(p) /\ FilesBack(p)

\* The process of the service runs what is installed; without a definition there is none.
Served ==
    /\ Running /\ service.image # Foreign => service.image = disk["binary"]
    /\ ~manifest.service /\ disk["unit"] = None => ~service.enabled /\ ~Up
    /\ ~manifest.service /\ Running /\ (\A p \in Procs : pc[p] \notin Before)
          => service.image = Foreign

\* The old service is down from its stop to its restart; the new one may be up once its
\* definition is there.
Down(p) ==
    pc[p] \in Before \ {"stop", "rbstop"} /\ Up =>
        \/ pc[p] \in Launched /\ NewService(p)
        \/ /\ Running => service.image = Foreign
           /\ ~OldService(p)
           /\ pc[p] \in Restoring => ~NewService(p)

\* The steps of dropping a service after its autostart entry is gone.
Disabled == {"undefine", "unload", "rmbinary", "rmmanifest", "health", "commit"}

\* What p has made of the autostart entry.
Enabled(p) ==
    /\ pc[p] \in Before \ Restoring /\ OldService(p) /\ ~NewService(p)
          => service.enabled = (tx[p].old.enabled /\ pc[p] \notin Disabled)
    /\ pc[p] \in {"wipe", "refill", "reload", "reenable"} /\ NewService(p) => ~service.enabled
    /\ pc[p] = "resume" => service.enabled = tx[p].old.enabled

\* The data that a rollback has restored stays restored while nothing runs.
DataBack(p) ==
    /\ pc[p] \in Undoing /\ "data" \in Covered(p) \ tx[p].left
          => disk["data"] = Own.image["data"]
    /\ pc[p] \in Restoring \ Undoing /\ "data" \in Covered(p)
          => disk["data"] = Own.image["data"]

\* The rollback of p, when it has ended without an error.
Undone(p) == RolledBack(p) => HostAsBefore(p)

Remembers(p) == Down(p) /\ Enabled(p) /\ DataBack(p) /\ Undone(p)

\* The service and the data are as the transactions left them.
Orderly == Kept /\ Served /\ \A p \in Procs : Remembers(p)

\* All of it holds until the manager gives a wrong answer, and again after a right one.
Fairly == Kept /\ (~misread => Orderly)

\* A quiet host is a calm one.
LEMMA QuietIsCalm == Quiet => Calm
BY DEF Quiet, Calm

-----------------------------------------------------------------------------
(* What holds whatever the manager answers                                 *)

\* What p knows at its step.
LEMMA KeptFacts ==
    ASSUME Kept, NEW p \in Procs
    PROVE  /\ TypeOK /\ Base /\ Exact /\ Settled
           /\ pc \in [Procs -> Steps] /\ tx \in [Procs -> TxType] /\ disk \in [Items -> Contents]
           /\ service \in ServiceType
           /\ Observed(p) /\ FilesBack(p) /\ tx[p].clean /\ sound
           /\ pc[p] \notin Outside => lock = p
           /\ pc[p] \in Before => /\ pc[p] \notin Outside /\ manifest = tx[p].was
                                  /\ OldService(p) = manifest.service
                                  /\ Covered(p) \subseteq Items
BY RequestFacts
DEF Kept, Settled, Clean, Exact, Base, TypeOK, MutualExclusion, Outside, Fits, Admitted,
   Before, Underway, OldService

\* Who is past the lock on a calm host takes a step or does not notice the one taken.
LEMMA Around ==
    ASSUME Calm, Base, [Next]_vars, NEW p \in Procs, pc'[p] \notin Outside \cup {"decide"}
    PROVE  /\ pc[p] \notin Outside
           /\ \/ Step(p)
              \/ /\ pc'[p] = pc[p] /\ req'[p] = req[p] /\ tx'[p] = tx[p]
                 /\ UNCHANGED <<manifest, backups>>
                 /\ disk'["binary"] = disk["binary"] /\ disk'["unit"] = disk["unit"]
<1>1. TypeOK /\ pc \in [Procs -> Steps] /\ disk \in [Items -> Contents]
  BY DEF Base, TypeOK
<1>2. CASE UNCHANGED vars \/ Environment
  <2>1. ~Drift
    BY DEF Drift, Calm
  <2>2. UNCHANGED <<pc, req, tx, manifest, backups>>
    BY <1>2, <2>1 DEF vars, Environment, ServiceWrites, ServiceExits, ServiceRestarts
  <2>3. UNCHANGED disk \/ disk' = [disk EXCEPT !["data"] = service.image]
    BY <1>2, <2>1 DEF vars, Environment, ServiceWrites, ServiceExits, ServiceRestarts
  <2>4. disk'["binary"] = disk["binary"] /\ disk'["unit"] = disk["unit"]
    BY <1>1, <2>3 DEF Items
  <2>5. QED
    BY <2>2, <2>4
<1>3. ASSUME NEW q \in Procs \ {p}, Begin(q) \/ Step(q) \/ Crash(q)
      PROVE  /\ pc[p] \notin Outside
             /\ pc'[p] = pc[p] /\ req'[p] = req[p] /\ tx'[p] = tx[p]
             /\ UNCHANGED <<manifest, backups, disk>>
  <2>1. pc'[p] = pc[p]
    BY <1>1, <1>3, Proceeds DEF Step, Begin, Enter, Acquire, TurnedAway, Admit, Refuse, Unlock,
       Crash, Finish, Goto, TypeOK
  <2>2. QED
    BY <1>3, <2>1, Bystander
<1>4. ~Begin(p) /\ ~Crash(p)
  BY <1>1 DEF Begin, Goto, Crash, Calm, Outside
<1>5. Step(p) => pc[p] \notin Outside
  <2>1. ~Acquire(p) /\ ~TurnedAway(p)
    BY <1>1 DEF Acquire, TurnedAway, Goto, Outside
  <2>2. Admit(p) \/ Refuse(p) \/ Unlock(p) => pc[p] \notin Outside
    BY DEF Admit, Refuse, Unlock, Outside
  <2>3. Prepare(p) \/ Mutate(p) \/ UndoStep(p) => pc[p] \notin Outside
    BY Proceeds DEF Underway, Outside
  <2>4. QED
    BY <2>1, <2>2, <2>3 DEF Step, Enter
<1>6. QED
  BY <1>2, <1>3, <1>4, <1>5 DEF Next

\* Where stop and snapshot lead.
LEMMA PrepareLeads ==
    ASSUME TypeOK, NEW p \in Procs, Prepare(p)
    PROVE  /\ UNCHANGED disk
           /\ pc[p] \in {"stop", "snapshot", "archive", "restart"}
           /\ pc'[p] \in {"snapshot", "archive", "restart", "hook", "copy", "disable",
                          "undefine", "rmbinary", "unlock"}
           /\ pc'[p] = "restart" => tx[p].old.running
           /\ pc'[p] = "unlock" => tx'[p].outcome # "rolledback"
<1>1. tx \in [Procs -> TxType] /\ pc \in [Procs -> Steps]
  BY DEF TypeOK
<1>2. ASSUME NEW o \in {"failed", "dirty"}, Finish(p, o)
      PROVE  pc'[p] = "unlock" /\ tx'[p].outcome # "rolledback"
  BY <1>1, <1>2 DEF Finish, Goto, TxType
<1>3. ASSUME NEW s \in Steps, Goto(p, s) PROVE pc'[p] = s
  BY <1>1, <1>3 DEF Goto
<1>4. CASE OpenSnapshotFails(p) \/ FillSnapshotFails(p)
  <2>1. AfterFailedSnapshot(p) /\ UNCHANGED disk /\ pc[p] \in {"snapshot", "archive"}
    BY <1>4 DEF OpenSnapshotFails, FillSnapshotFails, MayFail, host
  <2>2. QED
    BY <1>2, <1>3, <2>1 DEF AfterFailedSnapshot, Steps
<1>5. CASE FillSnapshot(p)
  <2>1. AfterSnapshot(p) \in {"hook", "copy", "disable", "undefine", "rmbinary"}
    BY DEF AfterSnapshot
  <2>2. Goto(p, AfterSnapshot(p)) /\ UNCHANGED disk /\ pc[p] = "archive"
    BY <1>5 DEF FillSnapshot
  <2>3. pc'[p] = AfterSnapshot(p)
    BY <1>3, <2>1, <2>2 DEF Steps
  <2>4. QED
    BY <2>1, <2>2, <2>3
<1>6. CASE StopOld(p) \/ StopOldFails(p) \/ OpenSnapshot(p) \/ RestartOld(p)
  BY <1>2, <1>3, <1>6 DEF StopOld, StopOldFails, OpenSnapshot, RestartOld, MayFail, Steps, host
<1>7. QED
  BY <1>4, <1>5, <1>6 DEF Prepare

\* Where the changes and their errors lead, and what they make of the definition.
LEMMA MutateLeads ==
    ASSUME Exact, NEW p \in Procs, Mutate(p)
    PROVE  /\ pc[p] \notin Restoring \cup {"stop", "restart"}
           /\ pc'[p] \notin {"stop", "restart"} \cup (Restoring \ {"rbstop", "wipe"})
           /\ pc'[p] = "rbstop" => NewService(p) /\ tx'[p].left = Covered(p)
           /\ pc'[p] = "unlock" => tx'[p].outcome # "rolledback"
           /\ pc[p] \in Launched /\ NewService(p)
                 => pc'[p] \in Launched \cup Restoring \cup {"retain"}
           /\ \/ disk'["unit"] = disk["unit"]
              \/ /\ disk'["unit"] = req[p].build /\ req[p].build # None
                 /\ NewService(p) /\ pc'[p] \in Launched \cup Restoring
              \/ OldService(p) /\ ~NewService(p) /\ disk'["unit"] = None
<1>1. /\ TypeOK /\ tx \in [Procs -> TxType] /\ pc \in [Procs -> Steps]
      /\ disk \in [Items -> Contents] /\ Routed(p)
  BY DEF Exact, Base, TypeOK, Fits
<1>2. ASSUME NEW s \in Steps, Goto(p, s) PROVE pc'[p] = s
  BY <1>1, <1>2 DEF Goto
<1>3. ASSUME NEW o \in {"failed", "done", "untidy"}, Finish(p, o)
      PROVE  pc'[p] = "unlock" /\ tx'[p].outcome # "rolledback"
  BY <1>1, <1>3 DEF Finish, Goto, TxType
<1>4. ASSUME RollBack(p)
      PROVE  /\ pc'[p] = IF NewService(p) THEN "rbstop" ELSE "wipe"
             /\ tx'[p].left = Covered(p)
  BY <1>1, <1>4 DEF RollBack, Goto, TxType
<1>5. ASSUME Fail(p)
      PROVE  /\ pc'[p] \in {"rbstop", "wipe", "unlock"}
             /\ pc'[p] = "rbstop" => NewService(p) /\ tx'[p].left = Covered(p)
             /\ pc'[p] = "unlock" => tx'[p].outcome # "rolledback"
             /\ tx[p].mutated => pc'[p] \in {"rbstop", "wipe"}
  BY <1>3, <1>4, <1>5 DEF Fail
<1>6. NewService(p) /\ pc[p] \in Launched \cup {"define"} => tx[p].mutated
  BY <1>1 DEF Routed, NewService, Launched, Verified
<1>7. Restoring = {"rbstop", "rbdisable", "wipe", "refill", "reload", "reenable", "resume"}
  BY DEF Restoring, Undoing
<1>8. CASE Hook(p) \/ Copy(p) \/ Load(p) \/ SetAutostart(p) \/ Start(p) \/ Healthy(p)
           \/ Commit(p) \/ Disable(p) \/ RemoveBinary(p) \/ RemoveManifest(p)
  <2>1. disk'["unit"] = disk["unit"]
    BY <1>1, <1>8 DEF Hook, Copy, Load, SetAutostart, Start, Healthy, Commit, Disable,
       RemoveBinary, RemoveManifest, Items, host
  <2>2. /\ pc[p] \in {"hook", "copy", "load", "autostart", "start", "health", "commit",
                      "disable", "rmbinary", "rmmanifest"}
        /\ pc'[p] \in {"copy", "verify", "autostart", "start", "health", "commit", "retain",
                       "undefine", "rmmanifest"}
        /\ pc[p] \in Launched => pc'[p] \in Launched \cup {"retain"}
    BY <1>2, <1>8 DEF Hook, Copy, Load, SetAutostart, Start, Healthy, Commit, Disable,
       RemoveBinary, RemoveManifest, Launched, Steps
  <2>3. QED
    BY <1>7, <2>1, <2>2
<1>9. CASE Verify(p)
  <2>1. pc[p] = "verify" /\ UNCHANGED disk
    BY <1>9 DEF Verify, host
  <2>2. CASE Fail(p)
    BY <1>5, <1>7, <2>1, <2>2 DEF Launched
  <2>3. CASE ~Fail(p)
    <3>1. Goto(p, AfterVerify(p)) /\ AfterVerify(p) \in {"disable", "undefine", "define", "health"}
      BY <1>9, <2>3 DEF Verify, AfterVerify, WithNewService
    <3>2. pc'[p] = AfterVerify(p)
      BY <1>2, <3>1 DEF Steps
    <3>3. QED
      BY <1>7, <2>1, <3>1, <3>2 DEF Launched
  <2>4. QED
    BY <2>2, <2>3
<1>10. CASE HookFails(p) \/ StartFails(p) \/ UndefineFails(p) \/ CallFails(p)
  <2>1. disk'["unit"] = disk["unit"] /\ (Fail(p) \/ RollBack(p))
    BY <1>1, <1>10 DEF HookFails, StartFails, UndefineFails, CallFails, Items, host
  <2>2. /\ pc[p] \in PlainCalls \cup {"hook", "start", "undefine"}
        /\ pc[p] \in Launched => Fail(p)
    BY <1>10 DEF HookFails, StartFails, UndefineFails, CallFails, MayFail, Launched
  <2>3. pc[p] \notin Restoring \cup {"stop", "restart"}
    BY <1>7, <2>2 DEF PlainCalls
  <2>4. QED
    BY <1>4, <1>5, <1>6, <1>7, <2>1, <2>2, <2>3
<1>11. CASE Define(p) \/ DefineFails(p)
  <2>1. /\ pc[p] = "define" /\ NewService(p) /\ tx[p].mutated
        /\ disk' \in {disk, [disk EXCEPT !["unit"] = req[p].build]}
    BY <1>1, <1>6, <1>11 DEF Define, DefineFails, MayFail, Routed
  <2>2. req[p].build # None
    BY <1>1, <2>1, RequestFacts, ConstantFacts DEF RequestType, Exact
  <2>3. Goto(p, "load") \/ Fail(p)
    BY <1>11 DEF Define, DefineFails
  <2>4. pc'[p] \in {"load", "rbstop", "wipe"}
    BY <1>2, <1>5, <2>1, <2>3 DEF Steps
  <2>5. disk'["unit"] \in {disk["unit"], req[p].build}
    BY <1>1, <2>1 DEF Items
  <2>6. pc'[p] = "rbstop" => tx'[p].left = Covered(p)
    BY <1>2, <1>5, <2>3 DEF Steps
  <2>7. QED
    BY <1>7, <2>1, <2>2, <2>4, <2>5, <2>6 DEF Launched
<1>12. CASE Undefine(p) \/ Unload(p)
  <2>1. pc[p] \in {"undefine", "unload"} /\ OldService(p) /\ ~NewService(p)
    BY <1>1, <1>12 DEF Undefine, Unload, Routed
  <2>2. disk'["unit"] \in {disk["unit"], None}
    BY <1>1, <1>12 DEF Undefine, Unload, Items, host
  <2>3. pc'[p] \in {"unload", "rmbinary", "health"}
    BY <1>2, <1>12, <2>1 DEF Undefine, Unload, WithNewService, Steps
  <2>4. QED
    BY <1>7, <2>1, <2>2, <2>3
<1>13. CASE Retain(p) \/ RetainFails(p)
  <2>1. pc[p] = "retain" /\ UNCHANGED disk
    BY <1>13 DEF Retain, RetainFails, MayFail
  <2>2. pc'[p] = "unlock" /\ tx'[p].outcome # "rolledback"
    BY <1>3, <1>13 DEF Retain, RetainFails
  <2>3. QED
    BY <1>7, <2>1, <2>2 DEF Launched
<1>14. QED
  BY <1>8, <1>9, <1>10, <1>11, <1>12, <1>13 DEF Mutate

\* Where a rollback on a calm host leads, and what it makes of the files.
LEMMA UndoLeads ==
    ASSUME Calm, Settled, NEW p \in Procs, UndoStep(p)
    PROVE  /\ pc[p] \in Restoring
           /\ pc'[p] \in (Restoring \ {"rbstop"}) \cup {"unlock"}
           /\ pc'[p] = "rbdisable" => pc[p] = "rbstop" /\ tx'[p].left = tx[p].left
           /\ pc'[p] = "resume" => tx[p].old.running
           /\ "unit" \notin Covered(p) => disk'["unit"] = disk["unit"]
           /\ pc'[p] = "unlock" => \A i \in Files(p) : disk'[i] = Own.image[i]
<1>1. /\ TypeOK /\ tx \in [Procs -> TxType] /\ pc \in [Procs -> Steps]
      /\ disk \in [Items -> Contents] /\ tx[p].clean /\ Base
      /\ Intact(p) /\ "rollback" \notin Events
  BY DEF Settled, Exact, Base, TypeOK, Clean, Fits, Calm
<1>2. Restoring = {"rbstop", "rbdisable", "wipe", "refill", "reload", "reenable", "resume"}
  BY DEF Restoring, Undoing
<1>3. CASE RbStop(p) \/ RbInspectFails(p) \/ RbDisable(p)
  <2>1. /\ pc[p] \in {"rbstop", "rbdisable"} /\ UNCHANGED disk
        /\ pc'[p] \in {"rbdisable", "wipe"}
        /\ pc'[p] = "rbdisable" => pc[p] = "rbstop"
        /\ tx'[p].left = tx[p].left
    BY <1>1, <1>3 DEF RbStop, RbInspectFails, RbDisable, RollbackMayFail, Goto, TxType
  <2>2. QED
    BY <1>2, <2>1
<1>4. CASE Wipe(p) \/ WipeFails(p) \/ Refill(p) \/ RefillFails(p)
  <2> DEFINE item == LastOf(tx[p].left)
  <2>1. pc[p] \in {"wipe", "refill"}
    BY <1>4 DEF Wipe, WipeFails, Refill, RefillFails, RollbackMayFail
  <2>2. /\ item \in tx[p].left /\ item \in Items /\ tx[p].left \subseteq Covered(p)
    BY <1>1, <2>1, RequestFacts, LastOfFacts DEF Local, Base, Undoing
  <2>3. \/ pc' = [pc EXCEPT ![p] = "refill"] /\ disk' = [disk EXCEPT ![item] = None]
        \/ ItemDone(p, item, TRUE) /\ disk' = [disk EXCEPT ![item] = Own.image[item]]
    BY <1>1, <1>4 DEF Wipe, WipeFails, Refill, RefillFails, RollbackMayFail, Goto
  <2> HIDE DEF item
  <2>4. \A i \in Items \ {item} : disk'[i] = disk[i]
    BY <1>1, <2>3
  <2>5. "unit" \notin Covered(p) => disk'["unit"] = disk["unit"]
    BY <2>2, <2>4 DEF Items
  <2>6. CASE pc' = [pc EXCEPT ![p] = "refill"]
    <3>1. pc'[p] = "refill"
      BY <1>1, <2>6
    <3>2. QED
      BY <1>2, <2>1, <2>5, <3>1
  <2>7. CASE ItemDone(p, item, TRUE) /\ disk' = [disk EXCEPT ![item] = Own.image[item]]
    <3>1. /\ pc'[p] \in {"wipe", "reload", "unlock"}
          /\ pc'[p] = "unlock" => tx[p].left \ {item} = {}
      BY <1>1, <2>7 DEF ItemDone, Remaining, Close, Goto
    <3>2. disk'[item] = Own.image[item]
      BY <1>1, <2>2, <2>7
    <3>3. \A i \in Files(p) \ tx[p].left : disk[i] = Own.image[i]
      BY <1>1, <2>1 DEF Intact, Undoing
    <3>4. Files(p) \subseteq Items
      BY <2>1, RequestFacts DEF Files, Covered, Items
    <3>5. \A i \in Files(p) : i # item /\ tx[p].left \ {item} = {} => disk'[i] = Own.image[i]
      BY <2>4, <3>3, <3>4
    <3>6. QED
      BY <1>2, <2>1, <2>5, <3>1, <3>2, <3>5
  <2>8. QED
    BY <2>3, <2>6, <2>7
<1>5. CASE RbReload(p) \/ RbEnable(p) \/ RbStart(p)
  <2>1. pc[p] \in {"reload", "reenable", "resume"} /\ UNCHANGED disk
    BY <1>5 DEF RbReload, RbEnable, RbStart
  <2>2. \A i \in Files(p) : disk[i] = Own.image[i]
    BY <1>1, <2>1 DEF Intact, Restoring, Undoing
  <2>3. ASSUME NEW c \in BOOLEAN, Close(p, c) PROVE pc'[p] = "unlock"
    BY <1>1, <2>3 DEF Close, Goto
  <2>4. /\ pc'[p] \in {"reenable", "resume", "unlock"}
        /\ pc'[p] = "resume" => tx[p].old.running
    <3>1. \A ok \in BOOLEAN : (tx[p].clean /\ ok) \in BOOLEAN
      OBVIOUS
    <3>2. CASE RbStart(p)
      BY <2>3, <3>1, <3>2 DEF RbStart
    <3>3. CASE RbReload(p)
      BY <1>1, <2>3, <3>1, <3>3 DEF RbReload, Onward, Goto
    <3>4. CASE RbEnable(p)
      BY <1>1, <2>3, <3>1, <3>4 DEF RbEnable, Onward, Goto
    <3>5. QED
      BY <1>5, <3>2, <3>3, <3>4
  <2>5. QED
    BY <1>2, <2>1, <2>2, <2>4
<1>6. QED
  BY <1>3, <1>4, <1>5 DEF UndoStep

\* A commit takes away, or accounts for, what it finds.
LEMMA BareStep ==
    ASSUME Bare, [T!Next]_(T!vars), sound'
    PROVE  Bare'
<1> DEFINE b == Effective("binary")
           u == Effective("unit")
<1>1. /\ manifest = NotInstalled => b \in {None, Foreign}
      /\ ~manifest.service => u \in {None, Foreign}
  BY DEF Bare, Installed
<1>2. SUFFICES /\ manifest' = NotInstalled => b' \in {None, Foreign}
               /\ ~manifest'.service => u' \in {None, Foreign}
  BY DEF Bare, Installed
<1>3. CASE T!Begin \/ T!End \/ UNCHANGED T!vars
  BY <1>1, <1>3 DEF T!Begin, T!End, T!vars
<1>4. CASE T!Install
  <2>1. PICK c \in Builds, svc \in BOOLEAN :
           /\ manifest' = [build |-> c, hash |-> b', service |-> svc]
           /\ u' = IF svc THEN c ELSE T!UnitWithoutService
    BY <1>4 DEF T!Install
  <2>2. manifest'.build = c /\ manifest'.service = svc
    BY <2>1
  <2>3. manifest' # NotInstalled
    BY <2>2, ConstantFacts DEF NotInstalled
  <2>4. QED
    BY <1>1, <2>1, <2>2, <2>3 DEF T!UnitWithoutService
<1>5. CASE T!Remove
  BY <1>1, <1>5 DEF T!Remove, T!UnitWithoutService
<1>6. CASE T!Interrupt
  BY <1>6 DEF T!Interrupt
<1>7. QED
  BY <1>3, <1>4, <1>5, <1>6 DEF T!Next

\* With nobody at work, what is installed is what is on the disk.
LEMMA AtRest ==
    ASSUME Kept, \A p \in Procs : pc[p] \notin Before
    PROVE  Effective("binary") = disk["binary"] /\ Effective("unit") = disk["unit"]
<1>1. lock # None => pc[lock] \notin Undecidable
  BY UndecidableSteps DEF Kept, Settled, Exact, Base, TypeOK
<1>2. QED
  BY <1>1 DEF Effective, Pending

\* The definition of a recorded service is there when an operation is admitted.
LEMMA RecordedDefinition ==
    ASSUME Kept, \A p \in Procs : pc[p] \notin Before, manifest.service
    PROVE  disk["unit"] \in Builds
<1>1. manifest # NotInstalled
  BY DEF NotInstalled
<1>2. manifest.build \in Builds
  BY <1>1 DEF Kept, Settled, Exact, Base, TypeOK, ManifestType
<1>3. Effective("unit") = manifest.build
  BY <1>1 DEF Kept, Settled, T!Consistent, T!Nothing, NotInstalled
<1>4. QED
  BY <1>2, <1>3, AtRest

\* An operation is admitted while nobody is at work.
LEMMA NobodyElse ==
    ASSUME Kept, NEW p \in Procs, pc[p] \notin Outside \cup Before
    PROVE  \A q \in Procs : pc[q] \notin Before
BY KeptFacts, Alone DEF Before, Underway, Outside

\* What p remembers of the old service was seen at its admission.
LEMMA ObservedStep ==
    ASSUME Calm, Kept, [Next]_vars, Settled', Bare', NEW p \in Procs
    PROVE  Observed(p)'
<1>1. /\ TypeOK /\ Base /\ Exact /\ Settled /\ tx \in [Procs -> TxType] /\ Observed(p)
      /\ pc \in [Procs -> Steps]
  BY KeptFacts
<1>2. SUFFICES ASSUME pc'[p] \in Before
               PROVE  Observed(p)'
  BY DEF Observed
<1>3. pc'[p] \notin Outside \cup {"decide", "unlock"}
  BY <1>2 DEF Before, Underway, Outside
<1>4. CASE ~Step(p)
  <2>1. /\ pc'[p] = pc[p] /\ req'[p] = req[p] /\ tx'[p] = tx[p] /\ disk'["unit"] = disk["unit"]
    BY <1>1, <1>3, <1>4, Around
  <2>2. QED
    BY <1>1, <2>1 DEF Observed, OldService, NewService, Covered
<1>5. CASE Admit(p)
  <2>1. PICK old \in Observations :
           /\ old \in IF manifest.service THEN Seen ELSE {NotObserved}
           /\ tx' = [tx EXCEPT ![p].src = SourceHash(req[p]),
                               ![p].was = manifest,
                               ![p].old = old]
           /\ pc' = [pc EXCEPT ![p] = IF old.running THEN "stop" ELSE "snapshot"]
    BY <1>1, <1>5, AdmitFacts
  <2>2. /\ pc[p] = "decide" /\ UNCHANGED <<req, disk, manifest>>
    BY <1>5 DEF Admit
  <2>3. /\ tx'[p].was = manifest /\ tx'[p].old = old
        /\ pc'[p] = IF old.running THEN "stop" ELSE "snapshot"
    BY <1>1, <2>1 DEF TxType
  <2>4. OldService(p)' = manifest.service
    BY <2>3 DEF OldService
  <2>5. \A q \in Procs : pc[q] \notin Before
    BY <2>2, NobodyElse DEF Before, Underway, Outside
  <2>6. CASE manifest.service
    <3>1. disk["unit"] # None
      BY <2>5, <2>6, RecordedDefinition, ConstantFacts
    <3>2. old.defined
      BY <2>1, <2>6, <3>1 DEF Seen, Inspections
    <3>3. QED
      BY <2>2, <2>3, <2>4, <2>6, <3>1, <3>2 DEF Observed, Restoring, Undoing
  <2>7. CASE ~manifest.service
    <3>1. old = NotObserved
      BY <2>1, <2>7
    <3>2. ~old.running /\ ~old.defined
      BY <3>1 DEF NotObserved
    <3>3. disk["unit"] \in {None, Foreign}
      BY <2>5, <2>7, AtRest DEF Kept, Bare
    <3>4. QED
      BY <2>2, <2>3, <2>4, <2>7, <3>2, <3>3 DEF Observed, Restoring, Undoing
  <2>8. QED
    BY <2>6, <2>7
<1>6. CASE Prepare(p) \/ Mutate(p) \/ UndoStep(p)
  <2>1. /\ req' = req /\ Continues(p)
        /\ OldService(p)' = OldService(p) /\ NewService(p)' = NewService(p)
        /\ Covered(p)' = Covered(p) /\ tx'[p].old = tx[p].old
        /\ pc[p] \in Underway \ {"retain"}
    BY <1>1, <1>3, <1>6, Proceeds, RetainEnds DEF Continues, OldService, NewService, Covered,
       Underway
  <2>2. pc[p] \in Before
    BY <2>1 DEF Before
  <2>3. CASE Prepare(p)
    <3>1. /\ disk'["unit"] = disk["unit"]
          /\ pc[p] \in {"stop", "snapshot", "archive", "restart"}
          /\ pc'[p] \in {"snapshot", "archive", "restart", "hook", "copy", "disable",
                         "undefine", "rmbinary"}
          /\ pc'[p] = "restart" => tx[p].old.running
      BY <1>1, <1>3, <2>3, PrepareLeads
    <3>2. /\ pc[p] \notin Launched \cup Restoring /\ pc'[p] \notin Launched \cup Restoring
      BY <3>1 DEF Launched, Restoring, Undoing
    <3>3. QED
      BY <1>1, <2>1, <2>2, <3>1, <3>2 DEF Observed
  <2>4. CASE Mutate(p)
    <3>1. /\ pc[p] \notin Restoring \cup {"stop", "restart"}
          /\ pc'[p] \notin {"stop", "restart"} \cup (Restoring \ {"rbstop", "wipe"})
          /\ pc'[p] = "rbstop" => NewService(p) /\ tx'[p].left = Covered(p)
          /\ pc[p] \in Launched /\ NewService(p) => pc'[p] \in Launched \cup Restoring
      BY <1>1, <1>2, <2>4, MutateLeads DEF Before
    <3>2. \/ disk'["unit"] = disk["unit"]
          \/ /\ disk'["unit"] # None
             /\ NewService(p) /\ pc'[p] \in Launched \cup Restoring
          \/ OldService(p) /\ ~NewService(p)
      BY <1>1, <2>4, MutateLeads
    <3>3. pc'[p] \notin {"rbdisable", "resume"}
      BY <3>1 DEF Restoring, Undoing
    <3>4. OldService(p) /\ NewService(p) /\ pc'[p] \notin Restoring \ {"rbstop"}
              => disk'["unit"] # None
      BY <1>1, <2>2, <3>1, <3>2 DEF Observed
    <3>5. ~OldService(p) /\ ~(NewService(p) /\ pc'[p] \in Launched \cup Restoring)
              => disk'["unit"] \in {None, Foreign}
      BY <1>1, <2>2, <3>1, <3>2 DEF Observed
    <3>6. QED
      BY <1>1, <2>1, <2>2, <3>1, <3>3, <3>4, <3>5 DEF Observed
  <2>5. CASE UndoStep(p)
    <3>1. /\ pc[p] \in Restoring /\ pc'[p] \in Restoring \ {"rbstop"}
          /\ pc'[p] = "rbdisable" => pc[p] = "rbstop" /\ tx'[p].left = tx[p].left
          /\ pc'[p] = "resume" => tx[p].old.running
          /\ "unit" \notin Covered(p) => disk'["unit"] = disk["unit"]
      BY <1>1, <1>3, <2>5, UndoLeads
    <3>2. pc'[p] \notin {"stop", "restart"}
      BY <3>1 DEF Restoring, Undoing
    <3>3. ~OldService(p) /\ ~NewService(p) => "unit" \notin Covered(p)
      BY DEF Covered
    <3>4. QED
      BY <1>1, <2>1, <2>2, <3>1, <3>2, <3>3 DEF Observed
  <2>6. QED
    BY <1>6, <2>3, <2>4, <2>5
<1>7. CASE Acquire(p) \/ TurnedAway(p) \/ Refuse(p) \/ Unlock(p)
  BY <1>1, <1>3, <1>7 DEF Acquire, TurnedAway, Refuse, Unlock, Finish, Goto, Outside
<1>8. QED
  BY <1>4, <1>5, <1>6, <1>7 DEF Step, Enter

\* A rollback without an error has put every file back.
LEMMA FilesBackStep ==
    ASSUME Calm, Kept, [Next]_vars, NEW p \in Procs
    PROVE  FilesBack(p)'
<1>1. /\ TypeOK /\ Base /\ Exact /\ Settled /\ tx \in [Procs -> TxType] /\ FilesBack(p)
      /\ pc \in [Procs -> Steps]
  BY KeptFacts
<1>2. SUFFICES ASSUME pc'[p] = "unlock", tx'[p].outcome = "rolledback"
               PROVE  FilesAsBefore(p)'
  BY DEF FilesBack, RolledBack
<1>3. pc'[p] \notin Outside \cup {"decide"}
  BY <1>2 DEF Outside
<1>4. CASE ~Step(p)
  <2>1. /\ pc'[p] = pc[p] /\ req'[p] = req[p] /\ tx'[p] = tx[p]
        /\ UNCHANGED <<manifest, backups>>
        /\ disk'["binary"] = disk["binary"] /\ disk'["unit"] = disk["unit"]
    BY <1>1, <1>3, <1>4, Around
  <2>2. FilesAsBefore(p)
    BY <1>1, <1>2, <2>1 DEF FilesBack, RolledBack
  <2>3. Covered(p)' = Covered(p) /\ Own' = Own /\ Covered(p) \ {"data"} \subseteq {"binary", "unit"}
    BY <2>1 DEF Covered, OldService, NewService, Own
  <2>4. QED
    BY <2>1, <2>2, <2>3 DEF FilesAsBefore
<1>5. CASE Enter(p)
  <2>1. ~Admit(p)
    BY <1>1, <1>2, AdmitFacts
  <2>2. ~Refuse(p)
    BY <1>1, <1>2 DEF Refuse, Finish, TxType
  <2>3. QED
    BY <1>1, <1>2, <1>5, <2>1, <2>2 DEF Enter, Acquire, TurnedAway, Unlock, Goto
<1>6. ~Prepare(p) /\ ~Mutate(p)
  BY <1>1, <1>2, PrepareLeads, MutateLeads
<1>7. CASE UndoStep(p)
  <2>1. pc[p] \in Restoring /\ \A i \in Files(p) : disk'[i] = Own.image[i]
    BY <1>1, <1>2, <1>7, UndoLeads
  <2>2. req' = req /\ Continues(p) /\ UNCHANGED <<manifest, backups>>
    <3>1. pc[p] \notin {"snapshot", "archive", "retain"}
      BY <2>1 DEF Restoring, Undoing
    <3>2. UNCHANGED manifest
      BY <1>7 DEF UndoStep, RbStop, RbInspectFails, RbDisable, Wipe, WipeFails, Refill,
         RefillFails, RbReload, RbEnable, RbStart, host
    <3>3. QED
      BY <1>1, <1>7, <3>1, <3>2, Proceeds, SnapshotKept
  <2>3. manifest = tx[p].was
    BY <2>1, KeptFacts DEF Restoring, Undoing, Before, Underway, Steps
  <2>4. Covered(p)' = Covered(p) /\ Own' = Own /\ tx'[p].was = tx[p].was
    BY <2>2 DEF Covered, OldService, NewService, Own, Continues
  <2>5. QED
    BY <2>1, <2>2, <2>3, <2>4 DEF FilesAsBefore, Files
<1>8. QED
  BY <1>4, <1>5, <1>6, <1>7 DEF Step

\* Kept is inductive on a calm host.
LEMMA KeptStep ==
    ASSUME Calm, Kept, [Next]_vars
    PROVE  Kept'
<1>1. Settled'
  BY SettledStep DEF Kept
<1>2. Bare'
  BY <1>1, ExactStep, BareStep DEF Kept, Settled
<1>3. QED
  BY <1>1, <1>2, ObservedStep, FilesBackStep DEF Kept

-----------------------------------------------------------------------------
(* What holds while the manager's answers are right                        *)

\* What else p knows at its step.
LEMMA OrderlyFacts ==
    ASSUME Orderly, NEW p \in Procs
    PROVE  /\ TypeOK /\ Base /\ Exact /\ Settled /\ Kept
           /\ pc \in [Procs -> Steps] /\ tx \in [Procs -> TxType] /\ disk \in [Items -> Contents]
           /\ service \in ServiceType
           /\ Served /\ Observed(p) /\ FilesBack(p) /\ Remembers(p) /\ tx[p].clean /\ sound
           /\ pc[p] \notin Outside => lock = p
           /\ pc[p] \in Before => /\ pc[p] \notin Outside /\ manifest = tx[p].was
                                  /\ OldService(p) = manifest.service
                                  /\ Covered(p) \subseteq Items
BY KeptFacts DEF Orderly

\* Outside the lock nothing is remembered.
LEMMA OutsideRemembers ==
    ASSUME NEW p \in Procs, pc[p] \in Outside \cup {"decide"}
    PROVE  Remembers(p)
BY DEF Remembers, Down, Enabled, DataBack, Undone, RolledBack, Outside, Before, Underway,
   Restoring, Undoing

\* A step past the lock only has to show its own part.
LEMMA OrderlyAlone ==
    ASSUME Kept, Kept', NEW p \in Procs, pc[p] \notin Outside, NEW s \in Steps,
           pc' = [pc EXCEPT ![p] = s], Served', Remembers(p)'
    PROVE  Orderly'
<1>1. ASSUME NEW q \in Procs, q # p PROVE Remembers(q)'
  <2>1. pc'[q] \in Outside
    BY <1>1, Alone DEF Kept, Settled, Exact, Base, TypeOK
  <2>2. QED
    BY <2>1 DEF Remembers, Down, Enabled, DataBack, Undone, RolledBack, Outside, Before,
       Underway, Restoring, Undoing
<1>2. QED
  BY <1>1 DEF Orderly

(***************************************************************************)
(* A step of p between its admission and its commit: what is left to show. *)
(***************************************************************************)
LEMMA OrderlyGoes ==
    ASSUME Kept, Kept', NEW p \in Procs, pc[p] \in Before,
           NEW s \in Before, pc' = [pc EXCEPT ![p] = s],
           UNCHANGED manifest,
           Running' /\ service'.image # Foreign => service'.image = disk'["binary"],
           ~OldService(p) /\ disk'["unit"] = None => ~service'.enabled /\ ~Up',
           Down(p)', Enabled(p)', DataBack(p)'
    PROVE  Orderly'
<1>1. pc'[p] = s /\ s \in Steps /\ s # "unlock" /\ pc[p] \notin Outside
      /\ OldService(p) = manifest.service
  BY KeptFacts DEF Before, Underway
<1>2. Undone(p)'
  BY <1>1 DEF Undone, RolledBack
<1>3. Served'
  BY <1>1 DEF Served
<1>4. QED
  BY <1>1, <1>2, <1>3, OrderlyAlone DEF Remembers

\* A step of install, repair or remove that leaves the service alone.
LEMMA OrderlyForward ==
    ASSUME Orderly, Kept', NEW p \in Procs, pc[p] \in Before \ Restoring, pc[p] # "stop",
           NEW s \in Before \ Restoring, pc' = [pc EXCEPT ![p] = s],
           UNCHANGED <<lock, req, manifest, service>>, Continues(p),
           disk'["binary"] = disk["binary"] \/ pc[p] \in {"copy", "rmbinary"},
           \/ disk'["unit"] = disk["unit"]
           \/ disk'["unit"] # None
           \/ OldService(p) /\ ~NewService(p),
           pc[p] \in Launched /\ NewService(p) => s \in Launched,
           pc[p] \in Disabled => s \in Disabled,
           s \in Disabled => pc[p] \in Disabled \/ ~OldService(p) \/ NewService(p) \/ ~tx[p].old.enabled
    PROVE  Orderly'
<1>1. /\ pc'[p] = s /\ service \in ServiceType /\ Remembers(p) /\ Kept /\ Served
      /\ OldService(p) = manifest.service
      /\ UNCHANGED <<OldService(p), NewService(p)>>
      /\ tx'[p].old = tx[p].old
  BY OrderlyFacts DEF Before, Underway, Continues, OldService, NewService
<1>2. /\ ~OldService(p) /\ disk["unit"] = None => ~service.enabled /\ ~Up
      /\ Running /\ service.image # Foreign => service.image = disk["binary"]
  BY <1>1 DEF Served
<1>3. Running => Up
  BY DEF Running, Up, Alive
<1>4. Running /\ pc[p] \in {"copy", "rmbinary"} => service.image = Foreign
  BY <1>1, <1>3 DEF Remembers, Down, Launched
<1>5. Down(p)'
  BY <1>1 DEF Remembers, Down, Running, Up, Restoring, Undoing
<1>6. Enabled(p)'
  BY <1>1 DEF Remembers, Enabled, Disabled, Restoring, Undoing, Before, Underway, ServiceType
<1>7. DataBack(p)'
  BY <1>1 DEF DataBack, Restoring
<1>8. ~OldService(p) /\ disk'["unit"] = None => ~service'.enabled /\ ~Up'
  BY <1>2 DEF Up
<1>9. QED
  BY <1>1, <1>2, <1>4, <1>5, <1>6, <1>7, <1>8, OrderlyGoes DEF Running

\* The end of an operation, or of its rollback.
LEMMA OrderlyStops ==
    ASSUME Kept, Kept', NEW p \in Procs, pc[p] \in Before,
           pc' = [pc EXCEPT ![p] = "unlock"], UNCHANGED manifest,
           Running' /\ service'.image # Foreign => service'.image = disk'["binary"],
           ~OldService(p) /\ disk'["unit"] = None => ~service'.enabled /\ ~Up',
           ~OldService(p) /\ Running' => service'.image = Foreign,
           Undone(p)'
    PROVE  Orderly'
<1>1. pc'[p] = "unlock" /\ pc[p] \notin Outside /\ OldService(p) = manifest.service
  BY KeptFacts
<1>2. Served'
  BY <1>1 DEF Served
<1>3. Down(p)' /\ Enabled(p)' /\ DataBack(p)'
  BY <1>1 DEF Down, Enabled, DataBack, Before, Underway, Restoring, Undoing
<1>4. QED
  BY <1>1, <1>2, <1>3, OrderlyAlone DEF Remembers, Steps

\* An operation that fails before it has changed anything.
LEMMA OrderlyFails ==
    ASSUME Orderly, Kept', NEW p \in Procs, pc[p] \in Before,
           pc[p] \in Launched => ~tx[p].mutated, pc[p] # "rbstop",
           Finish(p, "failed"), UNCHANGED <<disk, manifest, service>>
    PROVE  Orderly'
<1>1. /\ TypeOK /\ Base /\ Exact /\ Remembers(p) /\ Served /\ Kept /\ Observed(p)
      /\ OldService(p) = manifest.service
  BY OrderlyFacts
<1>2. pc' = [pc EXCEPT ![p] = "unlock"] /\ tx'[p].outcome = "failed"
  BY <1>1 DEF Finish, Goto, TypeOK, TxType
<1>3. Undone(p)'
  <2>1. ~RolledBack(p)'
    BY <1>2 DEF RolledBack
  <2>2. QED
    BY <2>1 DEF Undone
<1>4. pc[p] \in Launched => ~NewService(p)
  BY <1>1 DEF Exact, Fits, Routed, Verified, NewService, Launched
<1>5. ~OldService(p) /\ Running => service.image = Foreign
  BY <1>1, <1>4 DEF Remembers, Down, Observed, Running, Up, Alive
<1>6. QED
  BY <1>1, <1>2, <1>3, <1>5, OrderlyStops DEF Served, Running, Up

\* The rollback begins.
LEMMA OrderlyRollBack ==
    ASSUME Orderly, Kept', NEW p \in Procs, pc[p] \in Before \ Restoring,
           pc[p] # "stop", RollBack(p),
           UNCHANGED <<lock, req, manifest, service>>,
           disk'["binary"] = disk["binary"],
           disk'["unit"] = disk["unit"] \/ disk'["unit"] # None
    PROVE  Orderly'
<1> DEFINE s == IF NewService(p) THEN "rbstop" ELSE "wipe"
<1>1. /\ TypeOK /\ Remembers(p) /\ Served /\ Continues(p) /\ Kept
      /\ OldService(p) = manifest.service
  BY OrderlyFacts, FailContinues
<1>2. s \in Before /\ s \in Undoing /\ s \in Restoring
  BY DEF Before, Underway, Steps, Undoing, Restoring
<1>3. pc' = [pc EXCEPT ![p] = s] /\ tx'[p].left = Covered(p) /\ pc'[p] = s
  BY <1>1 DEF RollBack, Goto, TypeOK, TxType
<1>4. /\ OldService(p)' = OldService(p) /\ NewService(p)' = NewService(p)
      /\ Covered(p)' = Covered(p) /\ tx'[p].old = tx[p].old
  BY <1>1 DEF Continues, OldService, NewService, Covered
<1>5. Down(p)'
  BY <1>1, <1>2, <1>3, <1>4 DEF Remembers, Down, Running, Up, Restoring, Undoing
<1>6. Enabled(p)'
  BY <1>2, <1>3, <1>4 DEF Enabled
<1>7. DataBack(p)'
  BY <1>2, <1>3, <1>4 DEF DataBack
<1> HIDE DEF s
<1>8. service.image # Foreign /\ Running => service.image = disk'["binary"]
  BY <1>1 DEF Served
<1>9. QED
  BY <1>1, <1>2, <1>3, <1>5, <1>6, <1>7, <1>8, OrderlyGoes DEF Served, Running, Up

\* An error of a call that left the binary alone.
LEMMA OrderlyFail ==
    ASSUME Orderly, Kept', NEW p \in Procs, pc[p] \in Before \ Restoring,
           pc[p] # "stop", Fail(p), UNCHANGED <<lock, req, manifest, service>>,
           disk'["binary"] = disk["binary"],
           tx[p].mutated \/ UNCHANGED disk,
           disk'["unit"] = disk["unit"] \/ disk'["unit"] # None
    PROVE  Orderly'
<1>1. CASE tx[p].mutated
  BY <1>1, OrderlyRollBack DEF Fail
<1>2. CASE ~tx[p].mutated
  BY <1>2, OrderlyFails DEF Fail, Restoring, Undoing
<1>3. QED
  BY <1>1, <1>2

\* Outside an operation, and where it is refused.
LEMMA OrderlyOutside ==
    ASSUME Orderly, Kept', NEW p \in Procs,
           Begin(p) \/ Acquire(p) \/ TurnedAway(p) \/ Unlock(p) \/ Refuse(p)
    PROVE  Orderly'
<1>1. TypeOK /\ tx \in [Procs -> TxType]
  BY OrderlyFacts
<1>2. PICK s \in {"idle", "lock", "decide", "unlock"} :
         pc[p] \in {"idle", "lock", "decide", "unlock"} /\ pc' = [pc EXCEPT ![p] = s]
  BY DEF Begin, Acquire, TurnedAway, Unlock, Refuse, Finish, Goto
<1>3. UNCHANGED host
  BY DEF Begin, Acquire, TurnedAway, Unlock, Refuse
<1>4. \A q \in Procs \ {p} : /\ pc'[q] = pc[q] /\ tx'[q] = tx[q]
                             /\ req'[q] = req[q]
  BY <1>1 DEF Begin, Acquire, TurnedAway, Unlock, Refuse, Finish, Goto, TypeOK
<1>5. \A q \in Procs : pc'[q] \in Before <=> pc[q] \in Before
  BY <1>1, <1>2 DEF TypeOK, Before, Underway
<1>6. Served'
  BY <1>3, <1>5 DEF Orderly, Served, Running, Up, host
<1>7. ASSUME NEW q \in Procs, q # p PROVE Remembers(q)'
  <2>1. Remembers(q) /\ pc'[q] = pc[q] /\ tx'[q] = tx[q] /\ req'[q] = req[q]
    BY <1>4, <1>7 DEF Orderly
  <2>2. /\ OldService(q)' = OldService(q) /\ NewService(q)' = NewService(q)
        /\ Covered(q)' = Covered(q) /\ Own' = Own
    BY <1>3, <2>1 DEF OldService, NewService, Covered, Own, host
  <2>3. Down(q)' /\ Enabled(q)' /\ DataBack(q)'
    BY <1>3, <2>1, <2>2 DEF Remembers, Down, Enabled, DataBack, Running, Up, host
  <2>4. Undone(q)'
    BY <1>3, <2>1, <2>2 DEF Remembers, Undone, RolledBack, HostAsBefore, ServiceAsBefore, host
  <2>5. QED
    BY <2>3, <2>4 DEF Remembers
<1>8. Remembers(p)'
  <2>1. pc'[p] = s /\ (s = "unlock" => tx'[p].outcome = "refused")
    BY <1>1, <1>2 DEF TypeOK, TxType, Begin, Acquire, TurnedAway, Unlock, Refuse, Finish, Goto
  <2>2. ~RolledBack(p)'
    BY <2>1 DEF RolledBack
  <2>3. QED
    BY <2>1, <2>2 DEF Remembers, Down, Enabled, DataBack, Undone, Before, Underway,
       Restoring, Undoing
<1>9. QED
  BY <1>6, <1>7, <1>8 DEF Orderly

\* The admission sees the old service as it is, running or down.
LEMMA OrderlyAdmit ==
    ASSUME Kept, Kept', ~misread => Orderly, NEW p \in Procs, Admit(p), ~misread'
    PROVE  Orderly'
<1>1. /\ pc[p] = "decide" /\ tx \in [Procs -> TxType] /\ TypeOK /\ service \in ServiceType
      /\ pc[p] \notin Outside /\ UNCHANGED <<disk, manifest, service>>
  BY KeptFacts, AdmitFacts DEF Outside
<1>2. PICK old \in Observations :
         /\ old \in IF manifest.service THEN Seen ELSE {NotObserved}
         /\ tx' = [tx EXCEPT ![p].src = SourceHash(req[p]),
                             ![p].was = manifest,
                             ![p].old = old]
         /\ pc' = [pc EXCEPT ![p] = IF old.running THEN "stop" ELSE "snapshot"]
         /\ misread' = IF ~manifest.service THEN misread
                       ELSE IF Right(old, service) THEN misread /\ old.running
                       ELSE TRUE
  BY <1>1, AdmitFacts
<1>3. /\ ~manifest.service => ~misread
      /\ manifest.service => Right(old, service) /\ (misread => ~old.running)
  BY <1>2
<1> DEFINE s == IF old.running THEN "stop" ELSE "snapshot"
<1>4. /\ tx'[p].was = manifest /\ tx'[p].old = old
      /\ pc' = [pc EXCEPT ![p] = s] /\ pc'[p] = s
  BY <1>1, <1>2 DEF TxType, TypeOK
<1>5. s \in {"stop", "snapshot"} /\ (~old.running => s = "snapshot")
      /\ (old.running => s = "stop")
  OBVIOUS
<1>6. s \in Steps /\ s \in Before /\ s \notin Restoring \cup Undoing \cup Disabled \cup {"unlock"}
  BY <1>5 DEF Steps, Before, Underway, Restoring, Undoing, Disabled
<1> HIDE DEF s
<1>7. OldService(p)' = manifest.service
  BY <1>4 DEF OldService
<1>8. \A q \in Procs : pc[q] \notin Before
  BY <1>1, NobodyElse DEF Before, Underway
<1>9. manifest.service => /\ old.running <=> Up
                          /\ old.enabled <=> service.enabled
  BY <1>3 DEF Right, Up
<1>10. misread => ~Up /\ manifest.service
  BY <1>3, <1>9
<1>11. ~misread => Served
  BY DEF Orderly
<1>12. Served'
  <2>1. pc'[p] \in Before
    BY <1>4, <1>6
  <2>2. Running => Up
    BY DEF Running, Up, Alive
  <2>3. /\ Running /\ service.image # Foreign => service.image = disk["binary"]
        /\ ~manifest.service /\ disk["unit"] = None => ~service.enabled /\ ~Up
    BY <1>10, <1>11, <2>2 DEF Served
  <2>4. QED
    BY <1>1, <2>1, <2>3 DEF Served, Running, Up
<1>13. Down(p)'
  <2>1. CASE manifest.service
    BY <1>1, <1>4, <1>5, <1>9, <2>1 DEF Down, Up
  <2>2. CASE ~manifest.service
    <3>1. Running => service.image = Foreign
      BY <1>3, <1>8, <1>11, <2>2 DEF Served
    <3>2. QED
      BY <1>1, <1>4, <1>6, <1>7, <2>2, <3>1 DEF Down, Running
  <2>3. QED
    BY <2>1, <2>2
<1>14. Enabled(p)'
  <2>1. /\ pc'[p] \notin Disabled \cup {"resume", "wipe", "refill", "reload", "reenable"}
    BY <1>4, <1>6 DEF Restoring, Undoing
  <2>2. manifest.service => (service.enabled <=> old.enabled)
    BY <1>9
  <2>3. service.enabled \in BOOLEAN /\ old.enabled \in BOOLEAN
    BY <1>1 DEF ServiceType, Observations
  <2>4. manifest.service => service.enabled = old.enabled
    BY <2>2, <2>3
  <2>5. QED
    BY <1>1, <1>4, <1>7, <2>1, <2>3, <2>4 DEF Enabled
<1>15. DataBack(p)' /\ Undone(p)'
  BY <1>4, <1>6 DEF DataBack, Undone, RolledBack, Restoring
<1>16. QED
  BY <1>1, <1>4, <1>6, <1>12, <1>13, <1>14, <1>15, OrderlyAlone DEF Remembers

\* Once the old service is stopped it is down, whatever was seen of it.
LEMMA OrderlyStop ==
    ASSUME Kept, Kept', ~misread => Orderly, NEW p \in Procs, StopOld(p), ~misread'
    PROVE  Orderly'
<1>1. /\ pc[p] = "stop" /\ pc' = [pc EXCEPT ![p] = "snapshot"] /\ service' = Stopped(service)
      /\ UNCHANGED <<lock, req, tx, disk, manifest>>
  BY DEF StopOld, Goto
<1>2. misread => (tx[p].old.enabled <=> service.enabled)
  BY DEF StopOld
<1>3. /\ pc[p] \in Before /\ pc[p] \notin Restoring \cup Disabled
      /\ "snapshot" \in Before /\ "snapshot" \notin Restoring \cup Undoing \cup Disabled
  BY <1>1 DEF Before, Underway, Steps, Restoring, Undoing, Disabled
<1>4. /\ TypeOK /\ tx \in [Procs -> TxType] /\ service \in ServiceType /\ OldService(p)
      /\ pc \in [Procs -> Steps]
  BY <1>1, <1>3, KeptFacts DEF Observed
<1>5. /\ pc'[p] = "snapshot"
      /\ OldService(p)' = OldService(p) /\ NewService(p)' = NewService(p)
  BY <1>1, <1>4 DEF OldService, NewService
<1>6. /\ service'.state = "inactive" /\ service'.enabled = service.enabled /\ ~Running' /\ ~Up'
  BY <1>1, <1>4 DEF Stopped, ServiceType, Running, Up, Alive
<1>7. Down(p)' /\ DataBack(p)'
  BY <1>3, <1>5, <1>6 DEF Down, DataBack
<1>8. ~NewService(p) => service.enabled = tx[p].old.enabled
  <2>1. service.enabled \in BOOLEAN /\ tx[p].old.enabled \in BOOLEAN
    BY <1>4 DEF ServiceType, TxType, Observations
  <2>2. CASE misread
    BY <1>2, <2>1, <2>2
  <2>3. CASE ~misread
    BY <1>1, <1>3, <1>4, <2>1, <2>3, OrderlyFacts DEF Remembers, Enabled
  <2>4. QED
    BY <2>2, <2>3
<1>9. tx[p].old.enabled \in BOOLEAN
  BY <1>4 DEF TxType, Observations
<1>10. Enabled(p)'
  <2>1. ~NewService(p) => service'.enabled = tx'[p].old.enabled
    BY <1>1, <1>6, <1>8
  <2>2. pc'[p] \notin Disabled \cup {"resume", "wipe", "refill", "reload", "reenable"}
    BY <1>3, <1>5 DEF Restoring, Undoing
  <2>3. tx'[p].old.enabled \in BOOLEAN
    BY <1>1, <1>9
  <2>4. QED
    BY <1>5, <2>1, <2>2, <2>3 DEF Enabled
<1>11. QED
  BY <1>1, <1>3, <1>4, <1>6, <1>7, <1>10, OrderlyGoes

\* Where a snapshot that failed leads.
LEMMA OrderlyNoSnapshot ==
    ASSUME Orderly, Kept', NEW p \in Procs, pc[p] \in {"snapshot", "archive"},
           AfterFailedSnapshot(p), UNCHANGED <<lock, req, disk, manifest, service>>
    PROVE  Orderly'
<1>1. pc[p] \in Before \ Restoring /\ pc[p] \notin Launched \cup Disabled
  BY DEF Before, Underway, Steps, Restoring, Undoing, Launched, Disabled
<1>2. CASE tx[p].old.running
  <2>1. pc' = [pc EXCEPT ![p] = "restart"] /\ UNCHANGED tx
    BY <1>2 DEF AfterFailedSnapshot, Goto
  <2>2. "restart" \in Before \ Restoring /\ "restart" \notin Disabled /\ Continues(p)
    BY <2>1 DEF Before, Underway, Steps, Restoring, Undoing, Disabled, Continues
  <2>3. QED
    BY <1>1, <2>1, <2>2, OrderlyForward
<1>3. CASE ~tx[p].old.running
  BY <1>1, <1>3, OrderlyFails DEF AfterFailedSnapshot
<1>4. QED
  BY <1>2, <1>3

\* The snapshot, and what its failure leads to.
LEMMA OrderlyPrepare ==
    ASSUME Orderly, Kept', NEW p \in Procs, Prepare(p), ~StopOld(p)
    PROVE  Orderly'
<1>1. /\ TypeOK /\ tx \in [Procs -> TxType] /\ Served /\ Remembers(p) /\ Base /\ Kept
      /\ service \in ServiceType /\ Observed(p)
  BY OrderlyFacts
<1>2. /\ UNCHANGED <<lock, req>> /\ Continues(p)
  BY <1>1, Proceeds
<1>3. CASE StopOldFails(p)
  <2>1. /\ pc[p] = "stop" /\ Finish(p, "failed") /\ UNCHANGED <<disk, manifest, service>>
    BY <1>3 DEF StopOldFails, MayFail, host
  <2>2. QED
    BY <2>1, OrderlyFails DEF Before, Underway, Steps, Launched
<1>4. CASE OpenSnapshot(p)
  <2>1. /\ pc[p] = "snapshot" /\ pc' = [pc EXCEPT ![p] = "archive"]
        /\ UNCHANGED <<disk, manifest, service>>
    BY <1>4 DEF OpenSnapshot, Goto
  <2>2. pc[p] \in Before \ Restoring /\ "archive" \in Before \ Restoring
    BY <2>1 DEF Before, Underway, Steps, Restoring, Undoing
  <2>3. QED
    BY <1>2, <2>1, <2>2, OrderlyForward DEF Disabled, Launched
<1>5. CASE FillSnapshot(p)
  <2>1. /\ pc[p] = "archive" /\ pc' = [pc EXCEPT ![p] = AfterSnapshot(p)]
        /\ UNCHANGED <<disk, manifest, service>>
    BY <1>5 DEF FillSnapshot, Goto
  <2>2. /\ pc[p] \in Before \ Restoring
        /\ AfterSnapshot(p) \in {"hook", "copy", "disable", "undefine", "rmbinary"}
        /\ AfterSnapshot(p) \in {"undefine", "rmbinary"} => ~tx[p].old.enabled
    BY <2>1 DEF Before, Underway, Steps, Restoring, Undoing, AfterSnapshot
  <2>3. AfterSnapshot(p) \in Before \ Restoring
    BY <2>2 DEF Before, Underway, Steps, Restoring, Undoing
  <2>4. QED
    BY <1>2, <2>1, <2>2, <2>3, OrderlyForward DEF Disabled, Launched
<1>6. CASE OpenSnapshotFails(p) \/ FillSnapshotFails(p)
  BY <1>6, OrderlyNoSnapshot DEF OpenSnapshotFails, FillSnapshotFails, MayFail, host
<1>7. CASE RestartOld(p)
  <2>1. /\ pc[p] = "restart" /\ pc[p] \in Before /\ UNCHANGED <<disk, manifest>>
    BY <1>7 DEF RestartOld, Before, Underway, Steps
  <2>2. OldService(p) /\ ~Up
    BY <1>1, <2>1 DEF Remembers, Observed, Down, Launched
  <2>3. /\ pc' = [pc EXCEPT ![p] = "unlock"] /\ tx'[p].outcome # "rolledback"
        /\ service' = service \/ service' = Started(service, disk["binary"])
    BY <1>1, <1>7 DEF RestartOld, Finish, Goto, TxType
  <2>4. Running' => service'.image = disk["binary"]
    BY <1>1, <2>2, <2>3 DEF Started, Running, Up, Alive, ServiceType
  <2>5. Undone(p)'
    BY <2>3 DEF Undone, RolledBack
  <2>6. QED
    BY <1>1, <2>1, <2>2, <2>3, <2>4, <2>5, OrderlyStops
<1>8. QED
  BY <1>3, <1>4, <1>5, <1>6, <1>7 DEF Prepare

\* The changes to the files, and the reads between them.
LEMMA OrderlyFiles ==
    ASSUME Orderly, Kept', NEW p \in Procs,
           \/ Hook(p) \/ Copy(p) \/ Verify(p) \/ Define(p) \/ Load(p) \/ Healthy(p)
           \/ Undefine(p) \/ Unload(p) \/ RemoveBinary(p)
    PROVE  Orderly'
<1>1. /\ TypeOK /\ tx \in [Procs -> TxType] /\ Base /\ disk \in [Items -> Contents] /\ Exact
  BY OrderlyFacts
<1>2. UNCHANGED <<lock, req>> /\ Continues(p)
  BY <1>1, Proceeds DEF Mutate
<1>3. Routed(p)
  BY <1>1 DEF Exact, Fits
<1>4. CASE Hook(p) \/ Copy(p) \/ Load(p) \/ Healthy(p) \/ RemoveBinary(p)
  <2>1. PICK s \in {"copy", "verify", "autostart", "start", "commit", "rmmanifest"} :
           pc' = [pc EXCEPT ![p] = s]
    BY <1>4 DEF Hook, Copy, Load, Healthy, RemoveBinary, Goto
  <2>2. /\ pc[p] \in {"hook", "copy", "load", "health", "rmbinary"}
        /\ pc[p] = "health" => s = "commit"
        /\ pc[p] = "rmbinary" => s = "rmmanifest"
        /\ pc[p] = "load" => s \in {"autostart", "start"}
        /\ pc[p] \notin {"health", "rmbinary"} => s \notin {"commit", "rmmanifest"}
    BY <1>1, <1>4, <2>1 DEF Hook, Copy, Load, Healthy, RemoveBinary, Goto, TypeOK
  <2>3. /\ UNCHANGED <<manifest, service>> /\ disk'["unit"] = disk["unit"]
        /\ disk'["binary"] = disk["binary"] \/ pc[p] \in {"copy", "rmbinary"}
    BY <1>1, <1>4 DEF Hook, Copy, Load, Healthy, RemoveBinary, Items, host
  <2>4. pc[p] \in Before \ Restoring /\ s \in Before \ Restoring
    BY <2>2 DEF Before, Underway, Steps, Restoring, Undoing
  <2>5. /\ pc[p] \in Disabled => s \in Disabled
        /\ s \in Disabled => pc[p] \in Disabled
        /\ pc[p] \in Launched => s \in Launched
    BY <2>2 DEF Disabled, Launched
  <2>6. pc[p] # "stop"
    BY <2>2
  <2>7. QED
    BY <1>2, <2>1, <2>2, <2>3, <2>4, <2>5, <2>6, OrderlyForward
<1>5. CASE Verify(p) /\ HashesAgree(p)
  <2>1. pc[p] = "verify" /\ pc' = [pc EXCEPT ![p] = AfterVerify(p)] /\ UNCHANGED host
    BY <1>5 DEF Verify, Goto
  <2>2. /\ AfterVerify(p) \in {"disable", "undefine", "define", "health"}
        /\ AfterVerify(p) = "undefine" => ~tx[p].old.enabled
        /\ AfterVerify(p) = "health" => ~OldService(p)
    BY DEF AfterVerify, WithNewService
  <2>3. pc[p] \in Before \ Restoring /\ AfterVerify(p) \in Before \ Restoring
    BY <2>1, <2>2 DEF Before, Underway, Steps, Restoring, Undoing
  <2>4. QED
    BY <1>2, <2>1, <2>2, <2>3, OrderlyForward DEF Disabled, Launched, host
<1>6. CASE Verify(p) /\ ~HashesAgree(p)
  <2>1. pc[p] = "verify" /\ Fail(p) /\ UNCHANGED host
    BY <1>6 DEF Verify
  <2>2. pc[p] \in Before \ Restoring
    BY <2>1 DEF Before, Underway, Steps, Restoring, Undoing
  <2>3. QED
    BY <1>2, <2>1, <2>2, OrderlyFail DEF host
<1>7. CASE Define(p)
  <2>1. /\ pc[p] = "define" /\ pc' = [pc EXCEPT ![p] = "load"] /\ UNCHANGED <<manifest, service>>
        /\ disk'["unit"] = req[p].build /\ disk'["binary"] = disk["binary"]
    BY <1>1, <1>7 DEF Define, Goto, Items
  <2>2. req[p].build # None
    BY <1>1, <2>1, RequestFacts, ConstantFacts DEF RequestType
  <2>3. pc[p] \in Before \ Restoring /\ "load" \in Before \ Restoring
    BY <2>1 DEF Before, Underway, Steps, Restoring, Undoing
  <2>4. QED
    BY <1>2, <2>1, <2>2, <2>3, OrderlyForward DEF Disabled, Launched
<1>8. CASE Undefine(p) \/ Unload(p)
  <2>1. PICK s \in {"unload", "rmbinary", "health"} :
           pc[p] \in {"undefine", "unload"} /\ pc' = [pc EXCEPT ![p] = s]
    BY <1>3, <1>8 DEF Undefine, Unload, WithNewService, Goto, Routed
  <2>2. OldService(p) /\ ~NewService(p)
    BY <1>3, <2>1 DEF Routed
  <2>3. UNCHANGED <<manifest, service>> /\ disk'["binary"] = disk["binary"]
    BY <1>1, <1>8 DEF Undefine, Unload, Items, host
  <2>4. pc[p] \in Before \ Restoring /\ s \in Before \ Restoring
    BY <2>1 DEF Before, Underway, Steps, Restoring, Undoing
  <2>5. QED
    BY <1>2, <2>1, <2>2, <2>3, <2>4, OrderlyForward DEF Disabled, Launched
<1>9. QED
  BY <1>4, <1>5, <1>6, <1>7, <1>8

\* The errors of the changes.
LEMMA OrderlyErrors ==
    ASSUME Orderly, Kept', NEW p \in Procs,
           HookFails(p) \/ DefineFails(p) \/ StartFails(p) \/ UndefineFails(p) \/ CallFails(p)
    PROVE  Orderly'
<1>1. /\ TypeOK /\ Base /\ disk \in [Items -> Contents] /\ Exact
  BY OrderlyFacts
<1>2. UNCHANGED <<lock, req>>
  BY <1>1, Proceeds DEF Mutate
<1>3. CASE HookFails(p) \/ UndefineFails(p)
  <2>1. /\ pc[p] \in {"hook", "undefine"} /\ RollBack(p) /\ UNCHANGED <<manifest, service>>
        /\ disk'["binary"] = disk["binary"] /\ disk'["unit"] = disk["unit"]
    BY <1>1, <1>3 DEF HookFails, UndefineFails, MayFail, Items, host
  <2>2. pc[p] \in Before \ Restoring
    BY <2>1 DEF Before, Underway, Steps, Restoring, Undoing
  <2>3. QED
    BY <1>2, <2>1, <2>2, OrderlyRollBack
<1>4. CASE DefineFails(p)
  <2>1. /\ pc[p] = "define" /\ Fail(p) /\ UNCHANGED <<manifest, service>>
        /\ disk'["binary"] = disk["binary"] /\ disk'["unit"] \in {disk["unit"], req[p].build}
    BY <1>1, <1>4 DEF DefineFails, MayFail, Items
  <2>2. req[p].build # None /\ tx[p].mutated
    BY <1>1, <2>1, RequestFacts, ConstantFacts
    DEF RequestType, Exact, Fits, Routed, Verified, NewService
  <2>3. pc[p] \in Before \ Restoring
    BY <2>1 DEF Before, Underway, Steps, Restoring, Undoing
  <2>4. QED
    BY <1>2, <2>1, <2>2, <2>3, OrderlyFail
<1>5. CASE StartFails(p) \/ CallFails(p)
  <2>1. /\ pc[p] \in PlainCalls \cup {"start"} /\ Fail(p) /\ UNCHANGED host
    BY <1>5 DEF StartFails, CallFails, MayFail
  <2>2. pc[p] \in Before \ Restoring /\ pc[p] # "stop"
    BY <2>1 DEF Before, Underway, Steps, Restoring, Undoing, PlainCalls
  <2>3. QED
    BY <1>2, <2>1, <2>2, OrderlyFail DEF host
<1>6. QED
  BY <1>3, <1>4, <1>5

\* The steps that enable, start or disable the service.
LEMMA OrderlyService ==
    ASSUME Orderly, Kept', NEW p \in Procs,
           SetAutostart(p) \/ Start(p) \/ Disable(p)
    PROVE  Orderly'
<1>1. /\ TypeOK /\ Base /\ Exact /\ Served /\ Remembers(p) /\ service \in ServiceType /\ Kept
      /\ OldService(p) = manifest.service \/ pc[p] \notin Before
  BY OrderlyFacts
<1>2. /\ UNCHANGED <<lock, req>> /\ Continues(p)
      /\ OldService(p)' = OldService(p) /\ NewService(p)' = NewService(p)
      /\ tx'[p].old = tx[p].old
  BY <1>1, Proceeds DEF Mutate, Continues, OldService, NewService
<1>3. Routed(p) /\ Reached(p)
  BY <1>1 DEF Exact, Fits
<1>4. CASE SetAutostart(p) \/ Start(p)
  <2>1. PICK s \in {"start", "health"} :
           /\ pc[p] \in {"autostart", "start"} /\ pc' = [pc EXCEPT ![p] = s] /\ pc'[p] = s
           /\ UNCHANGED <<disk, manifest>>
    BY <1>1, <1>4 DEF SetAutostart, Start, Goto, TypeOK
  <2>2. /\ pc[p] \in Before \ Restoring /\ s \in Before \ Restoring /\ s \in Launched
        /\ s \notin {"resume", "wipe", "refill", "reload", "reenable"}
    BY <2>1 DEF Before, Underway, Steps, Restoring, Undoing, Launched
  <2>3. NewService(p) /\ disk["unit"] # None
    <3>1. req[p].build # None
      BY <1>1, <2>1, RequestFacts, ConstantFacts DEF RequestType
    <3>2. QED
      BY <1>3, <2>1, <3>1 DEF Routed, Reached
  <2>4. \/ service'.state = service.state /\ service'.image = service.image
        \/ service'.state = "active" /\ service'.image = disk["binary"]
    BY <1>1, <1>4 DEF SetAutostart, Start, Autostart, Started, ServiceType
  <2>5. Running' /\ service'.image # Foreign => service'.image = disk["binary"]
    BY <1>1, <2>4 DEF Served, Running
  <2>6. Enabled(p)' /\ DataBack(p)'
    BY <1>2, <2>1, <2>2, <2>3 DEF Enabled, DataBack, Restoring
  <2>7. Down(p)'
    BY <1>2, <2>1, <2>2, <2>3 DEF Down
  <2>8. QED
    BY <1>1, <2>1, <2>2, <2>3, <2>5, <2>6, <2>7, OrderlyGoes
<1>5. CASE Disable(p)
  <2>1. /\ pc[p] = "disable" /\ pc' = [pc EXCEPT ![p] = "undefine"] /\ pc'[p] = "undefine"
        /\ service' = Autostart(service, FALSE) /\ UNCHANGED <<disk, manifest>>
    BY <1>1, <1>5 DEF Disable, Goto, TypeOK
  <2>2. pc[p] \in Before \ Restoring /\ "undefine" \in Before \ Restoring
    BY <2>1 DEF Before, Underway, Steps, Restoring, Undoing
  <2>3. OldService(p) /\ ~NewService(p)
    BY <1>3, <2>1 DEF Routed
  <2>4. ~Up
    BY <1>1, <2>1, <2>2, <2>3 DEF Remembers, Down, Launched
  <2>5. service'.state = service.state /\ service'.enabled = FALSE
    BY <1>1, <2>1 DEF Autostart, ServiceType
  <2>6. ~Up' /\ ~Running'
    BY <2>4, <2>5 DEF Up, Alive, Running
  <2>7. Down(p)' /\ DataBack(p)'
    BY <2>1, <2>6 DEF Down, DataBack, Restoring, Undoing
  <2>8. Enabled(p)'
    BY <1>2, <2>1, <2>3, <2>5 DEF Enabled, Disabled
  <2>9. QED
    BY <1>1, <2>1, <2>2, <2>3, <2>6, <2>7, <2>8, OrderlyGoes
<1>6. QED
  BY <1>4, <1>5

\* After the commit nothing is remembered but the outcome.
LEMMA OrderlyEnds ==
    ASSUME Orderly, Kept', NEW p \in Procs, pc[p] \notin Outside,
           NEW s \in {"retain", "unlock"}, pc' = [pc EXCEPT ![p] = s],
           s = "unlock" => tx'[p].outcome # "rolledback", Served'
    PROVE  Orderly'
<1>1. pc'[p] = s /\ s \in Steps /\ Kept
  BY OrderlyFacts DEF Steps
<1>2. Remembers(p)'
  BY <1>1 DEF Remembers, Down, Enabled, DataBack, Undone, RolledBack, Before, Underway,
     Restoring, Undoing
<1>3. QED
  BY <1>1, <1>2, OrderlyAlone

\* The commit accounts for the service.
LEMMA OrderlyCommit ==
    ASSUME Orderly, Kept', NEW p \in Procs,
           Commit(p) \/ RemoveManifest(p) \/ Retain(p) \/ RetainFails(p)
    PROVE  Orderly'
<1>1. /\ TypeOK /\ tx \in [Procs -> TxType] /\ pc \in [Procs -> Steps]
      /\ Base /\ Exact /\ Served /\ Remembers(p) /\ service \in ServiceType
  BY OrderlyFacts
<1>2. UNCHANGED <<disk, service>>
  BY DEF Commit, RemoveManifest, Retain, RetainFails
<1>3. CASE Commit(p) \/ RemoveManifest(p)
  <2>1. /\ pc[p] \in {"commit", "rmmanifest"} /\ pc[p] \in Before
        /\ pc' = [pc EXCEPT ![p] = "retain"] /\ UNCHANGED req
    BY <1>3 DEF Commit, RemoveManifest, Goto, Before, Underway, Steps
  <2>2. NewService(p) \in BOOLEAN
    BY <1>1, <2>1, RequestFacts DEF NewService, RequestType
  <2>3. manifest'.service = NewService(p) /\ (pc[p] = "rmmanifest" => ~NewService(p))
    <3>1. CASE Commit(p)
      BY <3>1 DEF Commit, NewManifest
    <3>2. CASE RemoveManifest(p)
      <4>1. ~NewService(p)
        BY <1>1, <3>2 DEF RemoveManifest, NewService, Exact, Fits, Routed
      <4>2. manifest'.service = FALSE
        BY <3>2 DEF RemoveManifest, NotInstalled
      <4>3. QED
        BY <2>2, <4>1, <4>2
    <3>3. QED
      BY <1>3, <3>1, <3>2
  <2>4. OldService(p) = manifest.service
    BY <2>1, OrderlyFacts
  <2>5. /\ Up => NewService(p) \/ ~OldService(p)
        /\ Running => NewService(p) \/ service.image = Foreign
    BY <1>1, <2>1, <2>3 DEF Remembers, Down, Running, Up, Alive
  <2>6. OldService(p) /\ ~NewService(p) => ~service.enabled
    BY <1>1, <2>1 DEF Remembers, Enabled, Disabled, Restoring, Undoing
  <2>7. ~NewService(p) /\ disk["unit"] = None => ~service.enabled /\ ~Up
    BY <1>1, <2>4, <2>5, <2>6 DEF Served
  <2>8. ~NewService(p) /\ Running => service.image = Foreign
    BY <2>5
  <2>9. Served'
    BY <1>1, <1>2, <2>3, <2>7, <2>8 DEF Served, Running, Up
  <2>10. QED
    BY <2>1, <2>9, OrderlyEnds DEF Before, Underway, Outside
<1>4. CASE Retain(p) \/ RetainFails(p)
  <2>1. /\ pc[p] = "retain" /\ pc' = [pc EXCEPT ![p] = "unlock"]
        /\ tx'[p].outcome # "rolledback" /\ UNCHANGED manifest
    BY <1>1, <1>4 DEF Retain, RetainFails, MayFail, Finish, Goto, TxType
  <2>2. \A q \in Procs : pc'[q] \in Before <=> pc[q] \in Before
    BY <1>1, <2>1 DEF Before, Underway
  <2>3. Served'
    BY <1>1, <1>2, <2>1, <2>2 DEF Served, Running, Up
  <2>4. QED
    BY <2>1, <2>3, OrderlyEnds DEF Outside
<1>5. QED
  BY <1>3, <1>4

\* The rollback stops and disables the new service it sees.
LEMMA OrderlyTakesDown ==
    ASSUME Quiet, Orderly, Kept', NEW p \in Procs,
           RbStop(p) \/ RbInspectFails(p) \/ RbDisable(p), ~misread'
    PROVE  Orderly'
<1>1. /\ TypeOK /\ tx \in [Procs -> TxType] /\ pc \in [Procs -> Steps] /\ Served /\ Kept
      /\ Remembers(p) /\ service \in ServiceType /\ Observed(p)
  BY OrderlyFacts
<1>2. /\ UNCHANGED <<lock, req>> /\ Continues(p)
      /\ OldService(p)' = OldService(p) /\ NewService(p)' = NewService(p)
      /\ Covered(p)' = Covered(p)
  BY OrderlyFacts, Proceeds DEF UndoStep, Continues, OldService, NewService, Covered
<1>3. "rollback" \notin Events
  BY DEF Quiet
<1>4. PICK s \in {"rbdisable", "wipe"} :
         /\ pc[p] \in {"rbstop", "rbdisable"} /\ pc' = [pc EXCEPT ![p] = s] /\ pc'[p] = s
         /\ pc[p] = "rbdisable" => s = "wipe"
         /\ UNCHANGED <<disk, manifest>> /\ tx'[p].left = tx[p].left
  <2>1. CASE RbStop(p)
    <3>1. PICK view \in Seen, ok \in BOOLEAN :
             /\ tx' = [tx EXCEPT ![p].clean = tx[p].clean /\ ok]
             /\ Goto(p, IF view.enabled THEN "rbdisable" ELSE "wipe")
      BY <2>1 DEF RbStop
    <3>2. pc[p] = "rbstop" /\ UNCHANGED <<disk, manifest>>
      BY <2>1 DEF RbStop
    <3>3. tx'[p].left = tx[p].left
      BY <1>1, <3>1 DEF TxType
    <3>4. QED
      BY <1>1, <3>1, <3>2, <3>3 DEF Goto
  <2>2. CASE RbDisable(p)
    BY <1>1, <1>3, <2>2 DEF RbDisable, Goto
  <2>3. QED
    BY <1>3, <2>1, <2>2 DEF RbInspectFails, RollbackMayFail
<1>5. /\ pc[p] \in Before /\ s \in Before /\ s \in Undoing /\ s \in Restoring
      /\ pc[p] = "rbdisable" => pc[p] \in Restoring /\ pc[p] \notin Launched
      /\ OldService(p) = manifest.service
  BY <1>4, OrderlyFacts DEF Before, Underway, Steps, Restoring, Undoing, Launched
<1>6. NewService(p) /\ tx[p].left = Covered(p)
  BY <1>1, <1>4, <1>5 DEF Observed
<1>7. ~Up' /\ (s = "wipe" => ~service'.enabled) /\ (~service.enabled => ~service'.enabled)
  <2>1. CASE pc[p] = "rbdisable"
    <3>1. ~Up
      BY <1>1, <1>5, <1>6, <2>1 DEF Remembers, Down
    <3>2. service' = Autostart(service, FALSE)
      BY <1>3, <2>1 DEF RbStop, RbInspectFails, RbDisable, RollbackMayFail
    <3>3. service'.state = service.state /\ service'.enabled = FALSE
      BY <1>1, <3>2 DEF Autostart, ServiceType
    <3>4. QED
      BY <3>1, <3>3 DEF Up, Alive
  <2>2. CASE pc[p] = "rbstop"
    <3>1. PICK view \in Seen, ok \in BOOLEAN :
             /\ ok \/ (view.running /\ "rollback" \in Events)
             /\ service' = IF ok /\ StopInRollback(view) THEN Stopped(service) ELSE service
             /\ Goto(p, IF view.enabled THEN "rbdisable" ELSE "wipe")
             /\ misread' = (misread \/ ~Right(view, service))
      BY <1>3, <2>2 DEF RbStop, RbInspectFails, RbDisable, RollbackMayFail
    <3>2. Right(view, service) /\ ok
      BY <1>3, <3>1
    <3>3. service' = IF view.running THEN Stopped(service) ELSE service
      BY <3>1, <3>2 DEF StopInRollback
    <3>4. s = "wipe" => ~view.enabled
      BY <1>1, <1>4, <3>1 DEF Goto
    <3>5. /\ view.running <=> Up
          /\ view.enabled <=> service.enabled
      BY <3>2 DEF Right, Up
    <3>6. /\ Stopped(service).state = "inactive"
          /\ Stopped(service).enabled = service.enabled
      BY <1>1 DEF Stopped, ServiceType
    <3>7. QED
      BY <3>3, <3>4, <3>5, <3>6 DEF Up, Alive
  <2>3. QED
    BY <1>4, <2>1, <2>2
<1>8. ~OldService(p) /\ disk'["unit"] = None => ~service'.enabled
  BY <1>1, <1>4, <1>5, <1>7 DEF Served
<1>9. ~Running'
  BY <1>7 DEF Running, Up, Alive
<1>10. Down(p)' /\ DataBack(p)'
  BY <1>2, <1>4, <1>5, <1>6, <1>7 DEF Down, DataBack
<1>11. Enabled(p)'
  BY <1>4, <1>5, <1>7 DEF Enabled
<1>12. QED
  BY <1>1, <1>4, <1>5, <1>7, <1>8, <1>9, <1>10, <1>11, OrderlyGoes

(***************************************************************************)
(* A rollback that ends here without an error has undone the transaction.  *)
(***************************************************************************)
LEMMA OrderlyCloses ==
    ASSUME Orderly, Kept', NEW p \in Procs, pc[p] \in Restoring,
           Close(p, tx[p].clean /\ TRUE), UNCHANGED <<lock, req, manifest, backups>>,
           "data" \in Covered(p) => disk'["data"] = Own.image["data"],
           Up' => \/ OldService(p) /\ Running' /\ service'.image = disk'["binary"]
                  \/ /\ ~OldService(p) /\ ~NewService(p)
                     /\ Running' => service'.image = Foreign,
           ~OldService(p) /\ disk'["unit"] = None => ~service'.enabled /\ ~Up',
           OldService(p) => /\ service'.enabled = tx[p].old.enabled
                            /\ tx[p].old.running <=> Up'
                            /\ tx[p].old.defined,
           NewService(p) /\ ~OldService(p) => ~service'.enabled
    PROVE  Orderly'
<1>1. /\ TypeOK /\ tx \in [Procs -> TxType] /\ tx[p].clean /\ pc[p] \in Before /\ Kept
      /\ manifest = tx[p].was
  BY OrderlyFacts DEF Restoring, Undoing, Before, Underway, Steps
<1>2. /\ pc' = [pc EXCEPT ![p] = "unlock"] /\ tx'[p].outcome = "rolledback"
      /\ tx'[p].was = tx[p].was /\ tx'[p].old = tx[p].old
  BY <1>1 DEF Close, Goto, TxType
<1>3. /\ OldService(p)' = OldService(p) /\ NewService(p)' = NewService(p)
      /\ Covered(p)' = Covered(p) /\ Own' = Own
  BY <1>2 DEF OldService, NewService, Covered, Own
<1>4. Running' => Up'
  BY DEF Running, Up, Alive
<1>5. ServiceAsBefore(p)'
  <2>1. Up' => service'.state # "inactive"
    BY DEF Up, Alive
  <2>2. ~Up' => ~Alive(service')
    BY DEF Up
  <2>3. QED
    BY <1>2, <1>3, <2>1, <2>2 DEF ServiceAsBefore
<1>6. "unit" \in Covered(p) => OldService(p) \/ NewService(p)
  BY DEF Covered
<1>7. Undone(p)'
  <2>1. "data" \in Covered(p)' => disk'["data"] \in {Own'.image["data"], Own'.image["binary"]}
    BY <1>3
  <2>2. "unit" \in Covered(p)' /\ service'.state = "active" => service'.image = disk'["binary"]
    BY <1>3, <1>4, <1>6 DEF Running
  <2>3. QED
    BY <1>5, <2>1, <2>2 DEF Undone, HostAsBefore
<1>8. QED
  BY <1>1, <1>2, <1>4, <1>7, OrderlyStops

\* The rollback restores an item.
LEMMA OrderlyRestores ==
    ASSUME Quiet, Orderly, Kept', NEW p \in Procs,
           Wipe(p) \/ WipeFails(p) \/ Refill(p) \/ RefillFails(p)
    PROVE  Orderly'
<1> DEFINE item == LastOf(tx[p].left)
<1>1. /\ TypeOK /\ tx \in [Procs -> TxType] /\ Base /\ Exact /\ Served /\ Remembers(p)
      /\ disk \in [Items -> Contents] /\ service \in ServiceType /\ tx[p].clean /\ Kept
  BY OrderlyFacts
<1>2. /\ UNCHANGED <<lock, req>> /\ Continues(p)
      /\ OldService(p)' = OldService(p) /\ NewService(p)' = NewService(p)
      /\ Covered(p)' = Covered(p) /\ tx'[p].old = tx[p].old
  BY <1>1, Proceeds DEF UndoStep, Continues, OldService, NewService, Covered
<1>3. "rollback" \notin Events
  BY DEF Quiet
<1>4. /\ pc[p] \in {"wipe", "refill"} /\ UNCHANGED <<manifest, service, backups>>
  BY <1>3 DEF Wipe, WipeFails, Refill, RefillFails, RollbackMayFail
<1>5. /\ pc[p] \in Before /\ pc[p] \in Undoing /\ pc[p] \in Restoring /\ pc[p] \notin Launched
      /\ OldService(p) = manifest.service
  BY <1>4, OrderlyFacts DEF Before, Underway, Steps, Restoring, Undoing, Launched
<1>6. item \in tx[p].left /\ item \in Items /\ tx[p].left \subseteq Covered(p)
  BY <1>1, <1>4, RequestFacts, LastOfFacts DEF Base, Local, Undoing
<1>7. \/ pc' = [pc EXCEPT ![p] = "refill"] /\ UNCHANGED tx /\ disk' = [disk EXCEPT ![item] = None]
      \/ ItemDone(p, item, TRUE) /\ disk' = [disk EXCEPT ![item] = Own.image[item]]
  BY <1>3 DEF Wipe, WipeFails, Refill, RefillFails, RollbackMayFail, Goto
<1> HIDE DEF item
<1>8. \A i \in Items \ {item} : disk'[i] = disk[i]
  BY <1>1, <1>7
<1>9. /\ Up => ~OldService(p) /\ ~NewService(p) /\ (Running => service.image = Foreign)
      /\ Running => Up
      /\ NewService(p) => ~service.enabled
  BY <1>1, <1>4, <1>5 DEF Remembers, Down, Enabled, Running, Up, Alive
<1>10. ~OldService(p) /\ disk'["unit"] = None => ~service.enabled /\ ~Up
  <2>1. CASE item = "unit"
    <3>1. OldService(p) \/ NewService(p)
      BY <1>6, <2>1 DEF Covered
    <3>2. QED
      BY <1>9, <3>1
  <2>2. CASE item # "unit"
    BY <1>1, <1>5, <1>8, <2>2 DEF Served, Items
  <2>3. QED
    BY <2>1, <2>2
<1>11. "data" \in Covered(p) \ tx[p].left => disk'["data"] = Own.image["data"]
  <2>1. "data" \in Covered(p) \ tx[p].left => disk["data"] = Own.image["data"]
    BY <1>1, <1>5 DEF Remembers, DataBack
  <2>2. QED
    BY <1>6, <1>8, <2>1 DEF Items
<1>12. Running' = Running /\ Up' = Up /\ service' = service
  BY <1>4 DEF Running, Up
<1>13. ASSUME NEW s \in {"refill", "wipe", "reload"}, pc' = [pc EXCEPT ![p] = s], DataBack(p)'
       PROVE  Orderly'
  <2>1. pc'[p] = s /\ s \in Before /\ s \in Restoring
    BY <1>1, <1>13 DEF TypeOK, Before, Underway, Steps, Restoring, Undoing
  <2>2. Down(p)' /\ Enabled(p)'
    BY <1>2, <1>9, <1>12, <1>13, <2>1 DEF Down, Enabled
  <2>3. QED
    BY <1>1, <1>4, <1>5, <1>9, <1>10, <1>12, <1>13, <2>1, <2>2, OrderlyGoes
<1>14. Own' = Own
  BY <1>4 DEF Own
<1>15. CASE pc' = [pc EXCEPT ![p] = "refill"] /\ UNCHANGED tx
  <2>1. pc'[p] = "refill"
    BY <1>1, <1>15 DEF TypeOK
  <2>2. DataBack(p)'
    BY <1>2, <1>11, <1>14, <1>15, <2>1 DEF DataBack, Restoring, Undoing
  <2>3. QED
    BY <1>13, <1>15, <2>2
<1>16. CASE ItemDone(p, item, TRUE) /\ disk' = [disk EXCEPT ![item] = Own.image[item]]
  <2> DEFINE left == tx[p].left \ {item}
  <2>1. disk'[item] = Own.image[item]
    BY <1>1, <1>6, <1>16
  <2>2. "data" \in Covered(p) \ left => disk'["data"] = Own.image["data"]
    BY <1>11, <2>1
  <2>3. CASE left # {}
    <3>1. pc' = [pc EXCEPT ![p] = "wipe"] /\ tx'[p].left = left /\ pc'[p] = "wipe"
      BY <1>1, <1>16, <2>3 DEF ItemDone, Remaining, Goto, TypeOK, TxType
    <3>2. DataBack(p)'
      BY <1>2, <1>14, <2>2, <3>1 DEF DataBack, Restoring, Undoing
    <3>3. QED
      BY <1>13, <3>1, <3>2
  <2>4. CASE left = {} /\ (OldService(p) \/ NewService(p))
    <3>1. pc' = [pc EXCEPT ![p] = "reload"] /\ pc'[p] = "reload"
      BY <1>1, <1>16, <2>4 DEF ItemDone, Remaining, Goto, TypeOK
    <3>2. DataBack(p)'
      BY <1>2, <1>14, <2>2, <2>4, <3>1 DEF DataBack, Restoring, Undoing
    <3>3. QED
      BY <1>13, <3>1, <3>2
  <2>5. CASE left = {} /\ ~OldService(p) /\ ~NewService(p)
    <3>1. Close(p, tx[p].clean /\ TRUE)
      BY <1>16, <2>5 DEF ItemDone, Remaining
    <3>2. QED
      BY <1>2, <1>4, <1>5, <1>9, <1>10, <1>12, <2>2, <2>5, <3>1, OrderlyCloses
  <2>6. QED
    BY <2>3, <2>4, <2>5
<1>17. QED
  BY <1>7, <1>15, <1>16

\* The rollback puts the old service back.
LEMMA OrderlyResumes ==
    ASSUME Quiet, Orderly, Kept', NEW p \in Procs,
           RbReload(p) \/ RbEnable(p) \/ RbStart(p)
    PROVE  Orderly'
<1>1. /\ TypeOK /\ tx \in [Procs -> TxType] /\ Base /\ Exact /\ Served /\ Remembers(p)
      /\ service \in ServiceType /\ tx[p].clean /\ Settled /\ Kept /\ Observed(p)
  BY OrderlyFacts
<1>2. /\ UNCHANGED <<lock, req>> /\ Continues(p)
      /\ OldService(p)' = OldService(p) /\ NewService(p)' = NewService(p)
      /\ Covered(p)' = Covered(p) /\ tx'[p].old = tx[p].old
  BY <1>1, Proceeds DEF UndoStep, Continues, OldService, NewService, Covered
<1>3. /\ pc[p] \in {"reload", "reenable", "resume"} /\ UNCHANGED <<disk, manifest, backups>>
      /\ pc[p] # "reload" => OldService(p)
  BY <1>1 DEF RbReload, RbEnable, RbStart, Settled, Clean
<1>4. /\ pc[p] \in Before /\ pc[p] \in Restoring /\ pc[p] \notin Undoing \cup Launched
      /\ OldService(p) = manifest.service
  BY <1>3, OrderlyFacts DEF Before, Underway, Steps, Restoring, Undoing, Launched
<1>5. "data" \in Covered(p) => disk["data"] = Own.image["data"]
  BY <1>1, <1>4 DEF Remembers, DataBack
<1>6. /\ OldService(p) => tx[p].old.defined
      /\ tx[p].old.running => OldService(p)
      /\ Up => ~OldService(p) /\ ~NewService(p) /\ (Running => service.image = Foreign)
      /\ Running => Up
      /\ pc[p] = "resume" => tx[p].old.running /\ service.enabled = tx[p].old.enabled
      /\ pc[p] = "reload" /\ NewService(p) => ~service.enabled
  BY <1>1, <1>3, <1>4 DEF Remembers, Observed, Down, Enabled, Running, Up, Alive
<1>7. pc[p] # "reload" => disk["unit"] # None /\ disk["binary"] # None
  BY <1>1, <1>3, Standing
<1>8. /\ "reenable" \in Before /\ "resume" \in Before
      /\ {"reenable", "resume"} \subseteq Restoring
  BY DEF Before, Underway, Steps, Restoring, Undoing
<1>9. CASE RbReload(p)
  <2>1. pc[p] = "reload" /\ UNCHANGED service /\ Onward(p, TRUE, AfterReload(p), "reenable")
    BY <1>9 DEF Quiet, RbReload
  <2>2. Running' = Running /\ Up' = Up
    BY <2>1 DEF Running, Up
  <2>3. CASE OldService(p)
    <3>1. pc' = [pc EXCEPT ![p] = "reenable"] /\ pc'[p] = "reenable"
      BY <1>1, <1>6, <2>1, <2>3 DEF Onward, AfterReload, Goto, TypeOK
    <3>2. DataBack(p)'
      BY <1>2, <1>3, <1>5, <3>1 DEF DataBack, Own, Restoring, Undoing
    <3>3. Down(p)'
      BY <1>6, <2>2, <2>3 DEF Down
    <3>4. Enabled(p)'
      BY <1>2, <1>6, <1>8, <2>1, <3>1 DEF Enabled
    <3>5. QED
      BY <1>1, <1>3, <1>4, <1>6, <1>8, <2>2, <2>3, <3>1, <3>2, <3>3, <3>4, OrderlyGoes
  <2>4. CASE ~OldService(p)
    <3>1. Close(p, tx[p].clean /\ TRUE)
      BY <2>1, <2>4 DEF Onward, AfterReload
    <3>2. ~OldService(p) /\ disk["unit"] = None => ~service.enabled /\ ~Up
      BY <1>1, <1>4 DEF Served
    <3>3. QED
      BY <1>2, <1>3, <1>4, <1>5, <1>6, <2>1, <2>2, <2>4, <3>1, <3>2, OrderlyCloses
  <2>5. QED
    BY <2>3, <2>4
<1>10. CASE RbEnable(p)
  <2>1. pc[p] = "reenable" /\ service' = Autostart(service, tx[p].old.enabled)
        /\ Onward(p, TRUE, tx[p].old.running, "resume")
    BY <1>3, <1>7, <1>10 DEF Quiet, RbEnable
  <2>2. service'.enabled = tx[p].old.enabled /\ service'.state = service.state /\ OldService(p)
    BY <1>1, <1>3, <2>1 DEF Autostart, ServiceType
  <2>3. ~Up' /\ ~Running'
    BY <1>6, <2>2 DEF Up, Alive, Running
  <2>4. CASE tx[p].old.running
    <3>1. pc' = [pc EXCEPT ![p] = "resume"] /\ pc'[p] = "resume"
      BY <1>1, <2>1, <2>4 DEF Onward, Goto, TypeOK
    <3>2. DataBack(p)'
      BY <1>2, <1>3, <1>5, <3>1 DEF DataBack, Own, Restoring, Undoing
    <3>3. Down(p)'
      BY <2>3 DEF Down
    <3>4. Enabled(p)'
      BY <1>2, <1>8, <2>2, <3>1 DEF Enabled
    <3>5. QED
      BY <1>1, <1>3, <1>4, <1>8, <2>2, <2>3, <3>1, <3>2, <3>3, <3>4, OrderlyGoes
  <2>5. CASE ~tx[p].old.running
    <3>1. Close(p, tx[p].clean /\ TRUE)
      BY <2>1, <2>5 DEF Onward
    <3>2. QED
      BY <1>2, <1>3, <1>4, <1>5, <1>6, <2>2, <2>3, <2>5, <3>1, OrderlyCloses
  <2>6. QED
    BY <2>4, <2>5
<1>11. CASE RbStart(p)
  <2>1. pc[p] = "resume" /\ service' = Started(service, disk["binary"])
        /\ Close(p, tx[p].clean /\ TRUE)
    BY <1>3, <1>7, <1>11 DEF Quiet, RbStart, CanStart
  <2>2. OldService(p) /\ ~Running
    BY <1>3, <1>6, <2>1
  <2>3. /\ tx[p].old.running /\ service'.enabled = tx[p].old.enabled
        /\ Running' /\ Up' /\ service'.image = disk'["binary"]
    BY <1>1, <1>3, <1>6, <2>1, <2>2 DEF Started, ServiceType, Running, Up, Alive
  <2>4. QED
    BY <1>2, <1>3, <1>4, <1>5, <1>6, <2>1, <2>2, <2>3, OrderlyCloses
<1>12. QED
  BY <1>9, <1>10, <1>11

\* What may happen to the service and its data around an operation.
LEMMA Surroundings ==
    ASSUME Quiet, TypeOK, Environment \/ UNCHANGED vars
    PROVE  /\ UNCHANGED <<lock, pc, req, tx, manifest, backups, misread>>
           /\ disk'["binary"] = disk["binary"] /\ disk'["unit"] = disk["unit"]
           /\ \/ disk'["data"] = disk["data"]
              \/ Running /\ service.image # Foreign /\ disk'["data"] = service.image
           /\ service'.enabled = service.enabled
           /\ service.state # "inactive" => service'.state # "inactive"
           /\ Up' => Up
           /\ Running' => \/ Running /\ service'.image = service.image
                          \/ Up /\ service'.image = Program
<1>1. service \in ServiceType /\ disk \in [Items -> Contents] /\ ~Drift
  BY DEF TypeOK, Drift, Quiet
<1>2. UNCHANGED <<lock, pc, req, tx, manifest, backups, misread>>
  BY <1>1 DEF Environment, ServiceWrites, ServiceExits, ServiceRestarts, vars
<1>3. CASE ServiceWrites
  <2>1. /\ Running /\ service.image # Foreign /\ UNCHANGED service
        /\ disk' = [disk EXCEPT !["data"] = service.image]
    BY <1>3 DEF ServiceWrites, Running
  <2>2. /\ disk'["binary"] = disk["binary"] /\ disk'["unit"] = disk["unit"]
        /\ disk'["data"] = service.image
    BY <1>1, <2>1 DEF Items
  <2>3. Running' = Running /\ Up' = Up
    BY <2>1 DEF Running, Up
  <2>4. QED
    BY <1>2, <2>1, <2>2, <2>3
<1>4. CASE ServiceExits
  <2>1. PICK again \in BOOLEAN : service' = Exited(service, again)
    BY <1>4 DEF ServiceExits
  <2>2. Running /\ UNCHANGED disk
    BY <1>4 DEF ServiceExits, Running
  <2>3. /\ service'.state \in {"activating", "failed"} /\ service'.enabled = service.enabled
    BY <1>1, <2>1 DEF Exited, ServiceType
  <2>4. Up /\ ~Running'
    BY <2>2, <2>3 DEF Running, Up, Alive
  <2>5. QED
    BY <1>2, <2>2, <2>3, <2>4
<1>5. CASE ServiceRestarts
  <2>1. service.state = "activating" /\ service' = Restarted(service, Program) /\ UNCHANGED disk
    BY <1>5 DEF ServiceRestarts
  <2>2. /\ service'.state = "active" /\ service'.enabled = service.enabled
        /\ service'.image = Program
    BY <1>1, <2>1 DEF Restarted, ServiceType
  <2>3. Up
    BY <2>1 DEF Up, Alive
  <2>4. QED
    BY <1>2, <2>1, <2>2, <2>3
<1>6. CASE UNCHANGED vars
  BY <1>2, <1>6 DEF vars, Running, Up
<1>7. QED
  BY <1>1, <1>3, <1>4, <1>5, <1>6 DEF Environment

\* The service writes its data, ends, or is restarted.
LEMMA OrderlyEnvironment ==
    ASSUME Quiet, Orderly, Kept', Environment \/ UNCHANGED vars
    PROVE  Orderly'
<1>1. Kept /\ TypeOK /\ Served
  BY DEF Orderly, Kept, Settled, Exact, Base
<1>2. /\ UNCHANGED <<lock, pc, req, tx, manifest, backups, misread>>
      /\ disk'["binary"] = disk["binary"] /\ disk'["unit"] = disk["unit"]
      /\ \/ disk'["data"] = disk["data"]
         \/ Running /\ service.image # Foreign /\ disk'["data"] = service.image
      /\ service'.enabled = service.enabled
      /\ service.state # "inactive" => service'.state # "inactive"
      /\ Up' => Up
      /\ Running' => \/ Running /\ service'.image = service.image
                     \/ Up /\ service'.image = Program
  BY <1>1, Surroundings
<1>3. Program # Foreign => Program = disk["binary"] /\ disk["unit"] # Foreign
  BY DEF Program
<1>4. disk["unit"] = Foreign => Program = Foreign
  BY DEF Program
<1>5. Running => Up
  BY DEF Running, Up, Alive
<1>6. Served'
  <2>1. Running' /\ service'.image # Foreign => service'.image = disk'["binary"]
    BY <1>1, <1>2, <1>3 DEF Served
  <2>2. ~manifest.service /\ disk["unit"] = None => ~service'.enabled /\ ~Up'
    BY <1>1, <1>2 DEF Served
  <2>3. ASSUME ~manifest.service, Running', \A p \in Procs : pc[p] \notin Before
        PROVE  service'.image = Foreign
    <3>1. disk["unit"] \in {None, Foreign}
      BY <1>1, <2>3, AtRest DEF Kept, Bare
    <3>2. Up => disk["unit"] = Foreign
      BY <1>1, <2>3, <3>1 DEF Served
    <3>3. QED
      BY <1>1, <1>2, <1>4, <2>3, <3>2 DEF Served
  <2>4. QED
    BY <1>2, <2>1, <2>2, <2>3 DEF Served
<1>7. ASSUME NEW p \in Procs PROVE Remembers(p)'
  <2>1. /\ OldService(p)' = OldService(p) /\ NewService(p)' = NewService(p)
        /\ Covered(p)' = Covered(p) /\ Own' = Own /\ tx'[p] = tx[p] /\ pc'[p] = pc[p]
    BY <1>2 DEF OldService, NewService, Covered, Own
  <2>2. Remembers(p) /\ Observed(p) /\ FilesBack(p)
        /\ (pc[p] \in Before => OldService(p) = manifest.service)
    BY OrderlyFacts
  <2>3. Down(p)'
    <3>1. SUFFICES ASSUME pc[p] \in Before \ {"stop", "rbstop"}, Up',
                          ~(pc[p] \in Launched /\ NewService(p))
                   PROVE  /\ Running' => service'.image = Foreign
                          /\ ~OldService(p)
                          /\ pc[p] \in Restoring => ~NewService(p)
      BY <2>1 DEF Down
    <3>2. /\ Up /\ ~OldService(p) /\ (pc[p] \in Restoring => ~NewService(p))
          /\ Running => service.image = Foreign
      BY <1>2, <2>2, <3>1 DEF Remembers, Down
    <3>3. disk["unit"] \in {None, Foreign}
      BY <2>2, <3>1, <3>2 DEF Observed
    <3>4. disk["unit"] = Foreign
      BY <1>1, <2>2, <3>1, <3>2, <3>3 DEF Served
    <3>5. QED
      BY <1>2, <1>4, <3>2, <3>4
  <2>4. Enabled(p)'
    BY <1>2, <2>1, <2>2 DEF Remembers, Enabled
  <2>5. DataBack(p)'
    <3>1. CASE disk'["data"] = disk["data"]
      BY <2>1, <2>2, <3>1 DEF Remembers, DataBack
    <3>2. CASE Running /\ service.image # Foreign
      <4>1. pc[p] \in Restoring => pc[p] = "rbstop" /\ tx[p].left = Covered(p)
        BY <1>5, <2>2, <3>2
        DEF Remembers, Observed, Down, Restoring, Undoing, Before, Underway, Steps, Launched
      <4>2. QED
        BY <2>1, <4>1 DEF DataBack, Restoring, Undoing
    <3>3. QED
      BY <1>2, <3>1, <3>2
  <2>6. Undone(p)'
    <3>1. SUFFICES ASSUME RolledBack(p) PROVE HostAsBefore(p)'
      BY <2>1 DEF Undone, RolledBack
    <3>2. HostAsBefore(p) /\ FilesAsBefore(p) /\ "binary" \in Covered(p)
      BY <2>2, <3>1 DEF Remembers, Undone, FilesBack, Covered
    <3>3. ServiceAsBefore(p)'
      <4>1. ServiceAsBefore(p)
        BY <3>2 DEF HostAsBefore
      <4>2. /\ Alive(service') => Alive(service)
            /\ OldService(p)' = OldService(p) /\ NewService(p)' = NewService(p)
            /\ tx'[p] = tx[p]
        BY <1>2, <2>1 DEF Up
      <4>3. QED
        BY <1>2, <4>1, <4>2 DEF ServiceAsBefore
    <3>4. "data" \in Covered(p) => disk'["data"] \in {Own.image["data"], Own.image["binary"]}
      <4>1. disk["binary"] = Own.image["binary"]
        BY <3>2 DEF FilesAsBefore
      <4>2. QED
        BY <1>1, <1>2, <3>2, <4>1 DEF HostAsBefore, Served
    <3>5. ASSUME "unit" \in Covered(p), Running' PROVE service'.image = disk["binary"]
      <4>1. CASE Running /\ service'.image = service.image
        BY <3>2, <3>5, <4>1 DEF HostAsBefore, Running
      <4>2. CASE Up /\ service'.image = Program
        <5>1. OldService(p) \/ NewService(p)
          BY <3>5 DEF Covered
        <5>2. ~OldService(p) /\ NewService(p) => ~Up
          BY <3>2 DEF HostAsBefore, ServiceAsBefore, Up
        <5>3. OldService(p) /\ manifest.service
          BY <3>2, <4>2, <5>1, <5>2 DEF FilesAsBefore, OldService
        <5>4. \A q \in Procs : pc[q] \notin Before
          BY <1>1, <3>1, NobodyElse DEF RolledBack, Before, Underway, Outside
        <5>5. disk["unit"] # Foreign
          BY <1>1, <5>3, <5>4, RecordedDefinition, ContentsAssumption
        <5>6. QED
          BY <4>2, <5>5 DEF Program
      <4>3. QED
        BY <1>2, <3>5, <4>1, <4>2
    <3>6. QED
      BY <1>2, <2>1, <3>3, <3>4, <3>5 DEF HostAsBefore, Running
  <2>7. QED
    BY <2>3, <2>4, <2>5, <2>6 DEF Remembers
<1>8. QED
  BY <1>6, <1>7 DEF Orderly

\* The service is known again where it is seen down, or stopped.
LEMMA SeenAgain ==
    ASSUME [Next]_vars, misread, ~misread'
    PROVE  \E p \in Procs : Admit(p) \/ StopOld(p)
<1>1. SUFFICES ASSUME \A p \in Procs : ~Admit(p) /\ ~StopOld(p) PROVE misread'
  OBVIOUS
<1>2. CASE Environment \/ UNCHANGED vars
  BY <1>2 DEF Environment, ServiceWrites, ServiceExits, ServiceRestarts, Drift, vars
<1>3. ASSUME NEW p \in Procs, Begin(p) \/ Enter(p) \/ Crash(p) PROVE misread'
  BY <1>1, <1>3 DEF Begin, Enter, Acquire, TurnedAway, Refuse, Unlock, Crash, host
<1>4. ASSUME NEW p \in Procs, Prepare(p) PROVE misread'
  BY <1>1, <1>4 DEF Prepare, StopOldFails, OpenSnapshot, OpenSnapshotFails, FillSnapshot,
     FillSnapshotFails, RestartOld, host
<1>5. ASSUME NEW p \in Procs, Mutate(p) PROVE misread'
  BY <1>5 DEF Mutate, Hook, HookFails, Copy, Verify, Define, DefineFails, Load, SetAutostart,
     Start, StartFails, Healthy, Commit, Disable, Undefine, UndefineFails, Unload,
     RemoveBinary, RemoveManifest, CallFails, Retain, RetainFails, host
<1>6. ASSUME NEW p \in Procs, UndoStep(p) PROVE misread'
  <2>1. CASE RbStop(p)
    BY <2>1 DEF RbStop
  <2>2. CASE ~RbStop(p)
    BY <1>6, <2>2 DEF UndoStep, RbInspectFails, RbDisable, Wipe, WipeFails, Refill, RefillFails,
       RbReload, RbEnable, RbStart, host
  <2>3. QED
    BY <2>1, <2>2
<1>7. QED
  BY <1>2, <1>3, <1>4, <1>5, <1>6 DEF Next, Step

\* What the transactions leave is orderly wherever the manager's answers were right.
LEMMA OrderlyStep ==
    ASSUME Quiet, Fairly, Kept', [Next]_vars, ~misread'
    PROVE  Orderly'
<1>1. Kept /\ (~misread => Orderly)
  BY DEF Fairly
<1>2. ASSUME NEW p \in Procs, Admit(p) \/ StopOld(p) PROVE Orderly'
  BY <1>1, <1>2, OrderlyAdmit, OrderlyStop
<1>3. CASE misread
  BY <1>2, <1>3, SeenAgain
<1>4. CASE Orderly
  <2>1. ASSUME NEW p \in Procs, Begin(p) \/ Step(p) \/ Crash(p) PROVE Orderly'
    <3>1. ~Crash(p)
      BY DEF Quiet, Crash
    <3>2. CASE Begin(p) \/ Enter(p)
      BY <1>2, <1>4, <3>2, OrderlyOutside DEF Enter
    <3>3. CASE Prepare(p)
      BY <1>2, <1>4, <3>3, OrderlyPrepare
    <3>4. CASE Mutate(p)
      BY <1>4, <3>4, OrderlyFiles, OrderlyErrors, OrderlyService, OrderlyCommit DEF Mutate
    <3>5. CASE UndoStep(p)
      BY <1>4, <3>5, OrderlyTakesDown, OrderlyRestores, OrderlyResumes DEF UndoStep
    <3>6. QED
      BY <2>1, <3>1, <3>2, <3>3, <3>4, <3>5 DEF Step
  <2>2. QED
    BY <1>4, <2>1, OrderlyEnvironment DEF Next
<1>5. QED
  BY <1>1, <1>3, <1>4

\* Fairly is inductive on a quiet host.
LEMMA FairlyStep ==
    ASSUME Quiet, Fairly, [Next]_vars
    PROVE  Fairly'
<1>1. Kept'
  BY QuietIsCalm, KeptStep DEF Fairly
<1>2. ~misread' => Orderly'
  BY <1>1, OrderlyStep
<1>3. QED
  BY <1>1, <1>2 DEF Fairly

\* It holds at first where whatever is there is of somebody else.
LEMMA FairlyInit ==
    ASSUME FirstUse, Init
    PROVE  Fairly
<1>1. /\ Settled /\ manifest = NotInstalled /\ lock = None
      /\ \A p \in Procs : pc[p] = "idle"
  BY SettledInit DEF Init
<1>2. disk["binary"] \in {None, Foreign} /\ disk["unit"] \in {None, Foreign}
  BY DEF FirstUse, Init
<1>3. Bare
  BY <1>1, <1>2 DEF Bare, Effective, Pending
<1>4. \A p \in Procs : Observed(p) /\ FilesBack(p)
  BY <1>1 DEF Observed, FilesBack, RolledBack, Before, Underway
<1>5. service = NoService \/ (disk["unit"] # None /\ service \in InitServices)
  BY DEF Init
<1>6. /\ Running => service.image = Foreign
      /\ disk["unit"] = None => ~service.enabled /\ ~Up
  <2>1. CASE service = NoService
    BY <2>1 DEF NoService, Running, Up, Alive
  <2>2. CASE disk["unit"] # None /\ service \in InitServices
    BY <2>2 DEF FirstUse, Running
  <2>3. QED
    BY <1>5, <2>1, <2>2
<1>7. Served
  BY <1>6 DEF Served
<1>8. \A p \in Procs : Remembers(p)
  BY <1>1, OutsideRemembers DEF Outside
<1>9. QED
  BY <1>1, <1>3, <1>4, <1>7, <1>8 DEF Kept, Orderly, Fairly

\* It holds always.
LEMMA AlwaysFairly == ASSUME Quiet, FirstUse PROVE Spec => []Fairly
<1>1. Init => Fairly
  BY FairlyInit
<1>2. Fairly /\ [Next]_vars => Fairly'
  BY FairlyStep
<1>3. QED
  BY <1>1, <1>2, PTL DEF Spec

(***************************************************************************)
(* A rollback that reports no error has undone the transaction: whatever   *)
(* the service manager answered, the binary and the definition are those of*)
(* the snapshot and the manifest never changed.  So is the data, unless the*)
(* service that runs again has written it, and the service is enabled and  *)
(* running as before, if no question to the manager went wrong since the   *)
(* service was last seen as it is and down (rollbackLinux).  With a wrong  *)
(* answer this is false, as the run restart_rollback shows.                *)
(***************************************************************************)
THEOREM RollbacksRestore == ASSUME Quiet, FirstUse PROVE Spec => []RollbackRestores
<1>1. Fairly => RollbackRestores
  <2>1. SUFFICES ASSUME Fairly, NEW p \in Procs, RolledBack(p)
                 PROVE  FilesAsBefore(p) /\ (~misread => HostAsBefore(p))
    BY DEF RollbackRestores
  <2>2. FilesAsBefore(p)
    BY <2>1 DEF Fairly, Kept, FilesBack
  <2>3. ~misread => HostAsBefore(p)
    BY <2>1 DEF Fairly, Orderly, Remembers, Undone
  <2>4. QED
    BY <2>2, <2>3
<1>2. QED
  BY <1>1, AlwaysFairly, PTL

\* While the lock is free nobody is at work.
LEMMA LockFreeAtRest ==
    ASSUME Kept, lock = None
    PROVE  /\ \A p \in Procs : pc[p] \notin Before
           /\ Effective("binary") = disk["binary"] /\ Effective("unit") = disk["unit"]
<1>1. \A p \in Procs : pc[p] \in Outside
  BY ConstantFacts DEF Kept, Settled, Exact, Base, MutualExclusion, Outside
<1>2. \A p \in Procs : pc[p] \notin Before
  BY <1>1 DEF Before, Underway, Outside
<1>3. QED
  BY <1>2, AtRest

(***************************************************************************)
(* Between operations SvcForge leaves nothing on the host that the manifest*)
(* does not account for: no binary and no definition, whatever the service *)
(* manager answered, and, while its answers were right, no autostart entry *)
(* without a definition and no process of a build that was removed, not    *)
(* even one that waits for its automatic restart.                          *)
(***************************************************************************)
THEOREM NothingIsLeft == ASSUME Quiet, FirstUse PROVE Spec => []NoResidue
<1>1. Fairly => NoResidue
  <2>1. SUFFICES ASSUME Fairly, lock = None
                 PROVE  /\ ~Installed => disk["binary"] \in {None, Foreign}
                        /\ ~manifest.service =>
                              /\ disk["unit"] \in {None, Foreign}
                              /\ ~misread =>
                                    /\ disk["unit"] = None => ~service.enabled /\ ~Alive(service)
                                    /\ service.state = "active" => service.image = Foreign
    BY DEF NoResidue
  <2>2. /\ \A p \in Procs : pc[p] \notin Before
        /\ Effective("binary") = disk["binary"] /\ Effective("unit") = disk["unit"]
    BY <2>1, LockFreeAtRest DEF Fairly
  <2>3. /\ ~Installed => disk["binary"] \in {None, Foreign}
        /\ ~manifest.service => disk["unit"] \in {None, Foreign}
    BY <2>1, <2>2 DEF Fairly, Kept, Bare
  <2>4. ~misread => Served
    BY <2>1 DEF Fairly, Orderly
  <2>5. QED
    BY <2>2, <2>3, <2>4 DEF Served, Running, Up
<1>2. QED
  BY <1>1, AlwaysFairly, PTL

(***************************************************************************)
(* Between operations a process of the service that SvcForge started runs  *)
(* the installed binary, after an upgrade the new one and after a rollback *)
(* the old one, and so does one the manager restarted by itself: what was  *)
(* running is stopped before the binary changes, unless the manager did not*)
(* say that it runs.                                                       *)
(***************************************************************************)
THEOREM InstalledIsWhatRuns == ASSUME Quiet, FirstUse PROVE Spec => []RunsWhatIsInstalled
<1>1. Fairly => RunsWhatIsInstalled
  BY DEF Fairly, Orderly, Served, Running, RunsWhatIsInstalled
<1>2. QED
  BY <1>1, AlwaysFairly, PTL

-----------------------------------------------------------------------------
(* status beside the lifecycle: an alarm is true of the version it names    *)

\* The manifest records the hash of the build it names.
Named == Installed => manifest.hash = manifest.build

\* What status has read still holds, until it is noted that it did not.
Reported ==
    /\ reads \in {0, 1, 2}
    /\ reads = 1 /\ seen.build \notin differs =>
          /\ Installed
          /\ disk["binary"] = seen.hash
          /\ manifest.build = seen.build /\ manifest.hash = seen.hash
    /\ NoFalseAlarm

-----------------------------------------------------------------------------
(* The lifecycle beneath                                                   *)

\* status changes nothing: whatever is shown of the lifecycle holds beside it.
LEMMA StatusIsLifecycle == StatusSpec => Spec
<1>1. StatusInit => Init
  BY DEF StatusInit
<1>2. [StatusNext]_allVars => [Next]_vars
  BY DEF StatusNext, allVars
<1> QED
  BY <1>1, <1>2, PTL DEF StatusSpec, Spec

\* Exact holds in every behaviour of the lifecycle.
LEMMA AlwaysExact == Spec => []Exact
<1>1. Init => Exact
  BY ExactInit
<1>2. Exact /\ [Next]_vars => Exact'
  BY ExactStep
<1> QED
  BY <1>1, <1>2, PTL DEF Spec

-----------------------------------------------------------------------------
(* The steps                                                               *)

\* A step of the lifecycle between the two reads: either the binary recorded is still
\* the one installed, or it is noted that it is not.
LEMMA BetweenReads ==
    ASSUME Exact, Named, Named', [Next]_vars, Installed,
           disk["binary"] = manifest.hash
    PROVE  \/ manifest.build \in Differing'
           \/ /\ Installed' /\ disk'["binary"] = manifest.hash
              /\ manifest'.build = manifest.build /\ manifest'.hash = manifest.hash
<1>1. CASE manifest' = manifest
  BY <1>1 DEF Differing, Installed
<1>2. CASE manifest' # manifest
  <2>1. PICK p \in Procs : Commit(p) \/ RemoveManifest(p)
    BY <1>2, ManifestWritten
  <2>2. CASE Commit(p)
    <3>1. /\ pc[p] = "commit" /\ UNCHANGED disk
          /\ manifest' = [build |-> req[p].build, hash |-> tx[p].src, service |-> NewService(p)]
          /\ req[p].op # "remove" /\ req[p].build \in Builds
      BY <2>2, RequestFacts DEF Commit, NewManifest, Exact, Base, Local, Forward, RequestType
    <3>2. disk["binary"] = tx[p].src
      BY <3>1 DEF Exact, Fits, Reached, Verified
    <3>3. Installed'
      BY <3>1, ConstantFacts DEF Installed, NotInstalled
    <3> QED
      BY <3>1, <3>2, <3>3 DEF Named
  <2>3. CASE RemoveManifest(p)
    <3>1. pc[p] = "rmmanifest" /\ disk["binary"] = None
      BY <2>3 DEF RemoveManifest, Exact, Fits, Reached
    <3>2. manifest.hash # None
      BY DEF Exact, Base, TypeOK, ManifestType, Installed
    <3> QED
      BY <3>1, <3>2
  <2> QED
    BY <2>1, <2>2, <2>3
<1> QED
  BY <1>1, <1>2

\* Every step keeps what status has read so far true of some moment since it began.
LEMMA ReportedStep ==
    ASSUME Exact, Named, Named', Reported, [StatusNext]_allVars
    PROVE  Reported'
<1>1. CASE ReadNext /\ UNCHANGED vars
  <2>1. /\ reads < 2 /\ reads' = reads + 1 /\ differs' = differs \cup Differing
        /\ UNCHANGED <<disk, manifest>>
    BY <1>1 DEF ReadNext, vars
  <2>2. CASE reads = 0
    <3>1. Installed /\ seen' = manifest /\ reads' = 1
      BY <1>1, <2>1, <2>2 DEF ReadNext, ReadOrder
    <3>2. disk["binary"] # manifest.hash => manifest.build \in differs'
      BY <2>1 DEF Differing
    <3> QED
      BY <2>1, <3>1, <3>2 DEF Reported, NoFalseAlarm, Installed
  <2>3. CASE reads = 1
    <3>1. seen' = seen /\ hash' = disk["binary"] /\ reads' = 2
      BY <1>1, <2>1, <2>3 DEF ReadNext, ReadOrder
    <3> QED
      BY <2>1, <2>3, <3>1 DEF Reported, NoFalseAlarm, BinaryMatches
  <2> QED
    BY <2>1, <2>2, <2>3 DEF Reported
<1>2. CASE StatusOver /\ UNCHANGED vars
  BY <1>2 DEF StatusOver, Reported, NoFalseAlarm
<1>3. CASE UNCHANGED allVars
  BY <1>3 DEF allVars, statusVars, vars, Reported, NoFalseAlarm, BinaryMatches, Installed
<1>4. CASE Next /\ Meanwhile
  <2>1. UNCHANGED <<reads, seen, hash>>
    BY <1>4 DEF Meanwhile
  <2>2. CASE reads # 1
    BY <1>4, <2>1, <2>2 DEF Meanwhile, Reported, NoFalseAlarm, BinaryMatches
  <2>3. CASE reads = 1
    <3>1. differs' = differs \cup Differing'
      BY <1>4, <2>3 DEF Meanwhile
    <3>2. CASE seen.build \in differs
      BY <2>1, <2>3, <3>1, <3>2 DEF Reported, NoFalseAlarm
    <3>3. CASE seen.build \notin differs
      <4>1. /\ Installed /\ disk["binary"] = manifest.hash
            /\ manifest.build = seen.build /\ manifest.hash = seen.hash
        BY <2>3, <3>3 DEF Reported
      <4>2. \/ manifest.build \in Differing'
            \/ /\ Installed' /\ disk'["binary"] = manifest.hash
               /\ manifest'.build = manifest.build /\ manifest'.hash = manifest.hash
        BY <1>4, <4>1, BetweenReads DEF Differing
      <4> QED
        BY <2>1, <2>3, <3>1, <4>1, <4>2 DEF Reported, NoFalseAlarm
    <3> QED
      BY <3>2, <3>3
  <2> QED
    BY <2>2, <2>3
<1> QED
  BY <1>1, <1>2, <1>3, <1>4 DEF StatusNext

-----------------------------------------------------------------------------

(***************************************************************************)
(* An alarm of status is true whatever it overlaps, as long as no manifest *)
(* records the bytes of one build under the name of another: ReadManifest  *)
(* comes before the hash of the binary (statusLinux).                      *)
(***************************************************************************)
THEOREM AlarmsAreTrue == StatusSpec /\ []Named => []NoFalseAlarm
<1>1. StatusInit => Reported
  BY DEF StatusInit, Reported, NoFalseAlarm
<1>2. Exact /\ Named /\ Named' /\ Reported /\ [StatusNext]_allVars => Reported'
  BY ReportedStep
<1>3. Reported => NoFalseAlarm
  BY DEF Reported
<1> QED
  BY <1>1, <1>2, <1>3, StatusIsLifecycle, AlwaysExact, PTL DEF StatusSpec

-----------------------------------------------------------------------------
(* When manifests name what they record                                    *)

\* No operation is run by the installed binary itself, which a user may have started
\* before another operation replaced it.
FromElsewhere == \A r \in Requests : ~r.self

\* What was hashed under the lock is the build that was offered.
Sourced(p) == pc[p] \in Before /\ req[p].op # "remove" => tx[p].src = req[p].build

\* No step changes what an operation hashed, or from what.
LEMMA SourcedStep ==
    ASSUME FromElsewhere, Exact, NEW p \in Procs, Sourced(p), [Next]_vars
    PROVE  Sourced(p)'
<1>1. Base /\ TypeOK
  BY DEF Exact, Base
<1>2. SUFFICES ASSUME pc'[p] \in Before, req'[p].op # "remove" PROVE tx'[p].src = req'[p].build
  BY DEF Sourced
<1>3. CASE Admit(p)
  <2>1. UNCHANGED req /\ tx'[p].src = SourceHash(req[p]) /\ req[p] \in Requests
    BY <1>1, <1>3 DEF Admit, TypeOK, TxType, Base, Local
  <2> QED
    BY <1>2, <2>1 DEF SourceHash, FromElsewhere
<1>4. CASE ~Admit(p)
  <2>1. pc[p] \in Before /\ req'[p] = req[p] /\ tx'[p].src = tx[p].src
    BY <1>1, <1>2, <1>4, UnderWay DEF Before, Continues
  <2> QED
    BY <1>2, <2>1 DEF Sourced
<1> QED
  BY <1>3, <1>4

(***************************************************************************)
(* The manifest names the build whose hash it records, when operations are *)
(* run by a binary that is not the installed one: the hash is that of the  *)
(* source, read under the lock (fileSHA256, WriteManifest).                *)
(***************************************************************************)
THEOREM ManifestsName == ASSUME FromElsewhere PROVE Spec => []Named
<1> DEFINE Inv == Exact /\ Named /\ \A p \in Procs : Sourced(p)
<1>1. Init => Inv
  BY ExactInit DEF Init, Named, Installed, Sourced, Before, Underway
<1>2. ASSUME Inv, [Next]_vars PROVE Inv'
  <2>1. Exact' /\ \A p \in Procs : Sourced(p)'
    BY <1>2, ExactStep, SourcedStep
  <2>2. CASE UNCHANGED manifest
    BY <1>2, <2>1, <2>2 DEF Named, Installed
  <2>3. CASE manifest' # manifest
    <3>1. PICK p \in Procs : Commit(p) \/ RemoveManifest(p)
      BY <1>2, <2>3, ManifestWritten
    <3>2. CASE Commit(p)
      <4>1. /\ pc[p] = "commit" /\ manifest'.build = req[p].build
            /\ manifest'.hash = tx[p].src /\ req[p].op # "remove"
        BY <1>2, <3>2 DEF Commit, NewManifest, Exact, Base, Local, Forward
      <4>2. tx[p].src = req[p].build
        BY <1>2, <4>1 DEF Sourced, Before, Underway, Steps
      <4> QED
        BY <2>1, <4>1, <4>2 DEF Named
    <3>3. CASE RemoveManifest(p)
      BY <2>1, <3>3 DEF RemoveManifest, Named, Installed
    <3> QED
      BY <3>1, <3>2, <3>3
  <2> QED
    BY <2>2, <2>3
<1>3. Inv => Named
  OBVIOUS
<1> QED
  BY <1>1, <1>2, <1>3, PTL DEF Spec

(***************************************************************************)
(* status raises no false alarm, whatever it overlaps, while operations    *)
(* are run by a binary that is not the installed one.                      *)
(***************************************************************************)
THEOREM NoFalseAlarms == ASSUME FromElsewhere PROVE StatusSpec => []NoFalseAlarm
<1>1. Spec => []Named
  BY ManifestsName
<1> QED
  BY <1>1, StatusIsLifecycle, AlarmsAreTrue, PTL

=============================================================================
