-------------------------- MODULE AtomicFileProofs --------------------------
(***************************************************************************)
(* For any number of concurrent calls and of files: a path is a register,  *)
(* whatever fails or loses power, and a reported write is durable.         *)
(***************************************************************************)
EXTENDS AtomicFile, TLAPS

\* The call has not renamed its file yet.
Unpublished(w) == pc[w] \in {"idle", "write", "sync", "rename"}

\* A call renames a file only when all of it is written and synced.
Staged ==
    \A w \in Writers :
        /\ pc[w] = "sync" => w \in whole
        /\ pc[w] = "rename" => w \in whole \cap synced

\* What a path names, and what it may name after a power loss, is whole and on disk.
Published ==
    \A path \in Paths :
        /\ entry[path] \in onDisk[path]
        /\ onDisk[path] \subseteq whole \cap synced

Inv == TypeOK /\ Staged /\ Published

-----------------------------------------------------------------------------

(***************************************************************************)
(* The invariant of createTemp - write - sync - rename, for every function *)
(* that writes a file that way.                                            *)
(***************************************************************************)
LEMMA InitInv == Init => Inv
  BY DirSyncAssumption DEF Init, Inv, TypeOK, Staged, Published, Files

\* A call, the failure of one or the death of its process keeps the invariant.
LEMMA StepInv ==
  ASSUME Inv, NEW w \in Writers, Step(w) \/ ProcessDies(w)
  PROVE  Inv'
<1> USE DEF Inv, TypeOK, Staged, Published, Files, Goto
<1>1. CASE Create(w)
  BY <1>1 DEF Create
<1>2. CASE Write(w)
  BY <1>2 DEF Write
<1>3. CASE Sync(w)
  BY <1>3 DEF Sync, Synced
<1>4. CASE Rename(w)
  <2>1. target[w] \in Paths
    OBVIOUS
  <2>2. TypeOK' /\ Staged'
    BY <1>4, <2>1 DEF Rename
  <2>3. ASSUME NEW path \in Paths
        PROVE  /\ entry'[path] \in onDisk'[path]
               /\ onDisk'[path] \subseteq whole' \cap synced'
    BY <1>4, <2>1, <2>3 DEF Rename
  <2> QED BY <2>2, <2>3
<1>5. CASE SyncDirectory(w)
  BY <1>5 DEF SyncDirectory
<1>6. CASE SyncDirectoryFails(w)
  BY <1>6 DEF SyncDirectoryFails, AfterFailedSync
<1>7. CASE Fails(w)
  BY <1>7 DEF Fails
<1>8. CASE ProcessDies(w)
  BY <1>8 DEF ProcessDies, UnderWay
<1> QED BY <1>1, <1>2, <1>3, <1>4, <1>5, <1>6, <1>7, <1>8 DEF Step

\* Neither writing a directory back nor a power loss breaks it.
LEMMA WorldInv ==
  ASSUME Inv, (\E path \in Paths : WriteBack(path)) \/ PowerLoss
  PROVE  Inv'
<1> USE DEF Inv, TypeOK, Staged, Published, Files
<1>1. CASE \E path \in Paths : WriteBack(path)
  BY <1>1 DEF WriteBack
<1>2. CASE PowerLoss
  <2>1. \A w \in Writers : pc'[w] \in {"idle", "ok", "failed", "died"}
    BY <1>2 DEF PowerLoss, UnderWay
  <2>2. whole \cap synced \subseteq whole' /\ whole' \subseteq whole /\ synced' = synced
    BY <1>2 DEF PowerLoss
  <2>3. TypeOK'
    BY <1>2, <2>2 DEF PowerLoss, UnderWay
  <2>4. Staged'
    BY <2>1
  <2>5. Published'
    BY <1>2, <2>2 DEF PowerLoss
  <2> QED BY <2>3, <2>4, <2>5
<1> QED BY <1>1, <1>2

\* Published files are whole and synced in every behaviour.
LEMMA InvHolds == Spec => []Inv
<1>1. Inv /\ UNCHANGED vars => Inv'
  BY DEF Inv, TypeOK, Staged, Published, vars
<1>2. Inv /\ [Next]_vars => Inv'
  BY <1>1, StepInv, WorldInv DEF Next
<1> QED BY InitInv, <1>2, PTL DEF Spec

-----------------------------------------------------------------------------
(* A path is a register                                                    *)

\* What a whole file holds is what was written.
LEMMA WholeContents ==
  ASSUME Inv, NEW path \in Paths
  PROVE  /\ Contents(entry[path]) = entry[path]
         /\ {Contents(file) : file \in onDisk[path]} = onDisk[path]
  BY DEF Inv, Published, Contents

\* The mapped variables.
value == [path \in Paths |-> Contents(entry[path])]
survives == [path \in Paths |-> {Contents(file) : file \in onDisk[path]}]

\* Since published files are whole, the abstract value of a path is the file it names.
LEMMA Mapped ==
  ASSUME Inv
  PROVE  value = entry /\ survives = onDisk
<1>1. value = [path \in Paths |-> entry[path]]
  BY WholeContents DEF value
<1>2. survives = [path \in Paths |-> onDisk[path]]
  BY WholeContents DEF survives
<1> QED BY <1>1, <1>2 DEF Inv, TypeOK

\* The initial directories are an initial register.
LEMMA InitRefines == Init => R!Init
<1> SUFFICES ASSUME Init PROVE R!Init
  OBVIOUS
<1>1. value = entry /\ survives = onDisk
  BY InitInv, Mapped
<1> QED BY <1>1 DEF R!Init, value, survives, Init, Files

\* Every step is one of the register or leaves it unchanged.
LEMMA NextRefines ==
  ASSUME Inv, Inv', [Next]_vars
  PROVE  [R!Next]_R!vars
<1>1. value = entry /\ survives = onDisk
  BY Mapped
<1>2. value' = entry' /\ survives' = onDisk'
  <2>1. \A path \in Paths :
           /\ Contents(entry[path])' = entry'[path]
           /\ {Contents(file) : file \in onDisk[path]}' = onDisk'[path]
    BY DEF Inv, Published, Contents
  <2>2. value' = [path \in Paths |-> entry'[path]]
    BY <2>1 DEF value
  <2>3. survives' = [path \in Paths |-> onDisk'[path]]
    BY <2>1 DEF survives
  <2> QED BY <2>2, <2>3 DEF Inv, TypeOK
<1>3. CASE entry' = entry /\ onDisk' = onDisk
  BY <1>1, <1>2, <1>3 DEF R!vars, value, survives
<1>4. ASSUME NEW w \in Writers, Rename(w)
      PROVE  R!Write(target[w])
  <2>1. target[w] \in Paths /\ w \in Files /\ entry'[target[w]] = w
    BY <1>4 DEF Inv, TypeOK, Rename, Files
  <2>2. /\ entry' = [entry EXCEPT ![target[w]] = w]
        /\ onDisk' = [onDisk EXCEPT ![target[w]] = @ \cup {entry'[target[w]]}]
    BY <1>4, <2>1 DEF Rename
  <2>3. \E v \in Files : entry' = [entry EXCEPT ![target[w]] = v]
    BY <2>1, <2>2
  <2> QED BY <1>1, <1>2, <2>2, <2>3 DEF R!Write, value, survives
<1>5. ASSUME NEW path \in Paths, onDisk' = [onDisk EXCEPT ![path] = {entry[path]}],
             UNCHANGED entry
      PROVE  R!Flush(path)
  BY <1>1, <1>2, <1>5 DEF R!Flush, value, survives, Inv, TypeOK
<1>6. ASSUME PowerLoss
      PROVE  R!PowerLoss
  BY <1>1, <1>2, <1>6 DEF R!PowerLoss, value, survives, PowerLoss
<1>7. ASSUME NEW w \in Writers, Step(w) \/ ProcessDies(w)
      PROVE  [R!Next]_R!vars
  <2> target[w] \in Paths
    BY DEF Inv, TypeOK
  <2>1. CASE Rename(w)
    BY <1>4, <2>1 DEF R!Next, R!Write, R!vars
  <2>2. CASE SyncDirectory(w)
    BY <1>5, <2>2 DEF R!Next, SyncDirectory
  <2>3. CASE ~Rename(w) /\ ~SyncDirectory(w)
    <3>1. entry' = entry /\ onDisk' = onDisk
      BY <1>7, <2>3 DEF Step, Create, Write, Sync, SyncDirectoryFails, Fails, ProcessDies
    <3> QED BY <3>1, <1>3
  <2> QED BY <2>1, <2>2, <2>3
<1>8. CASE \E path \in Paths : WriteBack(path)
  BY <1>8, <1>5 DEF WriteBack, R!Next
<1>9. CASE UNCHANGED vars
  BY <1>9, <1>3 DEF vars
<1> QED BY <1>6, <1>7, <1>8, <1>9 DEF Next, R!Next

(***************************************************************************)
(* However many calls write however many files, and whatever fails, dies   *)
(* or loses power: readers find whole files (writeFileAtomic,              *)
(* WriteManifest, copyFileAtomic).                                         *)
(***************************************************************************)
THEOREM AlwaysARegister == Spec => NeverTorn
<1>1. Inv /\ Inv' /\ [Next]_vars => [R!Next]_R!vars
  BY NextRefines
<1> QED BY InitRefines, InvHolds, <1>1, PTL DEF Spec, NeverTorn, R!Spec

-----------------------------------------------------------------------------
(* A reported write is durable                                             *)

\* Nothing is published before its rename.
Ordered ==
    /\ \A w, v \in Writers : v \in older[w] => ~Unpublished(v)
    /\ \A v \in Writers, path \in Paths : v \in onDisk[path] => ~Unpublished(v)

\* What was there before a renamed file does not come back while it is there.
Superseded == \A w \in Writers : pc[w] = "syncdir" => entry[target[w]] \notin older[w]

DInv == Inv /\ Ordered /\ Superseded /\ DurableWhenReported

\* At first no file is superseded.
LEMMA InitDInv == Init => DInv
<1> SUFFICES ASSUME Init PROVE DInv
  OBVIOUS
<1>1. \A w \in Writers : pc[w] = "idle" /\ older[w] = {} /\ w # Original
  BY FilesAssumption DEF Init
<1>2. \A path \in Paths : onDisk[path] = {Original}
  BY DEF Init
<1> QED BY InitInv, <1>1, <1>2 DEF DInv, Ordered, Superseded, DurableWhenReported

\* What was reported as written stays durable when a writer moves, fails or dies.
LEMMA StepDInv ==
  ASSUME DInv, NEW w \in Writers, Step(w) \/ ProcessDies(w)
  PROVE  DInv'
<1> USE DEF DInv, Ordered, Superseded, DurableWhenReported, Unpublished, Goto
<1>1. Inv'
  BY StepInv
<1>2. TypeOK
  BY DEF Inv
<1>3. CASE Rename(w)
  <2>1. target[w] \in Paths /\ w \notin onDisk[target[w]] /\ \A v \in Writers : w \notin older[v]
    BY <1>2, <1>3 DEF TypeOK, Rename
  <2>2. Ordered'
    BY <1>2, <1>3, <2>1 DEF TypeOK, Rename
  <2>3. Superseded'
    BY <1>2, <1>3, <2>1 DEF TypeOK, Rename
  <2>4. DurableWhenReported'
    BY <1>2, <1>3, <2>1, DirSyncAssumption DEF TypeOK, Rename
  <2> QED BY <1>1, <2>2, <2>3, <2>4
<1>4. CASE SyncDirectory(w)
  <2>1. target[w] \in Paths /\ entry[target[w]] \in onDisk[target[w]]
    BY <1>2 DEF TypeOK, Inv, Published
  <2>2. Ordered' /\ Superseded'
    BY <1>2, <1>4, <2>1 DEF TypeOK, SyncDirectory
  <2>3. DurableWhenReported'
    BY <1>2, <1>4, <2>1 DEF TypeOK, SyncDirectory
  <2> QED BY <1>1, <2>2, <2>3
<1>5. CASE SyncDirectoryFails(w)
  BY <1>1, <1>2, <1>5 DEF TypeOK, SyncDirectoryFails, AfterFailedSync
<1>6. CASE Create(w) \/ Write(w) \/ Sync(w) \/ Fails(w) \/ ProcessDies(w)
  BY <1>1, <1>2, <1>6 DEF TypeOK, Create, Write, Sync, Fails, ProcessDies, UnderWay
<1> QED BY <1>3, <1>4, <1>5, <1>6 DEF Step

\* And when a directory is written back or the power is lost.
LEMMA WorldDInv ==
  ASSUME DInv, (\E path \in Paths : WriteBack(path)) \/ PowerLoss
  PROVE  DInv'
<1> USE DEF DInv, Ordered, Superseded, DurableWhenReported, Unpublished
<1>1. Inv' /\ TypeOK
  BY WorldInv DEF Inv
<1>2. CASE \E path \in Paths : WriteBack(path)
  <2>1. \A path \in Paths : onDisk'[path] \subseteq onDisk[path]
    BY <1>1, <1>2 DEF TypeOK, WriteBack, Inv, Published
  <2>2. pc' = pc /\ target' = target /\ older' = older /\ entry' = entry
    BY <1>2 DEF WriteBack
  <2>3. Ordered'
    BY <2>1, <2>2
  <2>4. Superseded' /\ DurableWhenReported'
    BY <1>1, <2>1, <2>2 DEF TypeOK
  <2> QED BY <1>1, <2>3, <2>4
<1>3. CASE PowerLoss
  <2>1. \A path \in Paths : onDisk'[path] \subseteq onDisk[path]
    BY <1>3 DEF PowerLoss
  <2>2. target' = target /\ older' = older
    BY <1>3 DEF PowerLoss
  <2>3. \A w \in Writers : pc'[w] = pc[w] \/ pc'[w] = "died"
    BY <1>3 DEF PowerLoss
  <2>4. \A w \in Writers : pc'[w] # "syncdir"
    BY <1>3 DEF PowerLoss, UnderWay
  <2>5. \A w \in Writers : Unpublished(w)' => Unpublished(w)
    BY <2>3
  <2>6. Ordered'
    BY <2>1, <2>2, <2>5
  <2>7. Superseded'
    BY <2>4
  <2>8. DurableWhenReported'
    BY <1>1, <2>1, <2>2, <2>3 DEF TypeOK
  <2> QED BY <1>1, <2>6, <2>7, <2>8
<1> QED BY <1>2, <1>3

(***************************************************************************)
(* For any number of concurrent calls: what writeFileAtomic reported as    *)
(* written cannot be undone by a power loss.                               *)
(***************************************************************************)
THEOREM ReportedIsDurable == Spec => []DurableWhenReported
<1>1. DInv /\ UNCHANGED vars => DInv'
  BY DEF DInv, Inv, TypeOK, Staged, Published, Ordered, Superseded,
         DurableWhenReported, Unpublished, vars
<1>2. DInv /\ [Next]_vars => DInv'
  BY <1>1, StepDInv, WorldDInv DEF Next
<1>3. DInv => DurableWhenReported
  BY DEF DInv
<1> QED BY InitDInv, <1>2, <1>3, PTL DEF Spec

=============================================================================
