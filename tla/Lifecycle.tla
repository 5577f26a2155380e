------------------------------ MODULE Lifecycle ------------------------------
(***************************************************************************)
(* The transactional lifecycle of one application (runner_linux.go):       *)
(* install, upgrade, repair and remove, run by several processes of the    *)
(* host that share the state directory of the application.  Each operation *)
(* takes the lifecycle lock, decides from the manifest, stops the service, *)
(* takes a snapshot, changes the host step by step and commits by writing  *)
(* or deleting the manifest; a failure after the first change rolls back.  *)
(*                                                                         *)
(* A step of a process is one call that changes the host; every such call  *)
(* may fail, and a process may die between (or within) any two of them.    *)
(***************************************************************************)
EXTENDS Integers, Sequences, FiniteSets, ServiceManager, Snapshots

CONSTANTS
    Procs,          \* processes that run a lifecycle operation
    Builds,         \* builds of the application: a build is its bytes and its version
    VersionOf,      \* precedence of a build's version, 0 for a build that declares none
    Requests,       \* the operations requested, with the App they are requested for
    Foreign,        \* contents SvcForge did not write
    Corrupt,        \* contents that are no build: a torn or altered copy
    InitBinaries,   \* what the install path may hold before SvcForge runs
    InitUnits,      \* what the service definition path may hold before SvcForge runs
    InitServices,   \* what the service manager may know before SvcForge runs
    KeepBackups,    \* App.Upgrade.KeepBackups
    MaxSnapshots,   \* room for that many snapshot directories (a bound of the model)
    Events          \* what may go wrong or happen around the operations

EventKinds == {"call",      \* a call of the transaction fails
               "rollback",  \* a call of the rollback fails
               "crash",     \* a process dies
               "drift",     \* somebody alters the installed files
               "write",     \* the service writes its data
               "exit",      \* the service process ends by itself
               "restart",   \* and the manager may restart it
               "probe"}     \* the manager fails to answer a question about the service

Contents == Builds \cup {None, Foreign, Corrupt}

RequestType ==
    [op        : {"install", "repair", "remove"},
     build     : Builds,
     service   : BOOLEAN,   \* App.Service.Enabled
     auto      : BOOLEAN,   \* App.Service.AutoStart
     hook      : BOOLEAN,   \* App.Hooks.BeforeMutation is set
     downgrade : BOOLEAN,   \* App.Upgrade.AllowDowngrade
     self      : BOOLEAN]   \* the source binary is the installed one

NoRequest == [op |-> "none"]

ServiceType ==
    [state : ServiceStates, image : Contents, enabled : BOOLEAN]

ASSUME ContentsAssumption ==
    /\ None \notin Builds \cup {Foreign, Corrupt}
    /\ Foreign \notin Builds
    /\ Corrupt \notin Builds \cup {Foreign}

ASSUME ProcsAssumption == None \notin Procs

ASSUME RequestsAssumption ==
    /\ VersionOf \in [Builds -> Nat]
    /\ Requests \subseteq RequestType

ASSUME InitAssumption ==
    /\ InitBinaries \subseteq Contents
    /\ InitUnits \subseteq Contents
    /\ InitServices \subseteq ServiceType

\* App.Validate bounds KeepBackups; a transaction needs room for its snapshot.
ASSUME BoundsAssumption ==
    /\ KeepBackups \in Nat
    /\ MaxSnapshots \in Nat \ {0}
    /\ Events \subseteq EventKinds

VARIABLES
    lock,      \* the process that holds the flock on the lifecycle lock file
    pc,        \* the next step of each process
    req,       \* the operation each process runs
    tx,        \* the local variables of each process's transaction
    disk,      \* the contents of the managed paths and of the declared data
    manifest,  \* the install manifest
    service,   \* the service, as the service manager holds it
    backups,   \* the snapshot directories, oldest first
    sound,     \* history: no crash, drift or failed rollback since the last commit
    misread    \* history: an inspection of the service was wrong, and since then the
               \* service was not seen as it is and down

vars == <<lock, pc, req, tx, disk, manifest, service, backups, sound, misread>>

host == <<disk, manifest, service, backups, sound, misread>>

-----------------------------------------------------------------------------
(* The manifest and the locals of a transaction                            *)

\* There is no manifest file: ReadManifest answers ErrNotInstalled.
NotInstalled == [build |-> None, hash |-> None, service |-> FALSE]

ManifestType ==
    {NotInstalled} \cup
    [build : Builds, hash : Contents \ {None}, service : BOOLEAN]

Outcomes == {"none", "refused", "failed", "rolledback", "dirty",
             "done", "untidy"}

TxType ==
    [src     : Contents,        \* sourceHash
     was     : ManifestType,    \* the manifest read under the lock
     old     : Observations,    \* oldState, or state in removeLinux
     mutated : BOOLEAN,
     left    : SUBSET Items,    \* what Restore has still to handle
     clean   : BOOLEAN,         \* no rollback error so far
     outcome : Outcomes]

NoTx == [src |-> None, was |-> NotInstalled, old |-> NotObserved,
         mutated |-> FALSE, left |-> {}, clean |-> TRUE, outcome |-> "none"]

Installed == manifest # NotInstalled

\* The operation had an installation to start from.
HadInstall(p) == tx[p].was # NotInstalled

\* oldManager # "": the installation has a service.
OldService(p) == tx[p].was.service

\* newManager # "": the transaction leaves a service behind.
NewService(p) == req[p].op # "remove" /\ req[p].service

\* The snapshot of the running transaction is the newest directory.
Own == backups[Len(backups)]

\* Mutants of Covered.
Covered_NoBinary(p) ==
    (IF OldService(p) \/ NewService(p) THEN {"unit"} ELSE {})
        \cup (IF req[p].op # "remove" THEN {"data"} ELSE {})
Covered_AlwaysData(p) ==
    {"binary", "data"} \cup (IF OldService(p) \/ NewService(p) THEN {"unit"} ELSE {})
Covered_OldUnitOnly(p) ==
    {"binary"} \cup (IF OldService(p) THEN {"unit"} ELSE {})
               \cup (IF req[p].op # "remove" THEN {"data"} ELSE {})

(***************************************************************************)
(* The sources of the snapshot (transactionSnapshotSources): the binary,   *)
(* the definition of the old or of the new service, and, except in         *)
(* removeLinux, the declared backup targets.                               *)
(***************************************************************************)
Covered(p) ==
    {"binary"} \cup (IF OldService(p) \/ NewService(p) THEN {"unit"} ELSE {})
               \cup (IF req[p].op # "remove" THEN {"data"} ELSE {})

-----------------------------------------------------------------------------
(* Deciding what to do                                                     *)

\* Mutants of VersionAllowed and PathsFree.
VersionAllowed_AnyOrder(r) ==
    \/ VersionOf[r.build] = 0 \/ VersionOf[manifest.build] = 0
    \/ VersionOf[r.build] # VersionOf[manifest.build]
PathsFree_BinaryUnchecked(r) == r.service => disk["unit"] = None

(***************************************************************************)
(* DecideInstall for an installed application: versions are compared only  *)
(* when both are declared; the same version is ErrSameVersion and an older *)
(* one needs AllowDowngrade.                                               *)
(***************************************************************************)
VersionAllowed(r) ==
    \/ VersionOf[r.build] = 0 \/ VersionOf[manifest.build] = 0
    \/ VersionOf[r.build] > VersionOf[manifest.build]
    \/ VersionOf[r.build] < VersionOf[manifest.build] /\ r.downgrade

\* repairVersionMatches: an undeclared version only matches an undeclared one.
RepairVersionMatches(r) == VersionOf[r.build] = VersionOf[manifest.build]

\* ensureFreshPathsUnmanaged: nothing in the way of a fresh install.
PathsFree(r) ==
    /\ r.self \/ disk["binary"] = None
    /\ r.service => disk["unit"] = None

\* validateSourceBinary: only the installed binary can have gone missing here.
SourcePresent(r) == r.self => disk["binary"] # None

Admissible(r) ==
    CASE r.op = "remove"  -> Installed
      [] r.op = "repair"  -> /\ SourcePresent(r)
                             /\ Installed
                             /\ RepairVersionMatches(r)
      [] r.op = "install" -> /\ SourcePresent(r)
                             /\ IF Installed THEN VersionAllowed(r)
                                             ELSE PathsFree(r)

\* fileSHA256(paths.sourcePath), taken under the lock.
SourceHash(r) ==
    IF r.op = "remove" THEN None
    ELSE IF r.self THEN disk["binary"] ELSE r.build

-----------------------------------------------------------------------------
(* Steps                                                                   *)

Goto(p, step) == pc' = [pc EXCEPT ![p] = step]

Finish(p, outcome) ==
    /\ Goto(p, "unlock")
    /\ tx' = [tx EXCEPT ![p].outcome = outcome]

\* A call of the transaction, made at step, can fail.
MayFail(p, step) == pc[p] = step /\ "call" \in Events

(***************************************************************************)
(* rollbackLinux begins: with a new service it first asks for its state.   *)
(* It is only reached with mutated set.                                    *)
(***************************************************************************)
RollBack(p) ==
    /\ Goto(p, IF NewService(p) THEN "rbstop" ELSE "wipe")
    /\ tx' = [tx EXCEPT ![p].mutated = TRUE, ![p].left = Covered(p)]

\* The closure `fail': an error rolls back only what was marked as mutated.
Fail(p) == IF tx[p].mutated THEN RollBack(p) ELSE Finish(p, "failed")

-----------------------------------------------------------------------------
(* Entering an operation                                                   *)

Init ==
    /\ lock = None
    /\ pc = [p \in Procs |-> "idle"]
    /\ req = [p \in Procs |-> NoRequest]
    /\ tx = [p \in Procs |-> NoTx]
    /\ \E b \in InitBinaries, u \in InitUnits :
          disk = [binary |-> b, unit |-> u, data |-> None]
    /\ manifest = NotInstalled
    /\ service \in IF disk["unit"] = None THEN {NoService} ELSE InitServices
    /\ backups = <<>>
    /\ sound = TRUE
    /\ misread = FALSE

(***************************************************************************)
(* Runner.Execute up to the lock.  A process whose source binary is the    *)
(* installed one runs the build that was installed when it started.        *)
(***************************************************************************)
Begin(p) ==
    /\ pc[p] = "idle"
    /\ \E r \in Requests :
          /\ r.self => disk["binary"] = r.build
          /\ req' = [req EXCEPT ![p] = r]
    /\ Goto(p, "lock")
    /\ UNCHANGED <<lock, tx, host>>

\* Mutant of LockFree.
LockFree_Never(p) == TRUE

\* flock(LOCK_EX | LOCK_NB) succeeds.
LockFree(p) == lock = None

Acquire(p) ==
    /\ pc[p] = "lock"
    /\ LockFree(p)
    /\ lock' = p
    /\ Goto(p, "decide")
    /\ UNCHANGED <<req, tx, host>>

\* ErrOperationInProgress, or an error on the lock file: nothing is waited for.
TurnedAway(p) ==
    /\ pc[p] = "lock"
    /\ ~LockFree(p) \/ "call" \in Events
    /\ Goto(p, "idle")
    /\ req' = [req EXCEPT ![p] = NoRequest]
    /\ UNCHANGED <<lock, tx, host>>

\* The deferred lock.Close(), and the end of the process.
Unlock(p) ==
    /\ pc[p] = "unlock"
    /\ lock' = None
    /\ Goto(p, "idle")
    /\ req' = [req EXCEPT ![p] = NoRequest]
    /\ tx' = [tx EXCEPT ![p] = NoTx]
    /\ UNCHANGED host

\* What may be seen of the service; a question that fails is not noticed.
Seen == Inspections(service, disk["unit"], "probe" \in Events)

(***************************************************************************)
(* Everything read before the first change: the manifest, the decision,    *)
(* the hash of the source and the state of the installed service.          *)
(***************************************************************************)
Admit(p) ==
    LET r == req[p]
    IN  /\ pc[p] = "decide"
        /\ Admissible(r)
        /\ \E old \in IF manifest.service THEN Seen ELSE {NotObserved} :
              /\ tx' = [tx EXCEPT ![p].src = SourceHash(r),
                                  ![p].was = manifest,
                                  ![p].old = old]
              /\ Goto(p, IF old.running THEN "stop" ELSE "snapshot")
              /\ misread' = IF ~manifest.service THEN misread
                            ELSE IF Right(old, service) THEN misread /\ old.running
                            ELSE TRUE
        /\ UNCHANGED <<lock, req, disk, manifest, service, backups, sound>>

\* The operation is refused, or one of the reads fails.
Refuse(p) ==
    /\ pc[p] = "decide"
    /\ ~Admissible(req[p]) \/ "call" \in Events
    /\ Finish(p, "refused")
    /\ UNCHANGED <<lock, req, host>>

-----------------------------------------------------------------------------
(* Stop and snapshot                                                       *)

StopOld(p) ==
    /\ pc[p] = "stop"
    /\ service' = Stopped(service)
    /\ misread' = (misread /\ ~(tx[p].old.enabled <=> service.enabled))
    /\ Goto(p, "snapshot")
    /\ UNCHANGED <<lock, req, tx, disk, manifest, backups, sound>>

StopOldFails(p) ==
    /\ MayFail(p, "stop")
    /\ Finish(p, "failed")
    /\ UNCHANGED <<lock, req, host>>

\* os.MkdirTemp in the backup root.
OpenSnapshot(p) ==
    /\ pc[p] = "snapshot"
    /\ Len(backups) < MaxSnapshots
    /\ backups' = Opened(backups)
    /\ Goto(p, "archive")
    /\ UNCHANGED <<lock, req, tx, disk, manifest, service, sound, misread>>

\* After the snapshot: the hook of install and repair, the first step of remove.
AfterSnapshot(p) ==
    IF req[p].op # "remove" THEN (IF req[p].hook THEN "hook" ELSE "copy")
    ELSE IF tx[p].old.enabled THEN "disable"
    ELSE IF OldService(p) THEN "undefine" ELSE "rmbinary"

FillSnapshot(p) ==
    /\ pc[p] = "archive"
    /\ backups' = Filled(backups, [i \in Covered(p) |-> disk[i]])
    /\ Goto(p, AfterSnapshot(p))
    /\ UNCHANGED <<lock, req, tx, disk, manifest, service, sound, misread>>

\* A snapshot that failed: the service stopped for it is started again.
AfterFailedSnapshot(p) ==
    IF tx[p].old.running
    THEN Goto(p, "restart") /\ UNCHANGED tx
    ELSE Finish(p, "failed")

\* No directory: an error, or no room for another one.
OpenSnapshotFails(p) ==
    /\ pc[p] = "snapshot"
    /\ "call" \in Events \/ Len(backups) >= MaxSnapshots
    /\ AfterFailedSnapshot(p)
    /\ UNCHANGED <<lock, req, host>>

\* An item cannot be saved (or a required target is missing): the directory is
\* removed, or what is left of it stays behind.
FillSnapshotFails(p) ==
    /\ MayFail(p, "archive")
    /\ backups' \in {Discarded(backups), backups}
    /\ AfterFailedSnapshot(p)
    /\ UNCHANGED <<lock, req, disk, manifest, service, sound, misread>>

RestartOld(p) ==
    /\ pc[p] = "restart"
    /\ \/ /\ CanStart(service, disk["unit"], disk["binary"])
          /\ service' = Started(service, disk["binary"])
          /\ Finish(p, "failed")
       \/ /\ "call" \in Events \/ ~CanStart(service, disk["unit"], disk["binary"])
          /\ Finish(p, "dirty")
          /\ UNCHANGED service
    /\ UNCHANGED <<lock, req, disk, manifest, backups, sound, misread>>

-----------------------------------------------------------------------------
(* Install, upgrade and repair                                             *)

(***************************************************************************)
(* BeforeMutation creates or migrates the application's data.  mutated is  *)
(* set before the hook runs, so its failure rolls back.                    *)
(***************************************************************************)
Hook(p) ==
    /\ pc[p] = "hook"
    /\ disk' \in {disk, [disk EXCEPT !["data"] = req[p].build]}
    /\ tx' = [tx EXCEPT ![p].mutated = TRUE]
    /\ Goto(p, "copy")
    /\ UNCHANGED <<lock, req, manifest, service, backups, sound, misread>>

HookFails(p) ==
    /\ MayFail(p, "hook")
    /\ disk' \in {disk, [disk EXCEPT !["data"] = req[p].build]}
    /\ RollBack(p)
    /\ UNCHANGED <<lock, req, manifest, service, backups, sound, misread>>

(***************************************************************************)
(* copyFileAtomic: a rename publishes the staged copy; a binary that is    *)
(* its own source only has its mode set.  The source may change after it   *)
(* was hashed.                                                             *)
(***************************************************************************)
Copy(p) ==
    /\ pc[p] = "copy"
    /\ \E c \in {IF req[p].self THEN disk["binary"] ELSE req[p].build}
               \cup (IF "call" \in Events /\ ~req[p].self THEN {Corrupt} ELSE {}) :
          disk' = [disk EXCEPT !["binary"] = c]
    /\ tx' = [tx EXCEPT ![p].mutated = TRUE]
    /\ Goto(p, "verify")
    /\ UNCHANGED <<lock, req, manifest, service, backups, sound, misread>>

\* Mutant of WithNewService.
WithNewService_NotOnRepair(p) ==
    IF NewService(p) /\ req[p].op # "repair" THEN "define" ELSE "health"

\* The first step that deals with the new service.
WithNewService(p) == IF NewService(p) THEN "define" ELSE "health"

\* Mutant of AfterVerify.
AfterVerify_KeepsOldService(p) == WithNewService(p)

\* An old service that the application no longer has is removed.
AfterVerify(p) ==
    IF OldService(p) /\ ~NewService(p)
    THEN (IF tx[p].old.enabled THEN "disable" ELSE "undefine")
    ELSE WithNewService(p)

\* Mutant of HashesAgree.
HashesAgree_Unchecked(p) == TRUE

\* installedHash = sourceHash
HashesAgree(p) == disk["binary"] = tx[p].src

Verify(p) ==
    /\ pc[p] = "verify"
    /\ IF HashesAgree(p)
       THEN Goto(p, AfterVerify(p)) /\ UNCHANGED tx
       ELSE Fail(p)
    /\ UNCHANGED <<lock, req, host>>

\* installServiceDefinition: the file is written atomically.
Define(p) ==
    /\ pc[p] = "define"
    /\ disk' = [disk EXCEPT !["unit"] = req[p].build]
    /\ Goto(p, "load")
    /\ UNCHANGED <<lock, req, tx, manifest, service, backups, sound, misread>>

\* writeFileAtomic also fails after the rename, when the directory cannot be synced.
DefineFails(p) ==
    /\ MayFail(p, "define")
    /\ disk' \in {disk, [disk EXCEPT !["unit"] = req[p].build]}
    /\ Fail(p)
    /\ UNCHANGED <<lock, req, manifest, service, backups, sound, misread>>

\* daemon-reload after the definition was written.
Load(p) ==
    /\ pc[p] = "load"
    /\ Goto(p, IF req[p].auto \/ tx[p].old.enabled THEN "autostart" ELSE "start")
    /\ UNCHANGED <<lock, req, tx, host>>

SetAutostart(p) ==
    /\ pc[p] = "autostart"
    /\ service' = Autostart(service, req[p].auto)
    /\ Goto(p, "start")
    /\ UNCHANGED <<lock, req, tx, disk, manifest, backups, sound, misread>>

Start(p) ==
    /\ pc[p] = "start"
    /\ CanStart(service, disk["unit"], disk["binary"])
    /\ service' = Started(service, disk["binary"])
    /\ Goto(p, "health")
    /\ UNCHANGED <<lock, req, tx, disk, manifest, backups, sound, misread>>

StartFails(p) ==
    /\ pc[p] = "start"
    /\ "call" \in Events \/ ~CanStart(service, disk["unit"], disk["binary"])
    /\ Fail(p)
    /\ UNCHANGED <<lock, req, host>>

\* runHealthCheck reports success.
Healthy(p) ==
    /\ pc[p] = "health"
    /\ Goto(p, "commit")
    /\ UNCHANGED <<lock, req, tx, host>>

\* Mutant of NewManifest.
NewManifest_OldHash(p) ==
    [build |-> req[p].build, hash |-> tx[p].was.hash, service |-> NewService(p)]

\* BinarySHA256 is the installed hash, which Verify found equal to the source's.
NewManifest(p) ==
    [build |-> req[p].build, hash |-> tx[p].src, service |-> NewService(p)]

Commit(p) ==
    /\ pc[p] = "commit"
    /\ manifest' = NewManifest(p)
    /\ sound' = TRUE
    /\ Goto(p, "retain")
    /\ UNCHANGED <<lock, req, tx, disk, service, backups, misread>>

(***************************************************************************)
(* After the commit: the snapshot of a fresh install is removed, an error  *)
(* being ignored; otherwise the older snapshots are.                       *)
(***************************************************************************)
Retain(p) ==
    /\ pc[p] = "retain"
    /\ IF HadInstall(p)
       THEN backups' = Pruned(backups, EffectiveKeep(KeepBackups))
       ELSE \/ backups' = Discarded(backups)
            \/ /\ "call" \in Events
               /\ backups' = Damaged(backups, Len(backups))
    /\ Finish(p, "done")
    /\ UNCHANGED <<lock, req, disk, manifest, service, sound, misread>>

\* "installation succeeded but backup retention cleanup failed"
RetainFails(p) ==
    /\ MayFail(p, "retain")
    /\ HadInstall(p)
    /\ backups' \in {backups} \cup PrunedPartWay(backups, EffectiveKeep(KeepBackups))
    /\ Finish(p, "untidy")
    /\ UNCHANGED <<lock, req, disk, manifest, service, sound, misread>>

-----------------------------------------------------------------------------
(* Removing a service and the application                                  *)

\* Of an install that drops the service, and of remove.
Disable(p) ==
    /\ pc[p] = "disable"
    /\ service' = Autostart(service, FALSE)
    /\ Goto(p, "undefine")
    /\ UNCHANGED <<lock, req, tx, disk, manifest, backups, sound, misread>>

Undefine(p) ==
    /\ pc[p] = "undefine"
    /\ disk' = [disk EXCEPT !["unit"] = None]
    /\ tx' = [tx EXCEPT ![p].mutated = TRUE]
    /\ Goto(p, "unload")
    /\ UNCHANGED <<lock, req, manifest, service, backups, sound, misread>>

\* removeLinux has set mutated just before, install and repair long before.
UndefineFails(p) ==
    /\ MayFail(p, "undefine")
    /\ RollBack(p)
    /\ UNCHANGED <<lock, req, host>>

\* daemon-reload after the definition was removed.
Unload(p) ==
    /\ pc[p] = "unload"
    /\ Goto(p, IF req[p].op = "remove" THEN "rmbinary" ELSE WithNewService(p))
    /\ UNCHANGED <<lock, req, tx, host>>

RemoveBinary(p) ==
    /\ pc[p] = "rmbinary"
    /\ disk' = [disk EXCEPT !["binary"] = None]
    /\ tx' = [tx EXCEPT ![p].mutated = TRUE]
    /\ Goto(p, "rmmanifest")
    /\ UNCHANGED <<lock, req, manifest, service, backups, sound, misread>>

RemoveManifest(p) ==
    /\ pc[p] = "rmmanifest"
    /\ manifest' = NotInstalled
    /\ sound' = TRUE
    /\ Goto(p, "retain")
    /\ UNCHANGED <<lock, req, tx, disk, service, backups, misread>>

(***************************************************************************)
(* The calls whose failure leaves the host as it was.                      *)
(***************************************************************************)
PlainCalls == {"copy", "verify", "load", "autostart", "health", "commit",
               "disable", "unload", "rmbinary", "rmmanifest"}

CallFails(p) ==
    /\ \E step \in PlainCalls : MayFail(p, step)
    /\ Fail(p)
    /\ UNCHANGED <<lock, req, host>>

-----------------------------------------------------------------------------
(* Rollback: every call that fails is noted and the rollback goes on       *)

RollbackMayFail(p, step) == pc[p] = step /\ "rollback" \in Events

\* The old service is put back in its place when its definition existed.
AfterReload(p) == OldService(p) /\ tx[p].old.defined

\* The end of a rollback.  A failed one leaves the host in doubt.
Close(p, clean) ==
    /\ Goto(p, "unlock")
    /\ tx' = [tx EXCEPT ![p].clean = clean,
                        ![p].left = {},
                        ![p].outcome = IF clean THEN "rolledback" ELSE "dirty"]
    /\ sound' = (sound /\ clean)

\* The next step, or the end, after a call that did (ok) or did not succeed.
Onward(p, ok, more, step) ==
    IF more
    THEN /\ Goto(p, step)
         /\ tx' = [tx EXCEPT ![p].clean = tx[p].clean /\ ok]
         /\ UNCHANGED sound
    ELSE Close(p, tx[p].clean /\ ok)

\* Mutant of StopInRollback.
StopInRollback_Skipped(seen) == FALSE

StopInRollback(seen) == seen.running

\* inspectServiceLinux of the new service; one that is seen running is stopped.
RbStop(p) ==
    /\ pc[p] = "rbstop"
    /\ \E seen \in Seen, ok \in BOOLEAN :
          /\ ok \/ (seen.running /\ "rollback" \in Events)
          /\ service' = IF ok /\ StopInRollback(seen) THEN Stopped(service) ELSE service
          /\ tx' = [tx EXCEPT ![p].clean = tx[p].clean /\ ok]
          /\ Goto(p, IF seen.enabled THEN "rbdisable" ELSE "wipe")
          /\ misread' = (misread \/ ~Right(seen, service))
    /\ UNCHANGED <<lock, req, disk, manifest, backups, sound>>

\* The inspection itself fails: the new service is left alone.
RbInspectFails(p) ==
    /\ RollbackMayFail(p, "rbstop")
    /\ tx' = [tx EXCEPT ![p].clean = FALSE]
    /\ Goto(p, "wipe")
    /\ UNCHANGED <<lock, req, host>>

RbDisable(p) ==
    /\ pc[p] = "rbdisable"
    /\ \/ /\ service' = Autostart(service, FALSE)
          /\ UNCHANGED tx
       \/ /\ "rollback" \in Events
          /\ tx' = [tx EXCEPT ![p].clean = FALSE]
          /\ UNCHANGED service
    /\ Goto(p, "wipe")
    /\ UNCHANGED <<lock, req, disk, manifest, backups, sound, misread>>

\* Mutant of Remaining.
Remaining_Retried(p, item, ok) == IF ok THEN tx[p].left \ {item} ELSE tx[p].left

\* Restore tries every entry once, whether or not it succeeds.
Remaining(p, item, ok) == tx[p].left \ {item}

\* Restore is through with item: the next one, or the reload that follows.
ItemDone(p, item, ok) ==
    LET left == Remaining(p, item, ok)
    IN  IF left # {}
        THEN /\ Goto(p, "wipe")
             /\ tx' = [tx EXCEPT ![p].left = left, ![p].clean = tx[p].clean /\ ok]
             /\ UNCHANGED sound
        ELSE IF OldService(p) \/ NewService(p)
        THEN /\ Goto(p, "reload")
             /\ tx' = [tx EXCEPT ![p].left = {}, ![p].clean = tx[p].clean /\ ok]
             /\ UNCHANGED sound
        ELSE Close(p, tx[p].clean /\ ok)

(***************************************************************************)
(* restorePath: os.RemoveAll of the path, then a plain copy of what the    *)
(* snapshot holds, if the path existed.                                    *)
(***************************************************************************)
Wipe(p) ==
    LET item == LastOf(tx[p].left)
    IN  /\ pc[p] = "wipe"
        /\ disk' = [disk EXCEPT ![item] = None]
        /\ IF Own.image[item] # None
           THEN Goto(p, "refill") /\ UNCHANGED <<tx, sound>>
           ELSE ItemDone(p, item, TRUE)
        /\ UNCHANGED <<lock, req, manifest, service, backups, misread>>

\* os.RemoveAll that fails or is cut short: a file is there or gone, of a directory
\* part may be left.
WipedPartWay(item) ==
    {disk} \cup IF item = "data" /\ disk["data"] # None
               THEN {[disk EXCEPT !["data"] = Corrupt]} ELSE {}

WipeFails(p) ==
    LET item == LastOf(tx[p].left)
    IN  /\ RollbackMayFail(p, "wipe")
        /\ disk' \in WipedPartWay(item)
        /\ ItemDone(p, item, FALSE)
        /\ UNCHANGED <<lock, req, manifest, service, backups, misread>>

Refill(p) ==
    LET item == LastOf(tx[p].left)
    IN  /\ pc[p] = "refill"
        /\ disk' = [disk EXCEPT ![item] = Own.image[item]]
        /\ ItemDone(p, item, TRUE)
        /\ UNCHANGED <<lock, req, manifest, service, backups, misread>>

\* A file that could not be copied is removed again; a directory stays half copied.
RefillFails(p) ==
    LET item == LastOf(tx[p].left)
    IN  /\ RollbackMayFail(p, "refill")
        /\ disk' \in {disk, [disk EXCEPT ![item] = IF item = "data" THEN Corrupt ELSE None]}
        /\ ItemDone(p, item, FALSE)
        /\ UNCHANGED <<lock, req, manifest, service, backups, misread>>

\* reloadServiceManagerLinux for the old and the new manager.
RbReload(p) ==
    /\ pc[p] = "reload"
    /\ \E ok \in BOOLEAN :
          /\ ok \/ "rollback" \in Events
          /\ Onward(p, ok, AfterReload(p), "reenable")
    /\ UNCHANGED <<lock, req, disk, manifest, service, backups, misread>>

\* The old service is enabled, or disabled, as it was; there must be a definition.
RbEnable(p) ==
    /\ pc[p] = "reenable"
    /\ \E ok \in BOOLEAN :
          /\ ok \/ "rollback" \in Events \/ disk["unit"] = None
          /\ ok => disk["unit"] # None
          /\ service' = IF ok THEN Autostart(service, tx[p].old.enabled) ELSE service
          /\ Onward(p, ok, tx[p].old.running, "resume")
    /\ UNCHANGED <<lock, req, disk, manifest, backups, misread>>

\* The old service is started again if it was running.
RbStart(p) ==
    /\ pc[p] = "resume"
    /\ \E ok \in BOOLEAN :
          /\ ok \/ "rollback" \in Events \/ ~CanStart(service, disk["unit"], disk["binary"])
          /\ ok => CanStart(service, disk["unit"], disk["binary"])
          /\ service' = IF ok THEN Started(service, disk["binary"]) ELSE service
          /\ Close(p, tx[p].clean /\ ok)
    /\ UNCHANGED <<lock, req, disk, manifest, backups, misread>>

-----------------------------------------------------------------------------
(* What happens around SvcForge                                            *)

\* The steps at which the host has been changed and the change is not decided.
Undecided(p) == tx[p].mutated /\ pc[p] \notin {"retain", "unlock"}

(***************************************************************************)
(* The process dies: the kernel releases its flock, and what it was        *)
(* writing stays as it is.                                                 *)
(***************************************************************************)
Crash(p) ==
    LET item == LastOf(tx[p].left)
    IN  /\ "crash" \in Events
        /\ pc[p] # "idle"
        /\ CASE pc[p] = "wipe"   -> disk' \in WipedPartWay(item)
             [] pc[p] = "refill" -> disk' \in {disk, [disk EXCEPT ![item] = Corrupt]}
             [] OTHER            -> UNCHANGED disk
        /\ IF pc[p] = "retain"
           THEN backups' \in {backups} \cup
                    IF HadInstall(p)
                    THEN PrunedPartWay(backups, EffectiveKeep(KeepBackups))
                    ELSE {Damaged(backups, Len(backups))}
           ELSE UNCHANGED backups
        /\ lock' = IF lock = p THEN None ELSE lock
        /\ pc' = [pc EXCEPT ![p] = "idle"]
        /\ req' = [req EXCEPT ![p] = NoRequest]
        /\ tx' = [tx EXCEPT ![p] = NoTx]
        /\ sound' = (sound /\ ~Undecided(p))
        /\ UNCHANGED <<manifest, service, misread>>

\* The running application writes its data.
ServiceWrites ==
    /\ "write" \in Events
    /\ service.state = "active"
    /\ service.image # Foreign
    /\ disk' = [disk EXCEPT !["data"] = service.image]
    /\ UNCHANGED <<lock, pc, req, tx, manifest, service, backups, sound, misread>>

\* The service process ends by itself; whether it is restarted depends on how it ended.
ServiceExits ==
    /\ "exit" \in Events
    /\ service.state = "active"
    /\ \E again \in {FALSE} \cup (IF "restart" \in Events THEN {TRUE} ELSE {}) :
          service' = Exited(service, again)
    /\ UNCHANGED <<lock, pc, req, tx, disk, manifest, backups, sound, misread>>

\* What the manager runs: a definition of somebody else names a program of its own.
Program == IF disk["unit"] = Foreign THEN Foreign ELSE disk["binary"]

\* The manager's restart delay is over.
ServiceRestarts ==
    /\ service.state = "activating"
    /\ CanStart(service, disk["unit"], Program)
    /\ service' = Restarted(service, Program)
    /\ UNCHANGED <<lock, pc, req, tx, disk, manifest, backups, sound, misread>>

\* Somebody alters or deletes an installed file while no operation runs.
Drift ==
    /\ "drift" \in Events
    /\ lock = None
    /\ Installed
    /\ \E item \in {"binary", "unit"} :
          /\ disk[item] # None
          /\ disk' \in {[disk EXCEPT ![item] = None], [disk EXCEPT ![item] = Corrupt]}
    /\ sound' = FALSE
    /\ UNCHANGED <<lock, pc, req, tx, manifest, service, backups, misread>>

-----------------------------------------------------------------------------

\* Entering and leaving an operation.
Enter(p) == Acquire(p) \/ TurnedAway(p) \/ Admit(p) \/ Refuse(p) \/ Unlock(p)

\* Stop -> snapshot.
Prepare(p) ==
    \/ StopOld(p) \/ StopOldFails(p)
    \/ OpenSnapshot(p) \/ OpenSnapshotFails(p)
    \/ FillSnapshot(p) \/ FillSnapshotFails(p)
    \/ RestartOld(p)

\* Atomic mutation -> service start -> health check -> manifest commit.
Mutate(p) ==
    \/ Hook(p) \/ HookFails(p) \/ Copy(p) \/ Verify(p)
    \/ Define(p) \/ DefineFails(p) \/ Load(p) \/ SetAutostart(p)
    \/ Start(p) \/ StartFails(p) \/ Healthy(p) \/ Commit(p)
    \/ Disable(p) \/ Undefine(p) \/ UndefineFails(p) \/ Unload(p)
    \/ RemoveBinary(p) \/ RemoveManifest(p)
    \/ CallFails(p)
    \/ Retain(p) \/ RetainFails(p)

UndoStep(p) ==
    \/ RbStop(p) \/ RbInspectFails(p) \/ RbDisable(p)
    \/ Wipe(p) \/ WipeFails(p) \/ Refill(p) \/ RefillFails(p)
    \/ RbReload(p) \/ RbEnable(p) \/ RbStart(p)

\* A step of an operation under way.
Step(p) == Enter(p) \/ Prepare(p) \/ Mutate(p) \/ UndoStep(p)

Environment == ServiceWrites \/ ServiceExits \/ ServiceRestarts \/ Drift

Next ==
    \/ \E p \in Procs : Begin(p) \/ Step(p) \/ Crash(p)
    \/ Environment

Spec == Init /\ [][Next]_vars

\* A process that runs keeps running: every step of an operation returns.
FairSpec == Spec /\ \A p \in Procs : WF_vars(Step(p))

-----------------------------------------------------------------------------
(* Properties                                                              *)

SnapshotType ==
    [complete : BOOLEAN, image : UNION {[S -> Contents] : S \in SUBSET Items}]

Steps == {"idle", "lock", "decide", "stop", "snapshot", "archive", "restart",
          "hook", "copy", "verify", "define", "load", "autostart", "start",
          "health", "commit", "retain", "disable", "undefine", "unload",
          "rmbinary", "rmmanifest", "rbstop", "rbdisable", "wipe", "refill",
          "reload", "reenable", "resume", "unlock"}

\* Every variable has its type.
TypeOK ==
    /\ lock \in Procs \cup {None}
    /\ pc \in [Procs -> Steps]
    /\ req \in [Procs -> Requests \cup {NoRequest}]
    /\ tx \in [Procs -> TxType]
    /\ disk \in [Items -> Contents]
    /\ manifest \in ManifestType
    /\ service \in ServiceType
    /\ backups \in Seq(SnapshotType)
    /\ sound \in BOOLEAN
    /\ misread \in BOOLEAN

(***************************************************************************)
(* Whoever is past the lock holds it, whatever crashed before: no two      *)
(* transactions ever overlap (lock_linux.go, executePlatform).             *)
(***************************************************************************)
MutualExclusion == \A p \in Procs : pc[p] \notin {"idle", "lock"} => lock = p

\* Some usable snapshot holds these contents for the binary.
Saved(c) == \E i \in DOMAIN backups :
               /\ backups[i].complete
               /\ "binary" \in DOMAIN backups[i].image
               /\ backups[i].image["binary"] = c

(***************************************************************************)
(* The binary the manifest vouches for is never lost: at every moment, in  *)
(* the middle of a replacement, after a crash and after a rollback that    *)
(* failed half way, it is installed or in a usable snapshot.  The snapshot *)
(* comes before the first change and retention after the commit.           *)
(***************************************************************************)
RecoverableBinary ==
    Installed => disk["binary"] = manifest.hash \/ Saved(manifest.hash)

(***************************************************************************)
(* Between operations the host is what the manifest says: the binary has   *)
(* the recorded hash and the definition of a recorded service is the one   *)
(* of the recorded version.  A crash or a failed rollback may break this;  *)
(* the next operation that commits restores it.                            *)
(***************************************************************************)
Coherent ==
    sound /\ lock = None /\ Installed =>
        /\ disk["binary"] = manifest.hash
        /\ manifest.service => disk["unit"] = manifest.build

(***************************************************************************)
(* While every rollback succeeds, operations leave nothing behind that the *)
(* manifest does not account for: no binary and no definition of ours, and,*)
(* unless the service manager has misled them, no autostart entry without a*)
(* definition and no process of a removed build, not even one that waits   *)
(* for its restart.                                                        *)
(***************************************************************************)
NoResidue ==
    lock = None =>
        /\ ~Installed => disk["binary"] \in {None, Foreign}
        /\ ~manifest.service =>
              /\ disk["unit"] \in {None, Foreign}
              /\ ~misread =>
                    /\ disk["unit"] = None => ~service.enabled /\ ~Alive(service)
                    /\ service.state = "active" => service.image = Foreign

\* The process the manager runs is the installed binary, not the one before it, unless
\* the manager did not say that one was running.
RunsWhatIsInstalled ==
    sound /\ ~misread /\ lock = None /\ service.state = "active" /\ service.image # Foreign
        => service.image = disk["binary"]

\* The old service is enabled as it was and, if it was running, was started again;
\* a service the transaction added is gone.
ServiceAsBefore(p) ==
    IF OldService(p) /\ tx[p].old.defined
    THEN /\ service.enabled = tx[p].old.enabled
         /\ tx[p].old.running => service.state # "inactive"
         /\ ~tx[p].old.running => ~Alive(service)
    ELSE NewService(p) => ~service.enabled /\ ~Alive(service)

\* The files are those of the snapshot and the manifest never changed.
FilesAsBefore(p) ==
    /\ \A i \in Covered(p) \ {"data"} : disk[i] = Own.image[i]
    /\ manifest = tx[p].was

\* So is the data, unless the service that runs again has written it; the service is
\* enabled and running as before, from the binary that is back.
HostAsBefore(p) ==
    /\ "data" \in Covered(p) =>
           disk["data"] \in {Own.image["data"], Own.image["binary"]}
    /\ ServiceAsBefore(p)
    /\ "unit" \in Covered(p) /\ service.state = "active"
           => service.image = disk["binary"]

RolledBack(p) == pc[p] = "unlock" /\ tx[p].outcome = "rolledback"

(***************************************************************************)
(* A rollback that reports no error has undone the transaction: binary,    *)
(* definition and manifest are as before whatever else went wrong, and data*)
(* and service too unless the manager gave a wrong answer about the        *)
(* service, by a question that failed or because it was about to restart   *)
(* it.                                                                     *)
(***************************************************************************)
RollbackRestores ==
    \A p \in Procs : RolledBack(p) =>
        FilesAsBefore(p) /\ (~misread => HostAsBefore(p))

\* What the documents promise of a rollback without an error (the code keeps it only
\* while the manager's answers are right).
RollbackIsComplete ==
    \A p \in Procs : RolledBack(p) => FilesAsBefore(p) /\ HostAsBefore(p)

(***************************************************************************)
(* A successful upgrade, repair or remove leaves a usable snapshot of the  *)
(* version it replaced, and no more snapshots than the policy keeps.       *)
(***************************************************************************)
Retention ==
    \A p \in Procs :
        pc[p] = "unlock" /\ tx[p].outcome = "done" /\ HadInstall(p) =>
            /\ Saved(tx[p].was.hash)
            /\ Len(backups) <= EffectiveKeep(KeepBackups)

(***************************************************************************)
(* Whatever crashed or failed before, an operation that commits while the  *)
(* installation is not in doubt has the binary it replaces in its own      *)
(* snapshot, and retention, finished, failed or cut short by the end of    *)
(* the process, spares that snapshot.                                      *)
(***************************************************************************)
ReplacedIsKept ==
    [][\A p \in Procs : HadInstall(p) =>
          /\ pc[p] # "retain" /\ pc'[p] = "retain" /\ sound
                => Own.complete /\ Own.image["binary"] = tx[p].was.hash
          /\ pc[p] = "retain" /\ pc'[p] # "retain"
                => \E i \in DOMAIN backups' : backups'[i] = Own]_vars

(***************************************************************************)
(* As long as the application is not installed, a binary or a definition   *)
(* SvcForge did not write is never changed, not even by a rollback.        *)
(***************************************************************************)
UnmanagedPreserved ==
    [][\A i \in {"binary", "unit"} :
          ~Installed /\ disk[i] = Foreign => disk'[i] = Foreign]_vars

(***************************************************************************)
(* The installed version never goes back unless the process that commits   *)
(* was allowed to downgrade, whatever was installed since it was started.  *)
(***************************************************************************)
NoSilentDowngrade ==
    [][Installed /\ manifest' # NotInstalled
       /\ VersionOf[manifest'.build] # 0
       /\ VersionOf[manifest'.build] < VersionOf[manifest.build]
          => \E p \in Procs : lock = p /\ req[p].downgrade]_vars

(***************************************************************************)
(* A remove, finished, failed or rolled back, never touches the data of    *)
(* the application.                                                        *)
(***************************************************************************)
RemoveKeepsData ==
    [][\A p \in Procs :
          lock = p /\ req[p].op = "remove" /\ disk' # disk
              => \/ disk'["data"] = disk["data"]
                 \/ service.state = "active" /\ disk'["data"] = service.image]_vars

\* A service stopped for an operation that changed nothing is running again (the code
\* keeps this only for a snapshot that fails).
StoppedServiceReturns ==
    \A p \in Procs :
        pc[p] = "unlock" /\ tx[p].outcome = "failed" /\ tx[p].old.running
            => service.state # "inactive"

\* Every operation ends: it is turned away, refused, or runs to its unlock.
Termination == \A p \in Procs : pc[p] # "idle" ~> pc[p] = "idle"

=============================================================================
