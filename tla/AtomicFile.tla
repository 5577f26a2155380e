----------------------------- MODULE AtomicFile -----------------------------
(***************************************************************************)
(* How SvcForge writes a file: writeFileAtomic (service definitions,       *)
(* snapshot metadata), WriteManifest and copyFileAtomic (the binary) write *)
(* a temporary file beside the target, sync it and rename it.  They differ *)
(* in the end: the first syncs the directory and reports an error of that, *)
(* the second ignores it, the third does not sync the directory.           *)
(*                                                                         *)
(* Calls may fail, processes die and the power go.  What a power loss does *)
(* is the promise of a POSIX file system and no more: of a file that was   *)
(* not synced anything may be left, and a directory that was not synced    *)
(* may hold any entry it had since it was.                                 *)
(***************************************************************************)
CONSTANTS
    Writers,   \* calls; each writes one file, which bears its name here
    Original,  \* the file that was there before
    Torn,      \* contents nobody wrote
    Paths,     \* the files written
    DirSync    \* how the function that writes a path ends

DirSyncKinds == {"reported", "ignored", "none"}

Files == Writers \cup {Original}

ASSUME FilesAssumption == Original \notin Writers /\ Torn \notin Files

ASSUME DirSyncAssumption == DirSync \in [Paths -> DirSyncKinds]

VARIABLES
    pc,        \* the next step of each call, or how it ended
    target,    \* the path it writes
    whole,     \* the files that hold all that was written to them
    synced,    \* the files whose contents are on disk
    entry,     \* the file each path names
    onDisk,    \* the files that the directory on disk may name for it
    older      \* history: for a call that has renamed, the former onDisk

vars == <<pc, target, whole, synced, entry, onDisk, older>>

Init ==
    /\ pc = [w \in Writers |-> "idle"]
    /\ target \in [Writers -> Paths]
    /\ whole = {Original}
    /\ synced = {Original}
    /\ entry = [p \in Paths |-> Original]
    /\ onDisk = [p \in Paths |-> {Original}]
    /\ older = [w \in Writers |-> {}]

Goto(w, step) == pc' = [pc EXCEPT ![w] = step]

\* os.CreateTemp: a name of its own, that no other call uses.
Create(w) ==
    /\ pc[w] = "idle"
    /\ Goto(w, "write")
    /\ UNCHANGED <<target, whole, synced, entry, onDisk, older>>

Write(w) ==
    /\ pc[w] = "write"
    /\ whole' = whole \cup {w}
    /\ Goto(w, "sync")
    /\ UNCHANGED <<target, synced, entry, onDisk, older>>

\* Mutant of Synced.
Synced_NotAtAll(w) == synced

\* tmp.Sync
Synced(w) == synced \cup {w}

Sync(w) ==
    /\ pc[w] = "sync"
    /\ synced' = Synced(w)
    /\ Goto(w, "rename")
    /\ UNCHANGED <<target, whole, entry, onDisk, older>>

Rename(w) ==
    LET path == target[w]
    IN  /\ pc[w] = "rename"
        /\ entry' = [entry EXCEPT ![path] = w]
        /\ onDisk' = [onDisk EXCEPT ![path] = @ \cup {w}]
        /\ older' = [older EXCEPT ![w] = onDisk[path]]
        /\ Goto(w, IF DirSync[path] = "none" THEN "ok" ELSE "syncdir")
        /\ UNCHANGED <<target, whole, synced>>

SyncDirectory(w) ==
    /\ pc[w] = "syncdir"
    /\ onDisk' = [onDisk EXCEPT ![target[w]] = {entry[target[w]]}]
    /\ Goto(w, "ok")
    /\ UNCHANGED <<target, whole, synced, entry, older>>

\* Mutant of AfterFailedSync.
AfterFailedSync_Ignored(w) == "ok"

\* The error of syncDirectory is returned; that of WriteManifest is not.
AfterFailedSync(w) == IF DirSync[target[w]] = "reported" THEN "failed" ELSE "ok"

SyncDirectoryFails(w) ==
    /\ pc[w] = "syncdir"
    /\ Goto(w, AfterFailedSync(w))
    /\ UNCHANGED <<target, whole, synced, entry, onDisk, older>>

\* Until the rename an error removes the temporary file, and that is all.
Fails(w) ==
    /\ pc[w] \in {"idle", "write", "sync", "rename"}
    /\ Goto(w, "failed")
    /\ UNCHANGED <<target, whole, synced, entry, onDisk, older>>

UnderWay(w) == pc[w] \notin {"idle", "ok", "failed", "died"}

ProcessDies(w) ==
    /\ UnderWay(w)
    /\ Goto(w, "died")
    /\ UNCHANGED <<target, whole, synced, entry, onDisk, older>>

\* The file system writes the directory back on its own.
WriteBack(path) ==
    /\ onDisk' = [onDisk EXCEPT ![path] = {entry[path]}]
    /\ UNCHANGED <<pc, target, whole, synced, entry, older>>

PowerLoss ==
    /\ pc' = [w \in Writers |-> IF UnderWay(w) THEN "died" ELSE pc[w]]
    /\ entry' \in [Paths -> Files]
    /\ \A path \in Paths : entry'[path] \in onDisk[path]
    /\ onDisk' = [path \in Paths |-> {entry'[path]}]
    /\ whole' \in SUBSET whole
    /\ whole \cap synced \subseteq whole'
    /\ UNCHANGED <<target, synced, older>>

Step(w) ==
    \/ Create(w) \/ Write(w) \/ Sync(w) \/ Rename(w)
    \/ SyncDirectory(w) \/ SyncDirectoryFails(w) \/ Fails(w)

Next ==
    \/ \E w \in Writers : Step(w) \/ ProcessDies(w)
    \/ \E path \in Paths : WriteBack(path)
    \/ PowerLoss

Spec == Init /\ [][Next]_vars

-----------------------------------------------------------------------------

TypeOK ==
    /\ pc \in [Writers -> {"idle", "write", "sync", "rename", "syncdir",
                           "ok", "failed", "died"}]
    /\ target \in [Writers -> Paths]
    /\ whole \subseteq Files
    /\ synced \subseteq Files
    /\ entry \in [Paths -> Files]
    /\ onDisk \in [Paths -> SUBSET Files]
    /\ older \in [Writers -> SUBSET Files]

\* What a reader gets of a file.
Contents(file) == IF file \in whole THEN file ELSE Torn

R == INSTANCE Register WITH
        Values <- Files,
        value <- [path \in Paths |-> Contents(entry[path])],
        survives <- [path \in Paths |-> {Contents(file) : file \in onDisk[path]}]

(***************************************************************************)
(* Every path is a register: whatever fails, dies or loses power, and      *)
(* however many calls write at once, a reader of binary, definition or     *)
(* manifest finds what one call wrote, whole.                              *)
(***************************************************************************)
NeverTorn == R!Spec

(***************************************************************************)
(* A write that writeFileAtomic reported as done stays done: no power loss *)
(* brings back what was there before it.                                   *)
(***************************************************************************)
DurableWhenReported ==
    \A w \in Writers :
        pc[w] = "ok" /\ DirSync[target[w]] = "reported"
            => older[w] \cap onDisk[target[w]] = {}

=============================================================================
