------------------------------ MODULE Retention ------------------------------
(***************************************************************************)
(* Retention by the clock.  pruneBackups orders the snapshot directories   *)
(* by modification time, which the file system keeps in coarse units, and  *)
(* then by name, which begins with the time of creation; WriteManifest     *)
(* refuses times that go backwards.  Snapshots takes the first for the     *)
(* order of age and Lifecycle leaves the second out: here is the clock,    *)
(* which may be set back.                                                  *)
(***************************************************************************)
EXTENDS Integers, FiniteSets

CONSTANTS
    Keep,     \* App.Upgrade.KeepBackups
    Unit,     \* the unit of modification times
    MaxTime,  \* the clock stops there (a bound of the model)
    MaxDirs   \* directories made in all (a bound of the model)

ASSUME ConstantsAssumption ==
    /\ Keep \in Nat /\ MaxTime \in Nat /\ MaxDirs \in Nat
    /\ Unit \in Nat \ {0}

VARIABLES
    now,       \* the clock of the host
    turned,    \* history: it was set back
    pc,        \* the next step of the operation under way
    dirs,      \* the snapshot directories
    made,      \* how many were made so far; the last one is the operation's own
    manifest,  \* the times in the manifest
    outcome    \* how the last operation ended

vars == <<now, turned, pc, dirs, made, manifest, outcome>>

NotInstalled == [installed |-> 0, updated |-> 0]

Installed == manifest # NotInstalled

Init ==
    /\ now = 1 /\ turned = FALSE
    /\ pc = "idle" /\ outcome = "none"
    /\ dirs = {} /\ made = 0
    /\ manifest = NotInstalled

\* Creating or deleting an entry of a directory sets its modification time.
Touched(dir, whole) == [dir EXCEPT !.mtime = now \div Unit, !.whole = whole]

Own == CHOOSE dir \in dirs : dir.id = made

Others == {dir \in dirs : dir.id # made}

End(how) == pc' = "idle" /\ outcome' = how

\* os.MkdirTemp, named after the time.  Time passes: no two have the same name.
Open ==
    /\ pc = "idle"
    /\ made < MaxDirs /\ now < MaxTime
    /\ made' = made + 1
    /\ dirs' = dirs \cup {Touched([id |-> made + 1, born |-> now, mtime |-> 0, whole |-> FALSE],
                                  FALSE)}
    /\ now' = now + 1
    /\ pc' = "fill"
    /\ outcome' = "none"
    /\ UNCHANGED <<turned, manifest>>

Fill ==
    /\ pc = "fill"
    /\ dirs' = Others \cup {Touched(Own, TRUE)}
    /\ pc' = "work"
    /\ UNCHANGED <<now, turned, made, manifest, outcome>>

\* What was copied is removed, or part of it stays.
FillFails ==
    /\ pc = "fill"
    /\ dirs' \in {Others, dirs, Others \cup {Touched(Own, FALSE)}}
    /\ End("failed")
    /\ UNCHANGED <<now, turned, made, manifest>>

\* The operation fails and rolls back, or dies: the directories stay.
WorkFails ==
    /\ pc \in {"work", "prune"}
    /\ End("failed")
    /\ UNCHANGED <<now, turned, made, dirs, manifest>>

Times == [installed |-> IF Installed THEN manifest.installed ELSE now, updated |-> now]

\* Manifest.Validate, before it is written; a refusal is a failed operation.
Accepted(times) == times.updated >= times.installed

\* A fresh install removes its own directory, as well as it can.
Commit ==
    /\ pc = "work"
    /\ Accepted(Times)
    /\ manifest' = Times
    /\ IF Installed
       THEN pc' = "prune" /\ UNCHANGED <<dirs, outcome>>
       ELSE dirs' \in {Others, Others \cup {Touched(Own, FALSE)}} /\ End("installed")
    /\ UNCHANGED <<now, turned, made>>

Remove ==
    /\ pc = "work" /\ Installed
    /\ manifest' = NotInstalled
    /\ pc' = "prune"
    /\ UNCHANGED <<now, turned, made, dirs, outcome>>

\* Mutant of Before.
Before_OldestName(a, b) == a.mtime > b.mtime \/ (a.mtime = b.mtime /\ a.born < b.born)

\* The order of sort.Slice: the newest first.
Before(a, b) == a.mtime > b.mtime \/ (a.mtime = b.mtime /\ a.born > b.born)

\* The first of them, count in number; those made at the same time come in any order.
Leading(some, count) ==
    {lead \in SUBSET some :
        Cardinality(lead) = count /\ \A a \in lead, b \in some \ lead : ~Before(b, a)}

Kept == IF Keep = 0 THEN 3 ELSE Keep

Prune ==
    /\ pc = "prune"
    /\ IF Cardinality(dirs) <= Kept THEN UNCHANGED dirs ELSE dirs' \in Leading(dirs, Kept)
    /\ End("done")
    /\ UNCHANGED <<now, turned, made, manifest>>

\* Some of the doomed are gone, the next one is whole or not.
PruneFails ==
    /\ pc = "prune"
    /\ Cardinality(dirs) > Kept
    /\ \E kept \in Leading(dirs, Kept) :
          \E gone \in 0 .. Cardinality(dirs \ kept) - 1 :
             \E first \in Leading(dirs \ kept, gone) :
                \E cut \in dirs \ (kept \cup first) :
                   /\ {cut} \in Leading(dirs \ (kept \cup first), 1)
                   /\ dirs' = (dirs \ (first \cup {cut})) \cup {Touched(cut, FALSE)}
    /\ End("untidy")
    /\ UNCHANGED <<now, turned, made, manifest>>

Tick ==
    /\ now < MaxTime
    /\ now' = now + 1
    /\ UNCHANGED <<turned, pc, dirs, made, manifest, outcome>>

SetBack ==
    /\ now' \in 1 .. now - 1
    /\ turned' = TRUE
    /\ UNCHANGED <<pc, dirs, made, manifest, outcome>>

Next ==
    \/ Open \/ Fill \/ FillFails \/ WorkFails \/ Commit \/ Remove
    \/ Prune \/ PruneFails \/ Tick \/ SetBack

Spec == Init /\ [][Next]_vars

-----------------------------------------------------------------------------

(***************************************************************************)
(* While the clock only goes forward, retention after an upgrade, repair   *)
(* or remove keeps the snapshot taken for it, whole, whatever was left of  *)
(* earlier ones and however coarse modification times are.                 *)
(***************************************************************************)
OwnSnapshotKept ==
    ~turned /\ (pc = "prune" \/ outcome \in {"done", "untidy"})
        => \E dir \in dirs : dir.id = made /\ dir.whole

=============================================================================
