------------------------------- MODULE Status -------------------------------
(***************************************************************************)
(* `status' (statusLinux) beside the lifecycle: it takes no lock and reads *)
(* the manifest and then the binary, while operations change both.  Its    *)
(* third read, the state of the service, is one call to the manager whose  *)
(* answer is passed on as it is, and is left out.                          *)
(***************************************************************************)
EXTENDS Lifecycle

VARIABLES
    reads,   \* how many reads are done, 0 when no status is under way
    seen,    \* the manifest it reports
    hash,    \* what it found at the install path
    differs  \* history: versions that, since it began, were recorded with another binary

statusVars == <<reads, seen, hash, differs>>

allVars == <<vars, statusVars>>

\* Mutant of ReadOrder.
ReadOrder_BinaryFirst == <<"binary", "manifest">>

\* ReadManifest comes before fileSHA256.
ReadOrder == <<"manifest", "binary">>

\* The recorded version, if the binary is not the recorded one; a missing one differs.
Differing == IF disk["binary"] = manifest.hash THEN {} ELSE {manifest.build}

StatusInit ==
    /\ Init
    /\ reads = 0 /\ seen = NotInstalled /\ hash = None /\ differs = {}

\* Without a manifest there is nothing to report.
ReadNext ==
    /\ reads < 2
    /\ reads' = reads + 1
    /\ IF ReadOrder[reads + 1] = "manifest"
       THEN Installed /\ seen' = manifest /\ UNCHANGED hash
       ELSE hash' = disk["binary"] /\ UNCHANGED seen
    /\ differs' = differs \cup Differing

\* The answer is given, or one of the reads failed.
StatusOver ==
    /\ reads > 0
    /\ reads' = 0 /\ seen' = NotInstalled /\ hash' = None /\ differs' = {}

\* The lifecycle goes on while status is between its reads.
Meanwhile ==
    /\ differs' = IF reads = 1 THEN differs \cup Differing' ELSE differs
    /\ UNCHANGED <<reads, seen, hash>>

StatusNext ==
    \/ ReadNext /\ UNCHANGED vars
    \/ StatusOver /\ UNCHANGED vars
    \/ Next /\ Meanwhile

StatusSpec == StatusInit /\ [][StatusNext]_allVars

\* BinaryMatches
BinaryMatches == hash = seen.hash

(***************************************************************************)
(* status raises no false alarm, whatever it overlaps: if it says that the *)
(* binary is not the one recorded for the version it reports, then so it   *)
(* was at some moment since it began.                                      *)
(***************************************************************************)
NoFalseAlarm == reads = 2 /\ ~BinaryMatches => seen.build \in differs

=============================================================================
