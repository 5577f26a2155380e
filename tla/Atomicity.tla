------------------------------ MODULE Atomicity ------------------------------
(***************************************************************************)
(* Lifecycle implements Transaction.  While an operation is under way, what*)
(* is installed is still what its snapshot holds; the write or the removal *)
(* of the manifest makes it, at once, what the host holds.  A rollback is  *)
(* invisible if it really brings back what the snapshot holds.             *)
(***************************************************************************)
EXTENDS Lifecycle

\* The steps between the completed snapshot and the commit, or the end of a rollback.
Undecidable == {"hook", "copy", "verify", "define", "load", "autostart", "start",
                "health", "commit", "disable", "undefine", "unload", "rmbinary",
                "rmmanifest", "rbstop", "rbdisable", "wipe", "refill", "reload",
                "reenable", "resume"}

\* Some process is between its snapshot and its commit, and will restore item.
Pending(item) ==
    lock # None /\ pc[lock] \in Undecidable /\ item \in Covered(lock)

Effective(item) == IF Pending(item) THEN Own.image[item] ELSE disk[item]

T == INSTANCE Transaction WITH
        owner <- lock, installed <- manifest,
        binary <- Effective("binary"), unit <- Effective("unit"),
        certain <- sound

(***************************************************************************)
(* Every operation is atomic: it takes effect at its commit or not at all, *)
(* one operation at a time, whatever fails on the way (installOrRepairLinux*)
(* and removeLinux with their rollback).                                   *)
(***************************************************************************)
ActsAtomically == T!Spec

=============================================================================
