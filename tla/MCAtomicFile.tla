---------------------------- MODULE MCAtomicFile ----------------------------
(***************************************************************************)
(* A small instance of AtomicFile for TLC.                                 *)
(***************************************************************************)
EXTENDS AtomicFile

\* The three files of an installation.
MCPaths == {"unit", "manifest", "binary"}

MCDirSync == [path \in MCPaths |->
                 CASE path = "unit"     -> "reported"   \* writeFileAtomic
                   [] path = "manifest" -> "ignored"    \* WriteManifest
                   [] path = "binary"   -> "none"]      \* copyFileAtomic

=============================================================================
