----------------------------- MODULE MCLifecycle -----------------------------
(***************************************************************************)
(* Small instances of Lifecycle for TLC.                                   *)
(***************************************************************************)
EXTENDS Atomicity, TLC

CONSTANTS p1, p2, v0, v1, v2

\* v1 and v2 declare the versions 1 and 2, v0 declares none.
MCVersionOf == [b \in Builds |-> CASE b = v1 -> 1 [] b = v2 -> 2 [] OTHER -> 0]

Ask(op, build) ==
    [op |-> op, build |-> build, service |-> TRUE, auto |-> TRUE,
     hook |-> FALSE, downgrade |-> FALSE, self |-> FALSE]

\* An application without a service, and one that is started but not enabled.
Plain(r) == [r EXCEPT !.service = FALSE, !.auto = FALSE]
Manual(r) == [r EXCEPT !.auto = FALSE]
Hooked(r) == [r EXCEPT !.hook = TRUE]

Self(r) == [r EXCEPT !.self = TRUE]

\* Fresh installs with and without a service, an upgrade that migrates data and may
\* add the service, one that drops it, repair from the installed binary and remove.
MCRequests ==
    {Manual(Ask("install", v1)), Plain(Ask("install", v1)), Hooked(Ask("install", v2)),
     Self(Plain(Ask("repair", v2))), Ask("remove", v1)}

\* Install, upgrade, wanted and unwanted downgrade, repair of the newer version and remove.
CrashRequests ==
    {Ask("install", v1), Ask("install", v2), [Ask("install", v1) EXCEPT !.downgrade = TRUE],
     Ask("repair", v2), Ask("remove", v2)}

\* Services added, dropped and no longer enabled, a build without a version.
VersionRequests ==
    {Ask("install", v2), Plain(Ask("install", v0)), Manual(Ask("repair", v2))}

\* Which of the processes is which makes no difference.
Symmetry == Permutations(Procs)

\* A service of somebody else, running and started at boot.
ForeignService == [state |-> "active", image |-> Foreign, enabled |-> TRUE]

MCInitServices == {NoService, ForeignService}

=============================================================================
