--------------------------- MODULE ServiceManager ---------------------------
(***************************************************************************)
(* The service of the managed application as the host's service manager    *)
(* (systemd or OpenRC) holds it, and what the commands of service_linux.go *)
(* do to it.  A service is a record                                        *)
(*   state   - what the manager reports: only "active" counts as running;  *)
(*             "activating" is a service waiting for its automatic restart *)
(*   image   - the binary contents the running process was started from    *)
(*   enabled - whether the manager starts the service at boot              *)
(* The manager itself is not in src/: its behaviour is taken from how      *)
(* service_linux.go drives it and reads its answers.                       *)
(***************************************************************************)

CONSTANT None    \* the contents of a path that does not exist

ServiceStates == {"inactive", "active", "activating", "failed"}

NoService == [state |-> "inactive", image |-> None, enabled |-> FALSE]

Observations == [defined : BOOLEAN, running : BOOLEAN, enabled : BOOLEAN]

NotObserved == [defined |-> FALSE, running |-> FALSE, enabled |-> FALSE]

Alive(s) == s.state \in {"active", "activating"}

(***************************************************************************)
(* inspectServiceLinux: with no definition file nothing is asked of the    *)
(* manager and the service counts as stopped and disabled.  A question the *)
(* manager fails to answer counts as a no: commandSucceeds only looks for  *)
(* success, and an error of rc-update is dropped.                          *)
(***************************************************************************)
Inspections(s, unit, fails) ==
    IF unit = None THEN {NotObserved}
    ELSE {seen \in Observations :
             /\ seen.defined
             /\ seen.running => s.state = "active"
             /\ seen.enabled => s.enabled
             /\ fails \/ ((s.state = "active" => seen.running) /\ (s.enabled => seen.enabled))}

\* An inspection that tells what the manager will do of itself: a service that waits
\* for its restart runs again.
Right(seen, s) == (seen.running <=> Alive(s)) /\ (seen.enabled <=> s.enabled)

\* Mutant of Stopped: the command does not wait for the end of the process.
Stopped_NotAwaited(s) == s

\* `systemctl stop` / `rc-service stop`.
Stopped(s) == [s EXCEPT !.state = "inactive", !.image = None]

\* `start` can succeed: it has nothing to do, or a definition and a binary to run.
CanStart(s, unit, binary) ==
    s.state = "active" \/ (unit # None /\ binary # None)

\* `systemctl start` / `rc-service start`: no effect on a running service.
Started(s, binary) ==
    IF s.state = "active" THEN s
    ELSE [s EXCEPT !.state = "active", !.image = binary]

\* `enable` / `disable`, and `rc-update add` / `del`.
Autostart(s, on) == [s EXCEPT !.enabled = on]

(***************************************************************************)
(* The service process ends by itself.  Under a restart policy (Restart= in*)
(* the unit SvcForge renders) the manager waits and starts it again.       *)
(***************************************************************************)
Exited(s, restarts) ==
    [s EXCEPT !.state = IF restarts THEN "activating" ELSE "failed", !.image = None]

Restarted(s, binary) == [s EXCEPT !.state = "active", !.image = binary]

=============================================================================
