# SvcForge in TLA+

SvcForge is a Go library that an application links to install, upgrade, repair
and remove *itself* on a host: it copies its binary, registers a service with
systemd or OpenRC, snapshots what it is about to change and rolls back when
something fails. This directory holds models of that behaviour, the TLC runs
that check them on small instances, and theorems checked by TLAPS.

## 1. The system

| Part | Source | State it keeps | Operations |
|---|---|---|---|
| Lifecycle (Runner) | `runner.go`, `runner_linux.go`, `copy.go`, `hash.go` | installed binary, service definition, declared data; locals `mutated`, `sourceHash`, `oldState`, `snapshot` | `install` (fresh or upgrade), `repair`, `remove`, rollback |
| Install lock | `lock_linux.go` | flock on `lifecycle.lock` | acquire (never waits), close |
| Snapshots | `backup.go`, `copy.go` | directories under `backups/` | create, restore, prune |
| Service manager | `service_linux.go`, `service.go` | the service, in the manager | inspect, start, stop, enable, disable, define, reload |
| Manifest | `manifest.go` | `manifest.json` | read, write (atomic), delete |
| Atomic writes | `fileutil.go`, `manifest.go`, `copy.go` | temporary files | create, write, sync, rename, sync of the directory |
| Versions, decisions | `version.go`, `lifecycle.go` | none | parse, compare, `DecideInstall`, `repairVersionMatches` |
| Health check | `health.go` | timers, contexts | `runHealthCheck` |
| Status | `runner_linux.go` | none | reads manifest, binary, service, without the lock |
| Service definitions | `service_linux.go`, `app.go` | none | render for systemd or OpenRC |
| Paths | `paths_linux.go`, `copy.go`, `runner_linux.go` | none | resolve, overlap checks of the declared targets |
| Privileges, ownership | `privilege_linux.go`, `ownership_*.go` | none | system calls |

How they interact: `Execute` resolves the paths, takes the lock, reads the
manifest and decides. The transaction then stops the running service, creates a
snapshot, calls the application's hook, publishes the binary, verifies its hash,
writes the definition, enables and starts the service, waits for its health,
and commits by writing the manifest; `remove` disables, deletes definition and
binary, and commits by deleting the manifest. A failure after `mutated` was set
restores the snapshot and the service. Around it the service manager restarts
services, the application writes its data, people alter files, other processes
of the same application start operations, and any process may die.

What is hard here, and so what the properties are about (every hazard with its
line is in `PROJECT.json`): failures and crashes between any two of some twenty
steps; a second actor (the service manager, the application, another installer)
that moves between the inspection of something and its use; a rollback that
fails itself; histories of installs, removes and upgrades that add or drop the
service; retention that deletes what a rollback needs; precedence of versions
at the width of integers; the races of timer, ticker and context.

Per component, what makes it correct:

* Lifecycle - an operation happens entirely or not at all (`ActsAtomically`, the
  refinement of `Transaction`); it ends committed or undone (`RollbackRestores`,
  `NoResidue`); between operations host and manifest agree (`Coherent`); the
  service runs what is installed (`RunsWhatIsInstalled`); foreign files and the
  data are left alone (`UnmanagedPreserved`, `RemoveKeepsData`); it ends
  (`Termination`).
* Lock - transactions do not overlap (`MutualExclusion`).
* Snapshots - the vouched-for binary is never lost (`RecoverableBinary`), the
  version just replaced is kept (`ReplacedIsKept`) and the number is bounded (`Retention`), by the
  clock of the host as well (`OwnSnapshotKept`); a restore brings back what was
  saved, in any nesting of targets, and nothing else (`RestoredExactly`,
  `RestLeftAlone`).
* Status - raises no false alarm while operations run (`NoFalseAlarm`).
* Manifest - it names what is installed (`Coherent`), and its write is the moment of
  change (`ActsAtomically`).
* Atomic writes - a path is an atomic register through failures and power loss
  (`NeverTorn`); what was reported as written stays (`DurableWhenReported`).
* Service definitions - a value reaches the process as declared
  (`ArrivesAsDeclared`).
* Versions - install never goes back unasked (`NoSilentDowngrade`, `NeverBack`),
  follows Semantic Versioning (`UpgradesFollowSemVer`) and agrees with repair
  (`SameMeansRepair`).
* Health check - a healthy application is seen (`HealthNoticed`), and it returns
  (`Returns`).

## 2. The modules

| Module | Uses | Instance for TLC | Proofs |
|---|---|---|---|
| `Lifecycle` | `ServiceManager`, `Snapshots` | `MCLifecycle` | `LifecycleProofs`, `PromisesProofs` |
| `Atomicity` | `Lifecycle`, refines `Transaction` | `MCLifecycle` | `LifecycleProofs` |
| `Status` | `Lifecycle` | `MCStatus` | `PromisesProofs` |
| `Upgrades` | `Versions` | `MCUpgrades` | `UpgradesProofs` |
| `HealthCheck` | | itself | `HealthCheckProofs` |
| `Retention` | | itself | `RetentionProofs` |
| `AtomicFile` | refines `Register` | `MCAtomicFile` | `AtomicFileProofs` |
| `DataRestore` | | `MCDataRestore` | `DataRestoreProofs` |
| `Definitions` | | `MCDefinitions` | `DefinitionsProofs` |

**ServiceManager** - the service as a record (state, image, enabled): what the
commands of `service_linux.go` do to it and what `inspectServiceLinux` sees.
`image` is the contents of the binary the process was started from, which is what
tells "the service is active" from "the new version is active". `activating` is
a service that waits for its automatic restart: only `active` counts as
running, as `is-active` has it. A question that fails counts as a no
(`commandSucceeds`; an error of `rc-update show` is dropped), so `Inspections` is
the set of what may be seen: with the event `"probe"`, FALSE for a service that
runs or is enabled. The manager itself is outside the repository.

**Snapshots** - the backup root as a sequence of directories. A directory exists
before it is usable (`complete`, set by writing `snapshot.json`), and deletion
may stop half way.

**Lifecycle** - the core. `pc[p]` is the next call of process `p`; each step of
`installOrRepairLinux`, `removeLinux` and `rollbackLinux` that changes the host
is an action, and each has a failing counterpart (`...Fails`, `CallFails`).
`tx[p]` holds the locals (`src` = `sourceHash`, `was` = the manifest read under
the lock, `old` = `oldState`, `left` = the entries Restore has still to handle).
`disk`, `service`, `manifest`, `backups` are the host. Builds are opaque: the
contents of a path are a build, nothing, foreign or corrupt, so a hash is the
contents; a definition is named by the build that rendered it. `VersionOf` gives
each build the rank of its version (0: none declared), which is what
`Compare` provides (see Versions). `sound` is a history variable: it goes FALSE
when a process dies with a change undecided, when a rollback reports an error
or when somebody alters the files, and TRUE again at the next commit. `misread` is
another: it goes TRUE when an inspection before a change or in a rollback did not
tell what the manager will do (`Right`: a question failed, or the service waited for
its restart), and FALSE again once an operation has seen the service as it is and
down, or stopped it. Nothing in the code notices a wrong answer, so what is promised
of the *service* is promised while `misread` is FALSE; what is promised of files and
manifest does not mention it. Reads and
decisions that change nothing are merged into the step before the first change
(`Admit`, `Refuse`); the lock makes that sound for everything but the state of
the service, whose inspection is a separate step from the stop. `Crash` kills a
process anywhere; the kernel releases its lock. The `Environment` actions are
not in the repository.

**Transaction, Atomicity** - `Transaction` is what an operation promises to
somebody who does not see its steps: it happens at one moment or not at all, one
operation at a time, and a fresh install takes nothing over; only a crash in the
middle, a failed rollback or somebody who alters files leaves the installation
in doubt, and the next commit settles it. `Atomicity` gives the refinement
mapping (`INSTANCE Transaction WITH`): while an operation is between its snapshot
and its commit, what counts as installed is what the snapshot holds of the paths
it covers (`Effective`); the write or removal of the manifest makes it, at once,
what the host holds. So every action of a rollback has to be invisible, which it
is only if the rollback brings back what the snapshot holds.

**Status** - `statusLinux` as a process beside `Lifecycle`: it reads the manifest,
then the binary, without the lock, and any step may come between. `differs`
remembers, from the first read on, the versions for which the binary was not the
recorded one at some moment.

**Retention** - snapshot directories and manifest times under the clock of the
host, which is coarse for modification times (`Unit`) and may be set back. A
directory is touched when an entry in it is created or deleted, by a removal that
is cut short too; `pruneBackups` sorts by modification time, then by name, which
begins with the time of creation.

**DataRestore** - paths as sequences of names, a tree of files; which targets
`validateBackupTargetsLinux` accepts, and what `Restore` makes of the tree entry by
entry, last to first, after anything happened to the tree outside the state
directory. It shows what `Lifecycle`, where the data is one item, takes for granted.

**AtomicFile, Register** - `writeFileAtomic`, `WriteManifest` and `copyFileAtomic` are
one sequence of calls that differs in how it treats the sync of the directory
(`DirSync`). A power loss may leave anything of a file that was not synced, and
any entry a directory had since it was synced. `Register` is the promise: a reader
finds the old or the new contents, whole, after a power loss too.

**Definitions** - the quoting of `renderSystemdUnit` and `renderOpenRCScript`, and the
parsers of the service managers that undo it. The parsers are not in the
repository; they follow the manuals of systemd, and openrc-run, which passes the
variables of a command unquoted to `eval`. A parser is a function from a character
and a state (the words so far, the word begun, the open quote, a pending escape) to
a state, and reading is the fold of that function over the text. The directives that
hold no value of the application are left out.

**Versions, Upgrades** - characters are integers, `MaxUint` is the largest
number, so overflow happens at small sizes. `Versions` translates parsing
(from identifiers up) and comparison, and states the precedence of Semantic
Versioning independently (`SemVerBelow`). `Upgrades` lets any sequence of
offered versions go through `DecideInstall` and `repairVersionMatches`.

**HealthCheck** - `runHealthCheck` in discrete time. Timers are countdowns, a
check takes any time up to `Longest`, a select takes any ready case. Before each of
its steps the goroutine may wait up to `Lag` for its turn, while timers run out and
ticks arrive. `Lag` is an assumption about the host that `HealthNoticed` needs (an
application is not seen by a goroutine that does not run); after the timeout any
number of checks may be begun.

**MCLifecycle, MCStatus, MCUpgrades, MCAtomicFile, MCDataRestore, MCDefinitions** -
the requests, versions, paths, texts and hosts of the runs.
**LifecycleProofs, PromisesProofs** (which extends it), **UpgradesProofs,
HealthCheckProofs, RetentionProofs, DataRestoreProofs, AtomicFileProofs,
DefinitionsProofs** - theorems (section 5).

Definitions named `X_Something` that precede a definition `X` are faulty
variants of it (a dropped guard, a missing reset): each property is known to be
violated when the variant takes the place of `X`.

## 3. The runs

| Run | Asks | Instance |
|---|---|---|
| `lifecycle_faults` | is every operation atomic, committed or undone, on any host? | 2 interchangeable processes, 2 builds, 5 kinds of request, foreign or empty paths, foreign service; any call and any question to the manager fails, the service writes, exits and is restarted; 3.4 M states |
| `lifecycle_crash` | do transactions overlap, is the binary ever lost, does a version go back, is what was replaced kept, what is left in doubt? | 2 processes, downgrades wanted and not, calls and rollbacks fail, crashes; 3.4 M |
| `lifecycle_live` | does every operation end, does a commit repair altered files? | 1 process, 2 builds (one undeclared), services added, dropped, disabled; calls, questions and rollbacks fail, drift, exits and automatic restarts; 2.0 M |
| `status` | does status raise a false alarm? | a status beside an upgrade, downgrade, repair or remove; calls fail, crashes, drift; 0.45 M |
| `versions_precedence` | is the order an order, and the right one? | base 2, identifiers of up to 4 digits and `MaxUint` 4, 20 texts; 64 k |
| `health_check` | is health noticed, does it return although checks ignore the context? | ticker 3, timeout 20, checks 0-4, delays of the goroutine 0-2, initial delay 0-2; 45 k |
| `retention` | does retention keep the operation's snapshot? | `Keep` 1, times up to 5 in units of 3, 3 directories, clock set back at any time; 0.7 M |
| `atomic_file` | is a path an atomic register, is a reported write durable? | 3 writes to unit, manifest and binary; calls fail, processes die, power losses; 0.15 M |
| `data_restore` | is a restore exact? | 6 paths on 3 levels, 2 contents, up to 3 targets in any order; 0.1 M |
| `definitions` | does a value arrive as declared? | texts of up to 2 of 7 characters, up to 2 arguments, 5 kinds of directive, 2 managers; 21 k |

Runs that find the code at odds with its own documents (details and quotes in
`PROJECT.json`, "findings"):

| Run | Finding |
|---|---|
| `stranded_service` | a failure before `mutated` is set leaves the service stopped |
| `restart_rollback` | a service waiting for its restart survives the rollback, as the new build |

Other behaviours of the code, found while modelling it:

* A service that waits for its automatic restart when an *upgrade* starts is not
  stopped either (`runner_linux.go:171`), may come back from the old binary, and the
  start command does nothing to it then: the upgrade commits while the old build
  runs.
* Any failure of `is-active`, `is-enabled`, `rc-service status` or `rc-update show`
  counts as a no (`service_linux.go:320-329`, `343-348`) and is reported nowhere. At
  the start of an operation it leaves the old build running after a commit, or the
  autostart entry of a service that was dropped or removed; in a rollback it leaves
  the new process running under the restored files, although the rollback reports
  no error. `RollbackRestores`, `NoResidue` and `RunsWhatIsInstalled` say what holds
  all the same: without `~misread` each of them is violated in `lifecycle_faults`.
* An upgrade that adds a service over a foreign definition of its name takes it
  over, since `ensureFreshPathsUnmanaged` is for fresh installs; its rollback
  restores the file only, and the foreign service stays stopped or disabled.
* `numericIdentifier` takes identifiers of digits beyond uint64 for text, so their
  order is not that of Semantic Versioning (it still is an order: `NeverBack`).
* Files of an interrupted fresh install are unmanaged files to the next one,
  which refuses.
* A rollback deletes the installed binary before it copies the saved one back
  (`restorePath`), so its path is empty for a while.
* Operations that fail leave snapshots that only a later success prunes.
* After the clock was set back, `WriteManifest` refuses a time before
  `installed_at`: every upgrade is rolled back until the clock has caught up; and
  `pruneBackups` may delete the snapshot just taken.
* An installed binary that installs *itself* while another installer replaces it
  records its own version with the hash of the other build.
* `copyFileAtomic` does not sync its directory. `AtomicFile` shows that each path by
  itself is never torn; across paths, after a power loss a durable manifest may
  vouch for a binary whose rename was lost (`repair` mends it).
* Restoring a target that lies below a file which took the place of its directory
  reports an error (`os.RemoveAll` gives ENOTDIR), although the entries restored
  later bring everything back. A target that is a symbolic link is saved as the
  link.
* What does not arrive as declared, exactly (`ArrivesAsDeclared`): a `$` in an
  environment value or install path under systemd is doubled and stays so
  (`systemdCommandArg` is made for arguments); a description or working directory
  under systemd that ends in an odd backslash swallows the next line, and blanks
  at its ends are lost; an install path or working directory under OpenRC is
  quoted once but read twice; two blanks in a row in an argument under OpenRC
  become one.

`RollbackIsComplete` of `restart_rollback` is what the documents promise of a
rollback that reports no error; `RollbackRestores` of `lifecycle_faults` is the part
of it the code keeps: the files and the manifest always, data and service unless the
manager's answers were wrong.

### Bounds

* Two processes: the lock lets one past it; a second is enough for everything
  that happens outside it (a decision taken before, a request started from a
  binary that is replaced meanwhile). Where only one can be inside and nothing
  outside matters (`lifecycle_live`, `status`, the findings) one process runs
  operation after operation.
* Two builds: the one installed and the one replacing it, with versions or one of
  them without. Properties compare two contents at a time.
* `KeepBackups = 1`, the hardest case for retention; `MaxSnapshots = 2`
  leaves room for a kept snapshot, or one left by a failed operation, and that of
  the running operation. When there is no room `createBackupSnapshot`
  fails, as on a full disk, so the bound adds a behaviour the code has and
  removes those with longer backlogs. The theorem about recoverability holds
  for every value of it.
* Identifiers of up to four digits, with `MaxUint` 4, over two digits, a letter and
  the hyphen give every class of identifier, those of digits that overflow
  included, and every order between classes. `MaxChain` bounds a history of
  upgrades: a cycle of a relation over three classes needs three steps.
* Retention: one directory of a failed operation, one half deleted and the own one
  are three; with `Keep` 1 one of them stays. Two units of modification time are
  enough for directories of the same and of different times.
* Three writers: two that compete and one that wrote before them. Six paths: a
  target, one within it and one within that, beside the state directory, its
  parent and one managed file. Two characters: one that is escaped and one that
  meets the escape (`\"` after a backslash, doubled blanks, an end).
* Health: with checks of up to 4, a period of 3, delays of up to 2 and a timeout of 20
  a check can be shorter or longer than the period, span the timeout, miss ticks, and
  be followed by others after the timeout; `HealthNoticed` is tight (with a bound one
  smaller it is violated).
* Symmetry: the processes of `lifecycle_faults` are exchanged freely. They are model
  values no definition distinguishes, and the run checks no liveness.

### Fairness

`lifecycle_live` assumes weak fairness of `Step(p)` for each process: a process
that is past `Begin` keeps running and every call returns. Nothing is assumed
about success, about when operations are requested, or about other actors. A hook or
a health callback that never returns breaks this; `Returns` shows that the
health check itself does not. `HealthCheck` assumes that code runs, that time
passes, and (strong fairness of `Done`) that a select which again and again
finds the context ended takes that case at some time: Go chooses among ready
cases at random. The other runs assume no fairness.

`CHECK_DEADLOCK FALSE` is set where the system comes to an end: a health check that
has returned, writes and restores that are done, a definition that was read, a
clock at its bound (`health_check`, `atomic_file`, `data_restore`, `definitions`,
`retention`).

## 4. Abstractions to keep in mind

* One application, one state directory, one service manager. Two state
  directories that share an install path are not modelled.
* In `Lifecycle` a `writeFileAtomic` or `copyFileAtomic` is one step (see `AtomicFile`),
  the data is one item (see `DataRestore`), and snapshots are ordered by age (see
  `Retention`). Power loss is in `AtomicFile` only.
* A service that can be started is up at once; whether it is healthy is a free
  choice (`Healthy` or `CallFails`), and `HealthCheck` is about how that choice
  is made.
* The health of an application comes and stays; one that flaps is not modelled.
* Identity checks and path checks of the manifest are left out; a
  refusal by one of them is a failing call.

## 5. What is proved

All theorems hold for any values of the constants allowed by the named
assumptions of the modules (contents are distinct, `None` is no process,
requests and initial hosts have their types, `KeepBackups` is a natural number,
`MaxSnapshots` a positive one, paths and timers are what they are in the code,
texts hold no line break and no NUL). Every invariant that a passing run checks is
proved.

| Theorem | Says | Assumes |
|---|---|---|
| `LifecycleProofs!Atomic` | `Spec => ActsAtomically`: `Lifecycle` implements `Transaction` | |
| `LifecycleProofs!CommitsAgree` | `Transaction`: an installation not in doubt is what its manifest says | |
| `LifecycleProofs!InstallationCoherent` | `Spec => []Coherent` | |
| `LifecycleProofs!TypeCorrect` | `Spec => []TypeOK` | |
| `LifecycleProofs!LockProtects` | `Spec => []MutualExclusion` | |
| `LifecycleProofs!BinaryIsRecoverable` | `Spec => []RecoverableBinary` | no drift |
| `LifecycleProofs!PruneKeepsNewest` | pruning leaves exactly the newest directories; cut short, they are all still there, in order | |
| `PromisesProofs!DowngradesAreAsked` | `Spec => NoSilentDowngrade` | |
| `PromisesProofs!ForeignFilesStay` | `Spec => UnmanagedPreserved` | |
| `PromisesProofs!RemovalSparesData` | `Spec => RemoveKeepsData` | |
| `PromisesProofs!ReplacedBinaryIsKept` | `Spec => []Retention` | `Calm` |
| `PromisesProofs!ReplacementIsKept` | `Spec => ReplacedIsKept` | |
| `PromisesProofs!RollbacksRestore` | `Spec => []RollbackRestores` | `Quiet`, `FirstUse` |
| `PromisesProofs!NothingIsLeft` | `Spec => []NoResidue` | `Quiet`, `FirstUse` |
| `PromisesProofs!InstalledIsWhatRuns` | `Spec => []RunsWhatIsInstalled` | `Quiet`, `FirstUse` |
| `PromisesProofs!AlarmsAreTrue` | `StatusSpec /\ []Named => []NoFalseAlarm` | |
| `PromisesProofs!ManifestsName` | `Spec => []Named` | `FromElsewhere` |
| `PromisesProofs!NoFalseAlarms` | `StatusSpec => []NoFalseAlarm` | `FromElsewhere` |
| `UpgradesProofs!VersionsAreOrdered` | `Compare` is a total order on the versions `ParseVersion` accepts | |
| `UpgradesProofs!CompareFollowsSemVer` | what `Compare` puts below is below by Semantic Versioning | identifiers fit |
| `UpgradesProofs!TypeCorrect`, `NoWayBack`, `OneWayIn`, `UpgradesRaise` | `Spec => []TypeOK`, `[]NeverBack`, `[]SameMeansRepair`, `[]UpgradesFollowSemVer` | |
| `HealthCheckProofs!TypeCorrect`, `HealthIsNoticed` | `Spec => []TypeOK`, `[]HealthNoticed` | |
| `RetentionProofs!OwnSnapshotSurvives` | `Spec => []OwnSnapshotKept` | |
| `DataRestoreProofs!RestoreIsExact`, `RestIsLeftAlone` | `Spec => []RestoredExactly`, `[]RestLeftAlone` | |
| `AtomicFileProofs!AlwaysARegister`, `ReportedIsDurable` | `Spec => NeverTorn` (the refinement of `Register`), `[]DurableWhenReported` | |
| `DefinitionsProofs!DeclaredArrives` | `Spec => []ArrivesAsDeclared`: for texts of any length | |
| `DefinitionsProofs!SystemdArgumentsArrive`, `ShellWordsQuoted`, `OpenRCArgumentsRead` | what systemd and a shell read in quoted arguments and texts | |

### What the theorems assume

* *No drift* (`"drift" \notin Events`): somebody who deletes the installed binary
  takes it away whatever SvcForge does.
* `Calm`: no crash, no failing rollback and no drift. After one of those an
  operation that is asked for may find another binary than the one recorded, and
  the snapshot it takes holds that one.
* `Quiet`: calls may fail, questions to the manager too, the application writes its
  data, a service may exit and may be restarted; no crash, no failing rollback and
  no drift. It is the instance of `lifecycle_faults`, with any number of processes,
  builds, requests and snapshots. That a wrong answer about the service leaves
  less to promise is in the properties (`misread`), not in an assumption.
* `FirstUse`: when SvcForge is used for the first time, what lies at the paths and
  what runs there is not one of the builds. Without it a binary copied there by
  hand would count as residue.
* `FromElsewhere`: no operation is run by the installed binary itself. Such an
  operation hashes a path that somebody else may have replaced since the process
  was started, so that the manifest records the bytes of one build under the
  version of another. The same bytes may then be vouched for under two versions in
  a row, and when they are replaced between the two reads of `statusLinux` it
  reports a mismatch of the first version, whose binary never was another: with a
  self-installing request added to the instance of `status`, and a second process,
  TLC finds `NoFalseAlarm` violated. `AlarmsAreTrue` says exactly what is needed
  of the manifest.

### The arguments

*Base* (`LifecycleProofs`). Neither `TypeOK` nor `MutualExclusion` is inductive: the
restore steps read the newest snapshot and the items left, so types only hold if
there is such a snapshot and it covers those items. `Base` adds, per process
(`Local`): past the start its request is one that was made, install steps
belong to no remove, once the snapshot was filled the newest directory is its
own and covers exactly what the transaction changes, and the items left are
among them. Since everybody else is outside the lock (`Alone`), a step of a
process has to establish its own part only (`OwnStep`).

*Safe*. `RecoverableBinary` is preserved by a step only if the process knows
where the recorded binary is at that moment. `Safe` extends `Base` with that:
before the snapshot the installed binary is the recorded one or a snapshot
holds it; between snapshot and commit the manifest is the one read under the
lock and a usable snapshot holds the recorded binary, and the own snapshot does
if the installed binary was intact; `Verify` makes the new binary the hash the
commit is about to record; retention keeps the newest directory
(`PrunedFacts`, `HalfPrunedHasNewest`), which is the transaction's own. A crash or a failed
restore changes none of it.

*Exact* (`LifecycleProofs`). That a step between snapshot and commit is invisible to
`Transaction` is immediate: what counts as installed is in the snapshot. What has to
be known is what the moments of change see. `Exact` extends `Base` with it, per
process (`Fits`): the manifest is still the one of the admission, and a fresh
install found its paths vacant (`Admitted`, `Vacated`: the commit replaces what was
decided about); the steps that touch a service belong to operations that have one
(`Routed`); what the steps done so far have written is on the disk (`Reached`: the
commit records what is there); before the first change, and for the items a
rollback has put back, the disk is the snapshot (`Intact`: giving up is invisible).
`Atomic` is then one step lemma per group of actions. `Transaction`'s `Consistent` is
inductive as it stands (`CommitsAgree`), and read between operations it is
`Coherent`, so that `InstallationCoherent` needs no argument about the lifecycle.

*Lawful, Modest* (`PromisesProofs`). Both extend `Exact`. `Lawful`: until the commit the
versions compared under the lock are those of the request and of the manifest, in
the order that was allowed. `Modest`: a binary of somebody else is there only while
nothing is installed and nobody works on it, and no snapshot holds one, so no
rollback can touch it.

*Settled, Thrifty*. On a calm host every rollback is clean, so nothing is ever in
doubt, and what is installed is what the manifest vouches for. So the own
snapshot of an operation holds the recorded binary; it is the newest directory
when retention runs. `ReplacementIsKept` needs none of this: a commit that finds the
installation not in doubt finds it as `Consistent` says, at that moment, and retention
keeps the newest directory even when it is cut short (`PartWayKeepsNewest`), though not
always as the newest: a directory half deleted may count as younger from then on.

*Kept, Orderly, Fairly*. On a quiet host `Kept` holds whatever the manager answers:
what a transaction saw before its first change is what its rollback uses
(`Observed`), files are back where a rollback has ended without an error
(`FilesBack`), and nothing of SvcForge lies where the manifest does not account for
it (`Bare`). `Orderly` adds what is known of the service when the answers were right.
`Served`: the process of a service of SvcForge runs the installed binary, and
without a definition there is no service. `Down`, `Enabled`: the old service is down
from its stop to its restart, not even waiting for one, and the autostart entry is
what the step reached has made of it. `DataBack`: data that was restored is not
written again while nothing runs. `Undone` carries the result of the last step of
the rollback to the release of the lock. The invariant is `Fairly`: `Kept`, and
`Orderly` unless `misread`. Its hard case is the admission that ends a `misread`: from
what is kept alone, a service seen as it is and down, or stopped, has to be enough to
establish all of `Orderly` again.

*Reported* (`status`). Between the two reads the manifest read is still there and the
binary is the one it records, or the version read is in `differs`; a commit in
between that leaves the version alone leaves the hash alone too, as long as
manifests are `Named`.

*Upgrades.* `Value` is a recursive function, so facts about it need induction. The
induction rules of the library take an operator and cannot be used here; the
proofs go through a set of numbers that contains 0 and every successor
(`Induction`), which follows from the least element of its complement. By it
`Value` is a number and numbers without leading zeros determine their digits
(`ValueUnique`). That `Compare` orders versions is shown once, for any order on any
elements: signs that chain one by one (`Chain`) chain when the first one that is no
tie decides (`LexicographicChain`), so lexicographic order is an order
(`LexicographicOrdered`), which is used for texts, for prereleases and, with the
prereleases as the last resort, for versions. Identifiers chain because each of the
two classes the code makes of them is ordered - numbers that fit by value,
everything else, digits that overflow included, as texts - and numbers come first.
`Raised` - what was replaced is below what is
installed - is inductive because the order is transitive, and
`CompareFollowsSemVer` turns it into precedence.

*HealthCheck.* `Timed` relates how long the application has been healthy to the
countdowns and to the time the goroutine has waited: a check that does not see it
began before it was, and the next begins when that one has ended, the ticker has
ticked and the goroutine has had its turn three times; so when the timeout ends the
context it has not been healthy for `Enough` (`Brief`).

*Retention.* While the clock was not set back, the own directory is the youngest by
name, and from the moment it was filled by modification time too (`Youngest`):
`Coarse` says that times do not go back when divided by the unit of modification
times. A directory after which all others come is among the first (`FirstLeads`).

*DataRestore.* Going from the last entry to the first, every path below an entry
handled so far is what was saved (`Handled`): an entry restored later either
contains the path, and then restores it as well, or makes directories above
itself, which are above what was saved, hence directories of it. Outside the
entries a directory is only made where nothing was (`Spared`).

*AtomicFile.* The inductive invariant says that a call renames a file only when
all of it is written and synced (`Staged`), and that every file a path names, or
may name after a power loss, is whole and synced (`Published`): so what such a file
holds never changes again, a rename is a `Write` of the register, a sync of the
directory a `Flush`, and everything else a stutter. For durability it adds that
only files already renamed are named or superseded (`Ordered`), and that until a
call has synced its directory the path names none of the files it superseded
(`Superseded`), so that the sync leaves none of them.

*Definitions.* The invariant (`RoundTrip`) is small: the line is what was rendered of
what was declared, and what was got is what was read in the line. All of the argument
is about the operators, for a text of any length; it takes induction over texts, which
is done as in `UpgradesProofs`: a set that has the empty text, and each of its texts with
one character more, has every text (`Extension`, `EveryText`). Every operator on texts is shown to do one
thing per character more (`ScannedAppend`, `ReplaceAppend`, `DoubledAppend`), and a
scan of two texts one after the other to go on where the first ended
(`ScannedConcat`). From there:

* a parser run over what was quoted is, after each character, in the state it had
  before it, with that character added to the word (`Inside`, `HeldRead`); so it ends
  with the words that were quoted (`WordsRead`), for any separator after which it
  is between two words (`Separates`);
* `%` and `$` that were doubled expand to themselves, whichever of the two was doubled
  first (`DoubledEitherWay`, `ExpandedDoubled`);
* blanks: splitting at blanks and joining again squeezes runs of blanks inside a word
  and leaves the quotes where they are (`SqueezedQuoted`, `FieldsJoined`), so the second
  reading of OpenRC finds each argument squeezed, which is the argument itself exactly
  if it has no two blanks in a row (`SqueezedSame`);
* that an exception is one: a shell that reads a text without quotes loses a character
  it obeys, or has another in its place, and never makes up for it, since each
  character adds at most one to what it holds (`ContentGrows`, `ShellLoses`).

### Only model-checked

* Liveness: `Termination` and `Returns` (liveness under fairness, and `ENABLED`, are
  beyond the prover).
* The two findings, which are counterexamples.

## 6. What is not modelled

The modules of section 2, their runs, and the theorems above are done. What a next step
could add: `Retention` of the module of that name, and `ReplacedIsKept`, in one model
where snapshots are ordered by the clock of the host.

Left out for good: defaults and cleaning of paths, the patterns of names, identity
and path checks of the manifest (pure functions on strings with unit tests of
their own); detection of the service manager (a probe of the host); two state
directories that share an install path (each has a lock of its own, and the code
promises nothing); residue of crashed operations beyond the binary (the code
keeps no record of it and promises nothing); privilege escalation and ownership
(system calls); Windows services and desktop integration (not implemented in
the repository).
