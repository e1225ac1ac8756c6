# Kurukuru in TLA+

Kurukuru is a single-host IaaS platform: a FastAPI backend that keeps a SQLite
database of what should exist (instances, volumes, snapshots, images, projects,
accounts), a QEMU driver that makes it exist, a command-line client and a web
dashboard. This directory specifies the parts of the backend in which the order
of events matters, checks them with TLC and proves the main safety results with
TLAPS.

    tlasany M.tla                        parse
    tlc -workers 2 -config X.cfg M       model-check (the runs are listed below)
    tlapm M.tla                          check the proofs of *Proofs.tla

Contents: [inventory](#1-inventory) · [what is hard](#2-what-is-hard-in-this-system) ·
[modules](#3-modules) · [runs](#4-runs) · [fairness](#5-fairness) ·
[proofs](#6-proofs) · [divergences](#7-where-the-code-and-its-comments-disagree) ·
[not modelled](#8-not-modelled) · [plan](#9-plan)

## 1. Inventory

All paths are under `backend/kurukuru/` unless they say otherwise.

| component | state it keeps | operations | properties that make it correct |
|---|---|---|---|
| **Instance lifecycle** `routers/instances.py` | the `instances` table; `_in_flight`, `_operations_completed` (process memory) | launch, start, stop, restart, delete, console, clone; `_run_provisioning_job`, `_settle_after_launch`; `reconcile_instances_pass` every 30 s and on demand | a pass never undoes a finished operation; a claim is never leaked; a launch belongs to its job; a terminated row stays terminated and its VM is gone; rows end up in agreement with the host |
| **Windows reboot watchdog** `reboot_watchdog.py`, `routers/instances.py` | a watch per instance (since when low, last restart, alerted) | a pass: sample, advance, restart with one retry, give up | only a guest that is stuck is restarted; not twice per cooldown; given up on only after a restart; a hung guest does not stay hung |
| **State-directory migration** `state_migration.py`, `database.py` | directories, database and its log, runtime files, backing chains, path columns | refuse, rename or copy and delete, rename the database, rewrite three kinds of paths; relocate a database from the working directory; open | nothing lost, nothing overwritten, no history cut off, every path follows, a refusal can be retried |
| **Schema migration, backup, seed** `database.py` | columns and an index, default project and network, automatic backups | `init_db`, on every start and from every `auth` command on the host | whoever serves finds a whole schema and rows carried over as they were meant; a change has a backup from before it |
| **QEMU driver** `engines/qemu.py`, `engines/qmp.py` | a directory per instance: `runtime.json`, disk, seed, PID, forwarded ports | provision, start, stop, restart, destroy, clone, snapshots, list, stats, console, forwards | no guest is forgotten; no port given twice; no copy of a disk boots that is not whole; forwards, file and guest agree |
| **Volumes** `routers/volumes.py`, `engines/qemu.py` | the `volumes` table; a qcow2 per volume | create (job), attach, detach, delete | attached to one stopped instance at most; the engine's view follows the row; no orphan file |
| **Snapshots** `routers/snapshots.py`, `routers/volume_snapshots.py` | two tables; snapshots in the disks | create, restore, delete (jobs) | none while the guest runs; not two at once on one disk |
| **Capacity** `host_capacity.py` | the last report, for a few seconds | report, admit, invalidate | what one launch takes is not promised to the next |
| **Images, base image, ISOs** `routers/images.py`, `image_store.py`, `engines/images.py`, `isos.py` | the `images` table; files, partial downloads | fetch, import (jobs), delete | what an instance stands on is there and complete |
| **Accelerator, capabilities** `engines/accel_cache.py`, `engines/capabilities.py`, `engines/qemu.py` | `accel-probe.json`; what each process remembers | measure under a lock, store, load, clear | measured once a process; no answer is taken for another emulator than the one measured |
| **Networks, forwards** `routers/networks.py`, `engines/ports.py` | tables; host ports | forward, remove a forward | the engine's forwards are the rows |
| **Projects, key pairs, user data** `routers/projects.py`, `routers/keypairs.py`, `keypairs.py`, `user_data.py` | tables, links | CRUD | nothing is left in a project that is deleted; a guest launched with keys has one |
| **Accounts** `auth.py`, `security.py`, `routers/auth.py` | users, sessions, tokens, throttle, console tickets | set up, log in, change password, reset, revoke, redeem | a password change ends what was issued before it; a ticket is redeemed once; a lockout holds |
| **Event log** `events.py` | append-only table | record, prune | none others rely on |
| **Command line** `cli/` | the token file | `auth` commands; `serve`; formatting and polling | it presents what opens the API, or says what to do |
| **Linux service** `linux_service.py`, `cli/commands_service.py`, `cli/serve.py` | the unit file and what systemd has of it | install, uninstall, restart, each several systemctl calls | what was installed is what runs |
| **Dashboard, packaging** `frontend/`, `packaging/`, `tools/` | none shared with the backend | HTTP calls; building an installer | – |

How they interact:

- **Shared rows.** Every route has a SQLAlchemy session of its own. What a
  session loaded it keeps until a commit expires it, and an UPDATE carries only
  the columns that differ from what was loaded. Two sessions on one row
  therefore merge column by column and the later commit wins.
- **Threads.** Routes are plain functions and run on FastAPI's thread pool. The
  provisioning job is a background task on the same pool. The reconciler and
  the watchdog run on worker threads started from an event-loop task
  (`main.py`). Nothing serialises them but the claims below.
- **Claims.** `_api_operation` adds the row to `_in_flight` for the length of
  an operation, removes it at the end and counts one more operation completed.
  The reconciler skips a row that is claimed when its pass begins, claimed when
  it writes, or whose counter moved in between. A claim excludes nobody else:
  two requests may claim one row.
- **The driver.** Calls block for seconds. `list_instances` asks one directory
  after the other. Failures are `ComputeEngineError` (the row becomes Error) or
  its subclass `HypervisorUnavailableError` (503, the row is left alone).
- **Directories.** The driver keeps nothing in memory: each call reads
  `runtime.json`, acts on the process it names, and writes back the copy it
  read. Two calls on one name overwrite each other; ports are picked by looking
  and taken by a later write.
- **Admission.** A launch is checked against images, projects, keys and the
  cached capacity, its row inserted later, and its job looks again later still.
- **Credentials.** A request is admitted on what the rows say, computes a slow
  hash, and writes afterwards. `auth init` and `auth reset-password` open the
  database from a process of their own.
- **Startup.** `init_db` runs the migration before anything is listening, so it
  interleaves with nothing in the process; guests left running by an earlier
  release and the operator go on around it, and it can die at any step.

## 2. What is hard in this system

`PROJECT.json` lists the hazards one by one, each at its line, with the
properties that cover it. They fall in nine groups:

1. **A reading that is stale when it is used**: the reconciler's listing, the
   row a route loaded before it claimed it, the row a watchdog pass loaded
   before it restarted an earlier one.
2. **Claims**: dropped on every path; shared, so the first to end uncovers the
   other.
3. **Death of the process**: a launch whose job is gone, a guest that goes on
   without its backend, a move of the state directory cut between two renames.
4. **One step of several failing**: a destroy refused by an open file, a
   restart that stopped and does not start, a file that cannot be rewritten.
5. **Things that must happen in the end**: agreement with the host, the restart
   of a hung guest, a migration that was refused once.
6. **Disks nobody claims**: two attaches of one volume, a snapshot job that
   starts while the guest boots, a volume deleted under its create job.
7. **Looked up now, taken later**: a port that was free, room that was left, an
   image nobody used, a password that was in force.
8. **Two processes that prepare the same thing**: two downloads into one file,
   a backend and a command that alter one schema, two launches on one port.
9. **Remembered answers**: the accelerator of an emulator since replaced, the
   capacity before the last launch, the token of an earlier login, a unit file
   that systemd has not read.

## 3. Modules

| module | models | lines it stands for |
|---|---|---|
| `InstanceLifecycle` | launch, start, stop, restart, delete; job; reconciler; crashes | `routers/instances.py`, and the outcomes of `engines/qemu.py` |
| `MCInstanceLifecycle` | the functions and the symmetry its configurations name | – |
| `InstanceLifecycleProofs` | its theorems | – |
| `RebootWatchdog` | registry, `advance`, pass, restart with retry, giving up | `reboot_watchdog.py`, `routers/instances.py` |
| `RebootWatchdogProofs` | its theorems | – |
| `StateMigration` | migration, relocation, first opening | `state_migration.py`, `database.py` |
| `StateMigrationProofs` | its theorems | – |
| `Volumes` | volumes, attachments, snapshots, their jobs; start, stop and delete for what they do to disks | `routers/volumes.py`, `routers/snapshots.py`, `routers/volume_snapshots.py`, parts of `engines/qemu.py` |
| `MCVolumes` | its symmetry | – |
| `VolumesProofs` | its theorems | – |
| `Machine` | what a client of the driver may rely on, of one name | the abstract specification behind `Driver` |
| `Driver` | directories, runtime files, processes, ports, clones, forwards, call by call | `engines/qemu.py`, `engines/process.py`, `engines/ports.py`, `routers/networks.py`, parts of `routers/instances.py` |
| `Launches` | images, base image, projects, keys, capacity, and launches that stand on them | `routers/images.py`, `image_store.py`, `engines/images.py`, `host_capacity.py`, `routers/projects.py`, `keypairs.py`, parts of `routers/instances.py` |
| `LaunchesProofs` | the theorems of `Launches` | – |
| `MCHost` | `Driver` and `Launches` for one run | – |
| `HostProofs` | the theorems of `Driver` and of `MCHost`, the refinement of `Machine` | – |
| `Accounts` | passwords, sessions, tokens, tickets, throttle | `auth.py`, `routers/auth.py`, `security.py`, parts of `routers/instances.py` |
| `Keyring` | the command line's token, on top of `Accounts` | `cli/auth_store.py`, `cli/client.py`, `cli/commands_auth.py`, `cli/host_admin.py` |
| `Accelerator` | measuring, storing and remembering what the emulator can do | `engines/accel_cache.py`, parts of `engines/qemu.py` |
| `Schema` | `init_db` after the move: columns, index, backfill, seed, backups | `database.py` |
| `Service` | the systemd user unit, `serve`, `restart` | `linux_service.py`, `cli/commands_service.py`, `cli/serve.py` |
| `MCControl` | the last five for one run | – |
| `AccountsProofs` | the theorems of `Accounts` and `Keyring` | – |
| `ControlProofs` | the theorems of `Schema`, `Accelerator`, `Service` and `MCControl` | – |

### InstanceLifecycle

State. `row` is the `status` and the kind of `last_error` of each row
(`Unborn`: not inserted yet). `vm` is what the engine would report for a *name*,
because a name is the hypervisor's identity of a VM and rows may share one over
time: no directory (`absent`), a directory without runtime state (`bare`),
`stopped`, `booting` (the process runs), `answering` (SSH answers).
`inFlight` and `operationsCompleted` are the module-level set and dict. `req`,
`job` and `pass` are the program counters and local variables of the threads.
`seen` and `forced` are histories only properties read.

Steps are cut where the code blocks or commits. A request is
*load and check* (`LoadRow`), *claim* (`ClaimRow`), *driver call* (`Drive`, and
`DriveSecondHalf` for the start of a restart), *sync and commit*
(`SyncInstance`, `MarkError`, `Terminate`), *release* (`EndRequest`); the row is
loaded and its status checked before the claim, as in the code. A pass is
`BeginPass` (engines and counters), `ListName` per directory, `ReadRows` (the
fresh transaction), `Decide` (what is stale), `CommitPass`. `WriteBack` is the
session's UPDATE: it changes a column only if the edited copy differs from the
loaded one, so a request that "writes Running" over a row it loaded as Running
writes nothing, whatever the row has become.

Driver failures are outcomes of `Drive` (`BootOutcome`, `HaltOutcome`,
`DestroyOutcome`), chosen where the driver raises: a boot that fails may leave
the process up (`start_instance` does not kill it), a destroy may fail with
QEMU dead and part of the directory gone.

Abstracted: sizes, images, networks and keys (a launch that is refused for any
of them is `RefuseLaunch`), addresses (settling ends when it gets one or runs
out of time; either is `Settle` choosing to end), text of errors (two kinds are
kept, because `_apply_info` distinguishes them), and the engine's availability
(a failed listing is `ListingFails`). Clone and console are not here.

### RebootWatchdog

State. `watch` is `WatchdogRegistry`; a time is its age in ticks, which stops
growing one past the limit it is compared with (`Older`), so the abstraction is
exact: `advance` compares with `stuck_seconds` and `cooldown_seconds` only.
`pass.loaded` is the session's identity map (a commit expires it and the next
access reads the row again); that is how a stale status gets written. `guest`
is what the framebuffer would show. `dullFor` and `quietFor` are histories: how
long there has been no reason to believe the guest well, and how long since the
last restart.

Users, the reconciler and the guests are actions that interleave with the steps
of a pass. They are the effect of InstanceLifecycle's operations on one row,
reduced to one step each: here the question is what the watchdog does to them.
Sampling threshold and text-mode sizes are abstracted to "text" and "drawing".

### StateMigration

State. Three directories (`legacy`, `target`, and the working directory of the
database), and in each the slots a database file and its write-ahead log may
have (`iaas.db`, `kurukuru.db`). A file's contents are whose history it holds:
`legacy`, `own` (a target in use), `cwd` (a database left in the working
directory), `fresh` (just created), `none`. A guest's files are where
`home[g]` says, both places while they are copied. `runtime`, `backing` and
`rows` are where the three kinds of absolute paths point. `install` says which
history this machine had and whether the two directories are on different
volumes; `faults` records which faults have happened.

Every call that touches the disk is a step. `Fault` makes it fail, and `Crash`
ends the process between any two. SQLite is modelled by what it does to a log:
replay one that belongs to the file, drop one that does not, create a file that
is missing (in a directory that exists).

### Volumes

State. `vol` and `snap` are the rows (`snap` is both snapshot tables: the two
routers differ in what they check, and `of` says which kind a snapshot is);
`file` and `saved` are what is on the disk: the volumes whose qcow2 exists, the
snapshots inside each disk. `boots` is the list of volumes in an instance's
`runtime.json`, `open` the list its live process was given; a list is a
function from its volumes to their places. `inst` and `qemu` are the status
column and the process. `making`, `taking` and `dropping` are the background
jobs, `req` the request threads.

Nothing in the code claims a volume, so rows, files and lists do come apart
when requests overlap. `raced` records what a request or a job worked on while
another did, and `astray` what a failure or a crash left half done; a property
is stated of the rest (`Clean`), and removing an exemption makes the run fail.

An attach is *load and check, with the order computed* (`LoadAttach`), *commit*,
*query the list* (`ReadPaths`), *write the runtime file* (`SetVolumes`). A
detach has the renumbering in a transaction between (`Compact`). A start reads
the runtime file (`LoadStart`), waits for ports, then spawns QEMU with what it
read and writes it back (`Spawn`): an attach in between is lost. A delete
unlinks first and removes the rows in a later commit (`Unlink`, `RemoveRows`).
The driver refuses to touch the overlay of a live process (`LiveOverlay`) and
looks at nothing before it writes to a volume. There is no file lock: the
code's comments say so of Windows, and that is the build modelled.

Abstracted: sizes, names, paths, capacity, what the guest writes and what a
restore brings back. A restart is left out: its row says Running throughout,
which every route here refuses. The process identifier in the runtime file,
which a stale write can take back as well, is in Driver.

### Machine and Driver

State. `dir` is a directory: made or not, how whole its disk is, and its
`runtime.json` (the pinned port, the process number, the forwards). `proc` is
the process table, with what each process has bound; a number may be taken by
another program (`Stranger`), and `taken` are ports other programs hold.
`standing` and `filed` are the status column and the table of forwards. `call`
is what a thread is in the middle of, with the copy of the runtime file it read.

Steps are cut wherever the driver reads, writes, spawns, kills or waits. A
launch is `BuildDisk`, `Allocate` (the port is noted in the caller's copy only),
`Pin` (written), `Spawn`, `RecordPid`, `BootOk`; a clone is `Copy`, `Copied` or
`CopyTimesOut`, then the same. A stop is `ReadToStop`, `PowerDown` or
`HaltTimeout`, `Halted`; `PowerDown` reaches whoever answers on the port and
`HaltTimeout` puts out the number, whoever's it is by then. A delete is `Quit`,
then `Remove`, `RemoveFails` or `ForceDelete`. A forward is `ReadToForward`,
`Apply`, `WriteForward`, `FileForward`. `IsRunning` is the driver's own test: a
process has the number and somebody holds the port.

`raced` records names on which calls overlapped (nothing serialises them), and
`astray` names on which something failed or died half way; both are left when
the directory is gone for good. The properties are stated of the others
(`Quiet`).

`Machine` is what InstanceLifecycle takes the driver for: a name is absent,
bare, stopped or running, moves between these in the ways a caller expects, or
is contested. `Driver!Contract` maps a directory and a process to one of them
(`Truth`) and `KeepsContract` is Machine's specification under that mapping:
each of the thirty-odd steps is one of its moves or none.

Abstracted: the three pools of ports are one, command lines are the ports they
bind, SSH and addresses end in `BootOk` or `BootFails`.

### Launches

State. `catalog`, `store` and `importing` are an image's row, its file and
partial file, and its job; `row` the instances with what each is filed under,
stands on and was given; `job` their jobs; `desk` the requests; `reading` the
cached capacity. `Room` and `Committed` count instances of one size.

`LookUp` is the start of a launch, a clone or a poll: it takes the cached
answer or computes one that `StoreReading` stores a step later. `Insert` adds
the row, drops the cached answer and schedules the job, in the code's order.
`Begin` checks image and keys again, `Download` and `Downloaded` fetch the base
image into a partial file that is one for all, `BuildOverlay` ends in a guest.
Images and projects are deleted in the code's steps: look for users, unlink,
drop the row (`AskDeleteImage`, `UnlinkImage`, `DropImage`).

Histories: `crossed` are rows inserted past a delete that had looked already,
`tangled` says two downloads shared the partial file, `unchecked` that room was
taken beside a check or without one.

### Accounts and Keyring

State. `users` has which password is in force, counted in the order of
choosing, the credential version, and whether the hash has old parameters.
`cred` has sessions, tokens and tickets in one table, numbered in order of
issue; `throttle` an entry per name; `desk` what a request has read. In
Keyring, `kept` is the token file and `cli` the command.

A request is two steps, admission and effect, with the hash or a thread's
queue between them: `BeginLogin` and `Login`, `Admit` and `CreateToken`,
`ChangePassword`, `Logout` and so on, `ReadTicket` and `RedeemConsoleTicket`.
`InvalidateCredentials` writes the version *that was loaded* plus one, as the
code does. Time is `Expire` and `Unlock`; a restart forgets the throttle.

Histories: `proof` is the password a credential was issued on the strength of,
`late` marks those whose request and a password change overlapped (`Overtake`,
`Tainted`), `tries` counts wrong guesses answered since the last unlock.

### Accelerator

State. `emulator` is the installed build (a version and a revision of it, which
only size and modification time tell apart) and what the host lets it do;
`entry` is `accel-probe.json` with its stamp; `engine` what the process
remembers; `asking` what each thread does. `TakeLock` is a step because the
memo is looked at without the lock first. The stamp is computed when the answer
is stored (`Operational`), not when measuring began. `Install`, `Toggle` and
`Clock` are the host's, `changes` bounds them.

### Schema

State. `db.shape` is how many of the added columns are there and which index;
`rows` the instances with the login their guest was built with and the one
their row says; `folder` the automatic backups; `starter` each process with
what it found to do. `Look` is done once; after it every ALTER, DROP and CREATE
is a step that commits by itself and fails when another process was there
before, which ends that start; `Settle` is the one transaction of backfill and
seed. A process may `Die` at any step, and the user may go back to an older
release for a while (`LaunchByOldRelease`).

### Service

State. `unit` is the file, what systemd has loaded of it, whether it is enabled
and whether it is to run; `installed` the release at each path; `proc` the
unit's backend and one in a terminal; `command` the steps left of the command
that runs. Each systemctl call is a step that may fail (`GiveUp`), and a command
may be cut short between two. `StartAgain` and `LogIn` are systemd's,
`Upgrade` is the package manager's.

## 4. Runs

| run | configuration | checks | distinct states |
|---|---|---|---|
| `LifecycleRequests` | one row that exists, two requests, a pass, a crash or a drift | `TypeOK`, `ClaimsHaveOwners`, `TerminatedMeansGone`, `NoUndo` | 1.4 M |
| `LifecycleTwoRows` | two rows with names of their own, a request, a pass | `TerminatedIsKept`, `NoAlarmDuringDelete` | 2.2 M |
| `LifecycleConverges` | a row that exists or is created, a request, a pass, a crash; fair | `LaunchBelongsToJob`, `EventuallyAgrees` | 0.9 M |
| `Watchdog` | two guests, two interventions, a glitch; fair | `TypeOK`, `RestartsNeedAStuckGuest`, `GivesUpAfterARestart`, `HungGuestIsRestarted` | 0.4 M |
| `Migration` | two guests, three faults of any kind; fair | `TypeOK`, `NothingLost`, `ServesHistoryUncut`, `PathsFollow`, `RetrySucceeds` | 56 k |
| `Volumes` | two instances, two volumes, a snapshot, two threads, three requests, one failure or crash | `TypeOK`, `EngineFollowsRows`, `OneWriter`, `NoDeadEnd`, `FilesFollowRows`, `SnapshotsAreThere`, `NoSnapshotLeft` | 0.6 M |
| `Host` | Driver: two names, two process numbers, two ports, a forward, two threads, three calls, one fault. Launches: two instances, two images, two projects, a key, two clients, room for one, three requests, one mishap | `HostTypeOK`, `PortsOnce`, `GuestsAreOnRecord`, `ForwardsAgree`, `ClonesAreWhole`, `KeepsContract`; `BackingIsWhole`, `CommittedFits`, `RowsHaveTheirParts` | 0.8 M |
| `Control` | Accounts and Keyring: two accounts, two callers and a command line, four requests, three credentials, two new passwords, lockout at two. Accelerator: two threads, two versions of two revisions, three changes. Schema: two processes, two columns, two backups kept, three starts. Service: two installs, an upgrade of each, four commands | `ControlTypeOK`; `OutIsOut`, `LockoutHolds`; `MeasuredOnce`; `ServesMigrated`, `RestorePointKept`; `InstallTakesEffect` | 0.6 M |
| `TerminatedIsLeft` | violation: one row, nothing disturbs it | `TerminatedIsTerminal` | – |
| `WatchdogLoops` | violation: one guest left alone | `AtMostOnePerCooldown` | – |
| `MigrationInterrupted` | violation: one guest, one crash | `ServesHistory` | – |
| `SnapshotUnderBoot` | violation: a volume, an instance, a snapshot, nothing fails | `NotUnderAGuest` | – |

What the passing runs show, and why the bounds are enough:

- **LifecycleRequests.** Everything two operations and a pass can do to one
  row. A second operation on the row is what makes the shared claim and the
  counter matter; with one more pass nothing new happens, because passes do not
  read each other's state. `MaxOps = 1` bounds operations *accepted while the
  counter is below it*, so both requests can be inside at once and a third may
  be accepted after a crash. One disturbance is one drift, one failed listing
  or one crash.
- **LifecycleTwoRows.** A pass writes all its rows in one commit and lists
  their names one by one: what one row's operation does meanwhile must not
  leak into the other row. Each row has a name of its own here; what a name
  that is taken again does to a pass is in section 7.
- **LifecycleConverges.** From an existing VM or from a launch, through one
  disturbance, to agreement. Launches that died with their process are exempt
  (section 7). Liveness is checked without symmetry.
- **Watchdog.** Two guests because a pass carries the second one's loaded row
  across the first one's commit. `StuckFor = 1`, `Cooldown = 3` keep the order
  of the settings (5 minutes against an hour) and leave room for a second hang inside
  the cooldown; interventions are the user's start, stop and delete, a guest
  that changes by itself and a restart of the backend.
- **Migration.** Two guests, so that one can be rewritten and the other not.
  Three faults of any kinds, among them a crash at any step, then starting
  again. Each exemption in a property is a fault after which TLC finds the
  property violated, and removing any of them makes the run fail.

- **Volumes.** It begins with any number of volumes attached to one of the
  instances in any order, each instance running or not, so three requests reach
  what would take seven from an empty host: detach, attach elsewhere, start.
  Two volumes make order matter, two instances make ownership matter, two
  threads make every pair of requests overlap, with any jobs beside them.
- **Host.** The two modules share nothing and are explored in one run: `part`
  says whose behaviour it is, and the part that rests has one initial state. Two
  names make a clone, a port given twice and a number taken over possible;
  instances begin absent, stopped or running in every combination, so three
  calls reach what takes five from an empty host. Room for one instance of two
  makes every second launch one too many.
- **Control.** The same with four parts. Two requests overlap in every pair,
  and four let one of them be issued, changed, issued again and used; lockout
  at two leaves a success before it. Three changes let a build be replaced, the
  process restarted and the clock move. Three starts let a start die, another
  run beside the third, and two retained backups be exceeded. Four commands let
  an install be cut short, repeated, undone and repeated from elsewhere.

The exemptions, each a thing the code does allow and TLC finds when it is
dropped: `raced` and `astray` (Driver and Volumes: overlap, failure half way),
`crossed`, `tangled` and `unchecked` (Launches), `late` and a redemption beside
another (Accounts), `swapped` and `found` (Accelerator: replaced while being
measured; a name that cannot be looked up), `spared` and `due` (Schema: nothing
saved; more interrupted changes than are kept). Section 7 says what follows.

Every property of a passing run has a mutant in `PROJECT.json`: a plausible bug
in the code (a dropped guard, a counter the wrong way round, a missing reset)
under which TLC finds that property violated in the same configuration.

`CHECK_DEADLOCK FALSE` is set where the system may stop: with clients that have
used up their bounded operations, nothing is left to do but wait. Watchdog and
migration do not stop, and their runs check it.

## 5. Fairness

- A request or job that has begun goes on: it is a thread, and every driver
  call has a timeout. No client is obliged to start anything.
- A settling job leaves: `_settle_after_launch` has a deadline. That is why its
  fairness is on steps that change its program counter.
- Passes go on for ever: `main.py` runs them in a loop that catches every
  exception.
- A watchdog pass samples every running guest each time round; strong fairness
  is not assumed, and a sample may be skipped only `Glitches` times.
- The reconciler corrects rows in the background in RebootWatchdog. Time passes.
- In StateMigration a startup goes on, the operator stops the guests a refusal
  names and starts the backend again. Shutting down and following a refusal's
  advice are not assumed.

## 6. Proofs

Every safety property the passing runs check is a theorem, three of them under
hypotheses without which they are false (`AllLaunched`, `OwnNames`, `Alone`).
The theorems hold for any number of rows, names, requests, threads, guests,
files and faults, from the assumptions the modules state of their constants; TLC
checks the same properties on the instances of section 4.

| module | theorem | states | inductive invariant |
|---|---|---|---|
| `InstanceLifecycleProofs` | `TypeCorrect`, `ClaimsAreOwned` | `TypeOK`, `ClaimsHaveOwners` | `Inductive` |
| | `NothingIsUndone`, `TerminatedStays` | `NoUndo`, `TerminatedIsKept` | it |
| | `TerminatedIsGone` | `TerminatedMeansGone`, given `AllLaunched` | with `Destroyed` |
| | `LaunchesBelong` | `LaunchBelongsToJob`, given `OwnNames` | with `Launches` |
| | `NoFalseAlarm` | `NoAlarmDuringDelete`, given `OwnNames` and `[]Alone` | with `Alarms` |
| `RebootWatchdogProofs` | `TypeCorrect`, `RestartsAreDue`, `GivesUpLate` | `TypeOK`, `RestartsNeedAStuckGuest`, `GivesUpAfterARestart` | `Inductive` |
| `StateMigrationProofs` | `MigrationTypes`, `NothingIsLost`, `HistoryIsServed`, `PathsAreRewritten` | `TypeOK`, `NothingLost`, `ServesHistoryUncut`, `PathsFollow` | `MigrationInductive` |
| `VolumesProofs` | `NoVolumeIsStuck` | `NoDeadEnd` | `Inductive` |
| | `VolumesTypes`, `EngineIsTold`, `OneGuestWrites`, `FilesHold`, `SnapshotsHold`, `NoSnapshotIsLeft` | `TypeOK`, `EngineFollowsRows`, `OneWriter`, `FilesFollowRows`, `SnapshotsAreThere`, `NoSnapshotLeft` | `VolumesInductive` |
| `LaunchesProofs` | `LaunchesTypes`, `Backing`, `Fits`, `Parts` | `LaunchesTypeOK`, `BackingIsWhole`, `CommittedFits`, `RowsHaveTheirParts` | `LaunchesInductive` |
| `HostProofs` | `DriverTypes`, `PortsOnceHolds`, `OnRecord`, `ForwardsAgreeHolds`, `ClonesAreWholeHolds` | `DriverTypeOK`, `PortsOnce`, `GuestsAreOnRecord`, `ForwardsAgree`, `ClonesAreWhole` | `DriverInductive` |
| | `DriverContract` | `KeepsContract`: Driver implements Machine | it |
| | `Host` | all the run `Host` checks | both |
| `AccountsProofs` | `Out`, `Lockout` | `OutIsOut`, `LockoutHolds` | `AccountsInductive` |
| | `KeyringTypes`, `OutWithCommands` | `KeyringTypeOK`, the same two with the command line beside them | `KeyringInductive` |
| `ControlProofs` | `ServesWholeSchema`, `RestorePoint` | `ServesMigrated`, `RestorePointKept` | `SchemaInductive` |
| | `OneMeasurement` | `MeasuredOnce` | `AcceleratorInductive` |
| | `InstallHolds` | `InstallTakesEffect` | `ServiceInductive` |
| | `Control` | all the run `Control` checks | all four |

`InductiveInvariant` (three modules) and `VolumesInvariant` state the
invariants themselves. In every module one lemma per action, or per group of
actions with one effect, says what the step keeps, one lemma collects them into
`[Next]_vars`, and the theorems are what PTL makes of that.

**InstanceLifecycle.** `NoUndo` is the property the reconciler was rewritten
for: a listing taken while a VM was up once reverted, a second after it
returned, the stop that followed. It is an action property of the last step of
a pass, and what makes it true happened at the first. The invariant carries it
across: `History` says that what was listed of a known row is in the row's
history, unless an operation completed since, that is, unless the counter
differs from the one taken when the pass began; `Decisions` says a row the pass
decided was fresh had not been operated on; `Births` says the identifiers a
pass knows exist, so that an insert (which starts a history again) cannot
concern them; `Listed` says every name has been asked about by then. `Births`
in turn needs that two creates never hold the same identifier.
`ClaimsHaveOwners` is inductive with the types.

`TerminatedMeansGone` relates a row to the VM of its name. `Destroyed` is that
a request past its driver call that deletes left no VM, that only restarts come
halfway, and that nothing creates: under `AllLaunched` (every row the backend
starts with is all there will be, as in the run `LifecycleRequests`) no step
makes a VM of one that is absent. Without the assumption it is false: the job
of a launch makes the VM after a delete found nothing, which is what
`TerminatedIsLeft` shows of the row.

`LaunchBelongsToJob` is about a row that no pass knew when it began, so the
history of known rows says nothing of it. `Launches` follows the row from before
it exists: until its job begins (`Unlaunched`, `Waits`) it has no VM, no listing
has one of its name, and the only operation on it is a delete, which drives
nothing; a row that is being launched was so when a pass read it (`Readings`),
because only an insert or the start of a job makes it so; and what was listed as
answering has answered since the row was created and last operated on
(`Answers`), because the two steps that start a history again find it listed
absent or not at all, or move the counter. `OwnNames` (no name is used twice) is
what `Waits` needs: the listing is by name, and a pass that has listed an earlier
instance of the name ends the launch (section 7).

`NoAlarmDuringDelete` is what claims are for in a pass: the VM that goes while a
pass is under way goes under a claim (`GoesClaimed`), so a listing that missed
it was made with the row claimed, or claimed when the pass began, or the counter
has moved (`MissedInOperation`), and the decision leaves the row out. After the
decision no claim helps, but what the pass is about to report was then never
there (`LostForGood`), and a job that makes the VM now began after the decision,
on a row the pass had read as waiting (`JobsBeginLate`). `Alone`, one operation
at a time on a row, makes `Claimed` true: the claim is a member of a set, and of
two operations the first to end takes it away from both. The proof changed the
property. It used to speak of any report while a delete is in progress, and is
false in that form with one request and three operations: a row that a pass has
brought back from Terminated (section 7) has no VM, and a second delete finds it
reported as lost. Now it speaks of VMs that were there during the pass.

**RebootWatchdog.** The histories run alongside the watch: `Clocks` says that a
watch's low run is never longer than the history of the guest and its cooldown
never younger than the last restart, `Attempts` that a restart in hand has a
try left, which `tries \in 0..2` needs.

**StateMigration.** What fails decides what holds, so the invariant has a part
for each set of faults. `Aims` and `Places` hold whatever fails: only the
directory of an older release is moved, the target is bare when a move begins
(so nothing is overwritten), a copy under way has only what the original has,
a deletion under way leaves only what the copy has; `NothingLost` follows from
the last two at each point between them. `Uncut` is for a start that nothing
has cut short: the database and its log are together in one of four places
(`Unmoved`, `OnTheMove`, `Stray`, `Settled`), each with the steps at which they
may be there. `Follows` says how far the paths have come at each step of the
rewriting: all but those still to do and those reported.

**Volumes.** `NoDeadEnd` is about three steps of two requests: an attach
accepted while its instance was stopped, the terminate that detaches what it
finds, the commit of the attach after it. Its invariant says where the note
comes from: what two requests in progress both work on is in `raced`
(`Overlaps`), a request in progress names what it works on (`Aims`), so an
attach whose instance reads Terminated is one that was overlapped (`Doomed`).

The others are five layers, each proved from those below. `Purposes` is what a
request can be at each of its steps; `Meetings` (`MadeOnce`, `Held`, `Meant`,
`Made`) that nobody uses a volume whose create job is at work, that a deletion
meets that job only where it is noted, and that what a request was admitted on
still holds when it commits, or is noted.
`EngineFollows` then follows a clean instance through the one request that
works on it (`Course`): between the commit of an attach and the write of the
runtime file, rows and list differ by exactly that volume; between the commit
of a detach and the renumbering, by one gap. That an attach goes to the
end, and a renumbering closes the gap and keeps the order, are lemmas about the
rank of a volume among an instance's; where one needs induction (there is
a last place) it takes a minimal counterexample, `WFMin` on finite subsets. `FilesAreKept` and
`ShotsHold` do the same for files and for the snapshots inside a disk, each of
which one job or request is in the middle of changing. `OneWriter` follows from
`EngineFollows`: what two clean guests have open is what their rows say, and a
row has one owner.

**Launches.** `Desks` and `Jobs` say what a request carries and how far a job
has come, `Files` that a file has holes only after two downloads at once,
`Watched` that an image whose file is about to go has no users but those that
crossed, `Covered` that any reading that may still be used is at most the room
there is, `Keyed` and `Filed` the rest of a row. `Committed` counts a finite
set, so `Fits` needs that one row at a time enters it.

**Driver.** `Shaped` says which steps each operation has. `Apart` says that
calls which share a name have raced on all their names, so a name in good order
(`Quiet`) has at most one call at work on it; `Keeps` says what that call knows
of the directory at each of its steps, and `Good` what holds of the name
meanwhile: its guests are those on record or the one just spawned, its
forwards those of the guest or one a call is about to write. `BoundOnce`,
`PortsOnce` and `PickedApart` keep names apart: a port is bound by one process,
named by one runtime file in good order, and what a thread has picked is in no
other's file. All five properties follow.

`DriverContract` maps each name of the driver to a state of Machine (`Faces`:
what a directory and its guests look like from outside, `contested` for a name
that is not in good order) and shows that the first state maps to a first state
and every one of the thirty-odd steps to a move of Machine or to none. A call
changes the face of the names it works on only, and by `Good` at one step: the
spawn, the last kill, the removal of the directory, the disk of a clone.

**Accounts and Keyring.** `RowSound`: a live credential is of an earlier
version than its account's, or of this one and issued on the password in force,
or noted as late. `DeskSound` says the same of what a request has read, so that
what it issues is sound. `VersionsCounted` bounds versions by the passwords
chosen, which the types need; `OpenedOnce` is for tickets. `GuessesLeft` counts:
while a name is locked, the tries and those still past the check together are
fewer than the limit and the callers; each of the latter can turn into one of
the former only. `CommandSound` is what `Keyring` adds: a command that mints or
closes has the session it signed in with.

**Schema.** `LeftToDo`: what a start has left to do is at most what the
database lacks, whoever alters it beside; so one that comes to the end serves a
whole schema. `RowTold` says which rows have no login yet, and that there are
none while somebody serves. `BackupFirst` and `ShapeGrows` give
`RestorePointKept`: the first change to an older database is a column, whoever
makes it has a backup behind it, and `StartsCounted` bounds how many later
ones can have pushed it out.

**Accelerator, Service.** `MemoTellsOfProbe`: while the memo is empty and
nobody measures, nobody has; `BegunWithInstalled` and `StampIsOfMeasured`: what
is measured, and what the stamp names, is the build installed when it began,
or the replacement is noted. `Underway`: each step left of an install acts on
what the steps before it wrote; `NoOlder`: what was installed is still there or
a later release of it.

**What the proofs changed in the models.** A few definitions of Driver and
Machine were wrong where no bounded run could tell. The guests of a name are
the processes on its disk *that have bound their ports*: a QEMU that could not
exits before it opens anything, so it tears no copy, and neither does a copy
begun beside it. `Machine!Halt` takes a set of names, since one call can put
out both the guest on a port and the one with a number. Assumptions the code
justifies were missing and are stated: there is a user, the emulator has a
build, the threads that ask for it are finitely many, and `Untold` is no
version.

**Hypotheses, and what is only model-checked.**

- `NoAlarmDuringDelete` is proved while no two operations work on a row at once.
  With two it is false (section 7); the run that checks it has one request.
- `LaunchBelongsToJob` is proved where no name is used twice. The run that
  checks it has one row; where a name is taken again during a pass it is false
  (section 7).
- `TerminatedMeansGone` is proved of instances whose launches are over. The
  runs add no case beyond that, and beside a launch it is false.
- Liveness is out of the provers' reach: `EventuallyAgrees`,
  `HungGuestIsRestarted`, `RetrySucceeds`. So are ENABLED, induction over data
  and RECURSIVE operators; of the last two nothing here has need.

## 7. Where the code and its comments disagree

With a run of their own, as findings in `PROJECT.json`:

- *Terminated is the only terminal state* (`TerminatedIsLeft`). A delete is
  accepted while the row is Pending. When it completes before the provisioning
  job's first write, the job, which does not look at the status, takes the row
  back to Provisioning and boots a VM its owner has deleted.
- *At most one automatic restart per cooldown window* (`WatchdogLoops`). Giving
  up writes Error, and the next pass discards the watch of a row that is not
  Running, cooldown included. The VM is still up, so the reconciler writes
  Running again, and the guest is restarted again within the cooldown, for as
  long as it hangs.
- *An interruption is survivable at every point* (`MigrationInterrupted`). A
  crash between the move of the directory and the rename of the database leaves
  what the next start does not recognise: the old directory is gone, so it
  returns early, and a fresh database is created beside the one with the rows.
- *No running instance holds this volume* (`SnapshotUnderBoot`). The router
  asks the row, and the row says Stopped until a start has returned: a snapshot
  of an attached volume is accepted during the boot, and its job writes to a
  file QEMU has open. A job still queued when a start comes does the same.

Met while modelling, without a run:

- A launch whose job died with the process stays Pending or Provisioning for
  ever when its guest never answers: `_apply_info` leaves launches to a job
  that no longer exists. `EventuallyAgrees` exempts launches for that reason.
- A delete that commits between a pass's decision and its commit can be undone
  by it (`instances.py:704-706` describes the check that narrows the window).
  `TerminatedIsKept` is stated for rows nobody holds an earlier reading of.
- A pass reads the rows after its listing, skips rows by id
  (`instances.py:783`) and matches the listing by name (791). When an instance
  is deleted and its name taken again in between, the new row is not one an
  operation has touched: it gets the Running, the address and the ports of the
  VM that is gone while its own job is still queued. `instances.py:715-718`
  says that excluding Terminated rows makes the reuse of a name safe, and 634
  that a launch in flight belongs to its job. `LaunchBelongsToJob` is violated
  with two rows of one name, one request at a time and one pass; with a name
  per row it holds.
- Two overlapping creates both pass the name check; no index stands behind it
  (`instances.py:715-716` says a name identifies at most one live row).
- The first of two operations on a row to end drops the claim of the other, and
  a pass may then report a VM as lost while it is being destroyed.
  `NoAlarmDuringDelete` is checked with one request (section 6).
- `_restart_with_retry` retries a `HypervisorUnavailableError`, a subclass of
  the error it catches; `instances.py:866-867` says it is not retried.
- The watchdog restarts a guest the user stopped and started between two
  passes, if both passes saw it low: it is counted as one run. It also writes
  the status of its own restart over a stop or a delete that came meanwhile.
- A move across volumes that fails while deleting removes the target, by then
  the only complete copy (`state_migration.py`, `NothingLost` exempts it). A
  relocation that fails half way leaves the log behind, a checkpoint that fails
  before a crash splits log and database. The advice a refusal
  gives opens a fresh database, because the old one has another name
  (`ServesHistoryUncut`).
- A `set_volumes` that failed is never made good: `volumes.py:131-132` says the
  next start re-reads the database, and a start reads `runtime.json` only. Nor
  is one that came between a start's reading and its writing.
- Two overlapping attaches of one volume leave it in the lists of two
  instances, which both may start; `volumes.py:284-285` says a volume can only
  be attached to one at a time. `OneWriter` exempts requests that overlapped.
- An attach that overlaps a terminate leaves the volume Attached to a
  Terminated instance for good: detach wants a Stopped one, delete a volume
  that is not Attached. `NoDeadEnd` exempts it.
- A volume deleted while its create job runs leaves a file without a row, and a
  snapshot deleted while it is being created stays in its disk.

From Driver:

- `stop_instance` and `destroy_instance` go by `pid_alive` alone;
  `process.py:105-111` says callers pair it with QMP. A number taken over by
  another program is put out.
- Two launches that pick their port at the same moment get one port. A start
  that races a delete makes the directory again. A call on a forward that is
  late reaches another instance's QEMU once the port has been given away. Two
  concurrent forwards of one instance lose one of them in the runtime file.
- `boot_cloned_instance` lets `PortAllocationError` through and the clone's job
  does not catch it: the row says Provisioning from then on.
- A crash between `Popen` and the write of the runtime file leaves a QEMU on no
  record: a clone then copies a disk in use.

From Launches:

- The second of two concurrent downloads of the base image leaves the file with
  holes until it ends, and then fails its launch.
- An image deleted while it is imported leaves its file behind. A launch
  inserted after a delete has looked for users stands on nothing, or is filed
  under no project.
- A poll of the capacity beside a launch stores the answer from before it, and
  starting a stopped instance takes room nobody checks.
- A crash leaves rows Importing, Pending or Provisioning.

From Accounts and Keyring:

- `auth login` with a dead token in the file: the client presents it with every
  request, `resolve_principal` does not look at the cookie when there is a
  header, so the new token is refused with 401 and the session that was opened
  stays. `client.py:109-110` says "`auth login` fixes it"; `auth logout` does.
- Two first-run requests, or one beside `auth init`, make two owners. Two
  redemptions of one ticket at once both pass (`auth.py` says exactly once).
- A login overtaken by a password change puts the old password back when the
  hash was worn. Two overlapping changes set one version, so a token issued
  between them survives. A credential whose request was admitted before a
  change and finished after it survives the change.
- A ticket minted with a token outlives the token's revocation. `purge_expired`
  is called by nothing.

From Accelerator:

- The stamp is computed after the measurement: an emulator replaced during it
  is filed under the new identity. A launch that fails clears the file but not
  the memo of the process, and a failed start or clone clears neither.
- `cached_support` is kept by path for the life of the process: an instance
  launched after an upgrade is stamped with the version before it. Nothing
  calls `invalidate_availability`.

From Schema:

- The alterations are not one transaction, so another process may see a
  half-migrated database (the comment says it is never visible).
- A backup that fails leaves a stub that counts towards the retention, and so
  do interrupted starts: enough of them push out the backup from before the
  change. The second backup of one second sorts before the first.

From Service:

- `restart` waits until anything listens on the port, be it the old backend or
  one in a terminal.

## 8. Not modelled

Components with the status `not_modelled` in `PROJECT.json`, with the reason
there, and what the `partly` ones leave out. In short:

- Parsing and rendering (cloud-init, user data, keys, CLI output, the
  dashboard) have no state others share; the event log is written and never
  read by a decision.
- Configuration, paths and permissions are read once, in order.
- Building and removing an installation (`tools/`, the Windows installer and
  task, `data remove`) are scripts with nobody beside them, but for a backend
  that may still be starting when `data remove` asks whether one listens.
- Of images, what is in a file, and the installer ISOs; of the schema, the
  backfill of sizes; of instances, sizing and the records of the guest's
  network.
- Liveness in Host and Control: a call that has begun ends, by timeouts the
  models take as given, and nothing there waits for anybody.

## 9. Plan

Written, in this order: `InstanceLifecycle` (the core: every other component
meets it), `RebootWatchdog` and `StateMigration` (the two other places where
the order of steps decides), `Volumes` (the data users cannot get back), the
theorems of all but StateMigration; then `Machine` and `Driver` (what the
lifecycle takes for granted), `Launches` (what it begins with), and the
backend's own affairs, `Accounts` with `Keyring`, `Accelerator`, `Schema` and
`Service`.

Proved, in the order in which what a proof needs was there: the lifecycle and
the watchdog, the parts of Control, Launches, the driver and its refinement of
Machine, the migration, and the volumes with their snapshots.

Left, in order of use:

1. `TerminatedMeansGone` beside launches, exempting a delete that overlaps the
   job of its own row; which steps of the job that takes is what the proof
   would tell.
2. Clone and console as actions of InstanceLifecycle, and its claims against
   the steps of Driver, instead of the outcomes it takes from Machine.
