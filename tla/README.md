# Verification of gpui-cli

This directory holds TLA+ models of the parts of `gpui-cli` whose correctness
depends on the order of steps: several processes over one directory, threads
over one mutex, crashes between two durable writes. TLC checks them on small
instances; TLAPS proves the properties that matter most for every instance.

All paths below are relative to the crate (`src/` of the repository). `PROJECT.json`
holds, for every definition, the lines it models.

## Running

    tlc -workers 2 -config UpgradeTransaction_recovery.cfg MCUpgradeTransaction
    tlapm UpgradeTransactionProofs.tla

Every `X_name.cfg` belongs to the module `MCX`.

## 1. Inventory

`gpui-cli` creates, builds, runs, checks and upgrades applications of the GPUI
framework, on the desktop and on mobile devices. One binary does everything; a
user, an IDE and an agent may start several at once in one project. They meet
in four places: the project's files, the state directory `.gpui`, the build
output directories and the devices.

| Component | State it keeps | Operations | Meets others through |
|---|---|---|---|
| **Upgrade transaction** `upgrade/{apply,transaction,lock}.rs`, `commands/upgrade.rs` | journal per transaction, backups, `.gpui/upgrade.lock`, a copy of the journal in memory | apply, abort, recover | project files (which the user edits), the lock file |
| **Upgrade planning** `upgrade/mod.rs` | saved plans | plan: three-way comparison of every managed file | the manifest, the plan handed to apply |
| **Build coordinator** `runner/build_coordinator.rs` | a record per BuildKey and kind, subscriber files, heartbeat | coordinate (build, preview, preview with a leader's control) | output lock, record, the caller's cancellation |
| **Build cache and output lock** `runner/{build_cache,build_manifest,build_key,output_layout}.rs` | entries, manifests, partial markers, OS lock per output | lookup with verification, publish, clean | the coordinator (`coordinator_is_active`) |
| **Device lease** `runner/lease.rs` | OS lock, owner record with a fencing token, heartbeat thread | acquire, heartbeat, execute, delegate, release, drop | sessions of other processes, child processes |
| **Matrix executor** `runner/{matrix,matrix_executor,matrix_resources}.rs` | cell states, active workers, resource pool, result channel | dispatch, complete, deadlines, fail-fast, acquire, release, cleanup | worker threads |
| **Matrix admission** `runner/{matrix_admission,mobile_matrix}.rs` | probes of devices | admit, select | scheduler (unavailable cells) |
| **Operations and UI actions** `devserver/{operations,actions}.rs` | operations, idempotency keys, results | submit, start, finish, cancel, expire, wait | control connections, app connections |
| **Frozen builds and build keys** `runner/build_inputs.rs`, `commands/run.rs` | frozen workspace, identities of toolchain, signing inputs and Gradle, key, output root, manifest | plan, look up, compile, compare, publish, return, run | coordinator, cleaner, the user and the tools that change inputs |
| **Dev session and live loop** `devserver/session.rs`, `commands/live.rs` | revisions, active run, builds, windows, applied assets | input changed, build, run, reload, observe, stop | watcher, coordinator, app channel, control threads |
| **Live inputs** `devserver/inputs.rs` | index of files: marks, entries, manifest | mark, refresh, full verification | watcher, session |
| **Event store** `devserver/events.rs` | bounded log, cursors, status document | append, page, wait | every reader |
| **Artifact store** `devserver/artifacts.rs` | metadata, staged chunks, pins | begin, chunk, finish, abort, evict, recover | app channel, operations |
| **App channel, windows** `devserver/{app_channel,windows}.rs`, `templates/app/src/live.rs` | connections, sequence numbers, windows | handshake, heartbeat, deliver, reconcile | session, the running app |
| **Control server, protocol** `devserver/{control,protocol,query,output}.rs` | none of its own | parse, dispatch, render | session |
| **Scenarios, checks, fixtures** `scenario.rs`, `scenario/`, `fixtures.rs` | step results | interpret a list of steps | control server |
| **Mobile runners, devices** `runner/{ios,android,mobile}.rs`, `device/` | external tools | build, install, launch, log | device lease |
| **Toolchain, CLI, templates** `toolchain/`, `main.rs`, `config.rs`, `template.rs` | none | probe, parse, render | the user |

What is hard in it:

- **Crash and recovery.** The upgrade writes many files that are not atomic
  together. The coordinator, the lease and the artifact store leave records that
  outlive their writer.
- **Check, then act, across a lock.** The code often reads a record without its
  lock, takes the lock and acts: the coordinator's loop, `should_abort`, the
  removal of the upgrade's lock file, delegated leases.
- **Deadlines against late results.** Matrix cells, UI actions and builds can
  end while they are cancelled.
- **Ordering.** A slow heartbeat against a release; a slow leader against the
  next one; results of cells against their own deadlines; the manifest of a new
  connection against a transfer that is under way.
- **Inputs that move.** Sources, assets, keys and toolchains change while they are
  scanned, copied, compiled and packaged, and what is then said of the result (a
  revision, a key, "confirmed", "current") has to be true of what was read.

`PROJECT.json` lists the hazards one by one, each at its line.

The properties that make each component correct:

- *Upgrade*: old bytes are safe before they are replaced; a rolled-back
  transaction leaves nothing behind and a committed one wrote everything; edits by
  the user survive; recovery converges; upgrades exclude each other, and the lock
  of a dead one goes away.
- *Coordinator and cache*: one leader at a time, never fenced off its own
  attempt; a success is verified at the moment it is returned; the cancellation
  of one caller does not reach the others; every call returns.
- *Lease*: a living holder is never fenced; a session that is gone leaves
  nothing; a child of a dead supervisor learns that its work was disturbed.
- *Matrix*: shared resources are exclusive through cleanup; cells settle after
  cleanup; passes are earned; the matrix ends.
- *Operations*: a submission is accepted once; a delivered action never reports
  "did not run"; waiting ends; each end is announced once.
- *Frozen builds*: an output that verifies under a key was made from what the key
  names, and so is what a command returns.
- *Session*: a run is of the revision it is said to be of; what the status or an
  observation calls current is current; a build that was asked for is made.
- *Inputs*: no edit is forgotten between marks and full scans; a manifest is of one
  moment. *Events*: a reader sees each event once or is told of a gap.
- *Assets*: what the app marks as applied it shows; what was lost on the way is made
  good at the next connection.
- *Artifacts*: a published artifact is whole and is kept while it is used or pinned;
  the quota of the project holds on disk.

## 2. The modules

| Module | Contents |
|---|---|
| `UpgradeTransaction` | plan, apply, abort and recover over files, journal, backups and lock |
| `MCUpgradeTransaction` | templates of one and of two files |
| `UpgradeTransactionProofs` | types and eight safety properties: backups, the lock, edits, verdicts |
| `BuildCoordinator` | callers, records, subscriptions, output lock, cache cleaner |
| `MCBuildCoordinator` | three callers of one kind and of two |
| `BuildCoordinatorProofs` | types and the four safety properties |
| `DeviceLease` | sessions, their heartbeats and children, one device |
| `MCDeviceLease` | names of sessions |
| `DeviceLeaseProofs` | types and the three safety properties |
| `MatrixExecutor` | scheduler, supervisor, workers, resource pool, clock |
| `MCMatrixExecutor` | three cells in a chain of shared resources |
| `MatrixExecutorProofs` | types and four safety properties, the bound on the workers among them |
| `UiAction` | the abstract specification: what a session promises of an action |
| `ActionDelivery` | control connections, heartbeat, live loop, readers, the app: how it is kept |
| `MCActionDelivery` | one action and two, one connection of the app and two |
| `ActionDeliveryProofs` | types; what failed was not executed; `ActionDelivery` implements `UiAction` |
| `FrozenBuild` | commands that plan, build and reuse outputs, while inputs change |
| `MCFrozenBuild` | two commands, which are alike |
| `FrozenBuildProofs` | types; outputs match their keys; results are as planned |
| `LiveLoop` | watcher, main thread, control threads and app of `run --live` |
| `MCLiveLoop` | one observation |
| `LiveLoopProofs` | apps, status and observations are what the session says; the proofs about `InputIndex` and `AssetSync` |
| `InputIndex` | marks and scans of the index of inputs |
| `MCInputIndex` | two files in a directory |
| `AssetSync` | main thread, channel and app: assets that change without a build |
| `MCAssetSync` | two assets |
| `ArtifactStore` | sessions, their transfers and the quota of the project |
| `MCArtifactStore` | artifacts of one chunk and of two |
| `ArtifactStoreProofs` | types; what is published is whole and stays while it is used; the project's quota |

Each module is the composition of the parts that share state in it: an upgrade
composes appliers, recoverers and the user; the coordinator composes callers of
two kinds with the cleaner; the matrix composes scheduler, executor and pool; the
actions compose five kinds of threads with the app, and `ActionDelivery`
implements `UiAction`.

Where one module needs another's part only in outline, it has an outline of its
own and says so. `LiveLoop` takes a scan as one step that `InputIndex` opens up, and
the app's answer about its assets as a choice that `AssetSync` explains.
`AssetSync` takes a build and launch as the step that `LiveLoop` consists of.
`FrozenBuild` takes the election of a leader as the step that
`BuildCoordinator` consists of, and opens up what the coordinator calls a build.
The other modules share no state: the project's files, the output directories,
the devices and the memory of one process are disjoint.

`PROJECT.json` also lists mutants: definitions that stand before the one they are
like and have a bug the code does not have (`CheckSharingOnly` before `Check`). No action
uses them. Replacing the one by the other breaks the property it is listed for.

### 2.1 UpgradeTransaction

State: `disk` is the project (managed files and, last, the manifest); `lock` the
lock file, which `create_new` makes first and the owner's name is written into
second; `old`, `new`, `jstate`, `jfile` the durable journal; `mstate`, `mfile` the
copy a process works on, which differs from the durable one while a write of it
fails; `backup` the backup directory. `touched` and `stale` are history: which
files somebody else wrote since the journal was made, and since a process last
compared the file.

An action is what the code does between two durable writes: `Plan`, lock, stamp,
check the plan again, create the journal, and per file: backup, mark, compare,
replace, confirm; then validate and commit, or restore file by file. Every
durable write may fail (`MaxFaults`) and the code's reaction is modelled where it
stands, also where it leaves without an abort. `Windows` chooses the build where
a file is removed before it is replaced. `Crash` stops a process anywhere.
`Edit` changes any file between any two steps.

Simplifications: the second reading of the plan and the last validation read the
whole tree in one step. Bytes stand for their digests. A power loss that undoes
a finished write, and directory syncs, are not modelled. `recover` is started
only for a process that is gone; the code does not enforce this
(`commands/upgrade.rs:96` takes no lock).

### 2.2 BuildCoordinator

State: `outputLock` (freed by the system when its holder dies), `record` per
kind (builds and previews have records of their own beside one lock),
`subscribers` (locked files, so that dead ones do not count), `output` (the
attempt whose verified artifacts are in place), and per caller what it read
(`seen`), why it no longer wants the result (`want`) and how it ended.

A caller looks at the record without the lock, joins, waits, probes the output
lock, marks a dead leader, or elects itself, announces, looks into the cache
under the lock, compiles, publishes and leaves. A preview's leader asks
`should_abort`, and terminates in a second step. The cleaner checks that no
coordinator is active, and evicts an entry in several steps that readers see half
done.

Simplifications: the refresh of the heartbeat is not a step, because a record is
declared stale only by a process that got the output lock, which a living leader
holds. I/O errors of subscribing and announcing, the blocking acquisition for
plans that cannot be reused, and the cleaner's budget of size and age are left
out. Sections under the state lock are one step, except the eviction. `Partial` is
a state of the record that no caller produces.

### 2.3 DeviceLease

State: `lock`, `owner` (the record; the token stands for the session), `pc` of the
thread that works, `hb` of the heartbeat thread and `hbFailed` its error, `child`
the delegated process. Replacing the record is two steps, remove and persist, as
in `write_owner`; the mutex of the lease keeps the session's own threads out
between them, and nothing keeps the child out. A child that reads in
between finds no record and gives up, though the lease is held.

Simplifications: the checks of the lease directory are left out, and so are
tools like `adb` that a dead session started and that go on without it.

### 2.4 MatrixExecutor

State: the scheduler's `state` of cells, the executor's `stopped` and `active`,
the pool's `held`, the `channel`, and the position and finding of every worker.
The clock is two facts, "the matrix is over" and "this cell is late", which may
become true at any moment; the code compares instants at the places where the
model looks at them.

Simplifications: contexts and artifacts of cells are left out. Dropping the
guard and sending the result is one step. `execute_matrix`, which is sequential,
is called by tests only and is left out.

### 2.5 UiAction and ActionDelivery

`UiAction` is the promise in two actions: the supervisor moves operations on, and
the app executes one. An operation ends once; it succeeds only when the app
executed the action before its deadline; one that `failed` was not executed and never will be, so that
a client may try again; nothing is executed twice. `unknown`, `timed_out` and
`cancelled` promise nothing else.

`ActionDelivery` is how the code keeps it. State: `status` is the operation store,
`queue` and `deliveries` the two collections of the session, each under a mutex of
its own; `owner` the connection that registered the window last, also after it
is lost; `app` what became of the frame in the app; and per thread its position
and the action at hand. `due` is the clock: the deadlines that passed. A thread
that calls `expire_operations` takes the overdue deliveries out, and in a second
step settles them and times out the rest; between the two, and everywhere else,
another thread may read the store, which times out what is due without regard to
deliveries. `KeepsPromise` is `UiAction` with `executed` and `inTime` read off the
app. `Mark`, which records the delivery before the frame is sent, is what makes it
hold when connections are lost, and the comparison with the deadline in
`finish` is what makes a success one that was executed in time.

Simplifications: run, revision, scene and window are compared by the code and may
come out either way in the model. An action counts as executed with its first
event, also a scroll in many segments. Supervisor and app have one clock. The
deliveries that one sweep settles, and the time-outs after them, are one step.
A connection registers the window as it connects. An event of the log is part of the step it
announces. The reads of the preflight of `submit_action` are part of `Submit`.
Left out: repeated request identifiers, retention, byte budgets, and `observe`.

### 2.6 FrozenBuild

State: `now` is the version of every input (sources, toolchain, signing inputs,
Gradle distribution); per command its `plan`, which is its BuildKey, the reason
`why` that plan may not be reused, the version it `copied` and the local variable
`reusable`; per key the artifacts in its output root (`files`) and what the manifest
there describes. `hidden` marks what an artifact owes to things the key does not
carry, and artifacts that only Cargo has finished.

A command freezes the sources, fingerprints, reads identities, copies a custom key
store and compares it, names the key, is admitted, enters the root as leader,
alone or as the follower of a success, looks for a hit, compiles, packages, and
compares, publishes and compares again, leaves the root and takes a last look
without its lock. Each comparison is where the code makes it, for desktop, iOS
simulator, iOS device and Android with the debug key or the project's own.
Inputs may change, and a root may be evicted, between any two steps.

Simplifications: which project is unfit for reuse is a free choice, because the
rules are text analysis; digests are versions; previews and the wrapper of Gradle
are left out. A version never comes back: comparisons by content cannot see a
change that was undone between two of them.

### 2.7 LiveLoop

State: the files (`disk`), what was saved and not yet reported, the index in outline
(`manifest`, `dirty`, `force`), the `desired` revision, the bounded event `queue` and
its `overflow`, the position of the main thread, the `build` at hand, the `run` as the
session knows it, and the observations. One source and one asset stand for the
inputs, and contents are numbers that grow with each save: an edit that is undone
during a compilation is left out, since the comparisons after it (`session.rs:2165`,
`:2358`) are of digests and cannot see it.

The watcher marks the index before it queues its event; a full queue sets
`overflow`. The main thread looks at its observations, waits, scans, sends
assets, or goes through a build cycle: synchronize, take the revision, compile,
compare before the handoff and before the replacement, stop, launch, spawn,
and drain the queue. Control threads synchronize the index whenever they like.

Simplifications: desktop only; the app's state handoff is left out; an observation
collects a screenshot only.

### 2.8 InputIndex

State: `dirty`, `force`, `initialized`, `disabled` and `enabled` are the fields by which a
refresh chooses its scan; `entries` what the next incremental scan goes on
from; `manifest` what was published; `left` and `found` the pass that is under
way, and `previous` the pass before it. The lock of the index is `mode`: the watcher's
marks and the roots wait for a scan, the files do not.

An incremental scan reads what is marked. A full scan reads everything until two
passes agree, and falls back from stamps to contents, and from there to an
error. A path stands for all files at or under it, so one mark may be a whole
directory that was moved.

A write may give a file any content, also one that it had before. Two passes agree
when their hashes do (`inputs.rs:1016`; an `Inputs` holds no stamps, lines 39-52), so a
file that is overwritten and restored between them looks unchanged, whichever scan
it is. `PublishedTogether` says what the two passes are good for all the same: with
the history `between`, the disk at the end of the first of two agreeing passes, and
`returned`, the files that have since got back what that pass read in them, every
other file is published as it was in `between`. Without that exception the instance
of `index` has a counterexample of ten states, which is why the documents call the
scan tracked and not an atomic snapshot (`docs/design/observation-protocol.md:88`
and `:229`).

An incremental refresh has no second pass. What it publishes may be mixed of
several moments, until the watcher has told what changed meanwhile; that it will,
or that a full scan is due, is `NeverForgets`.

Simplifications: which files are inputs, links and digests are left out.

### 2.9 AssetSync

State: `index` and `revision` of the session, the `published` manifest of the channel,
what connections lack (`recs`), the main thread with the messages it has yet to
send, the connection with its bounded queue, the messages that come back, and the
app: `desired`, the pending batch with what it withholds, the queue of its UI thread,
`applied` and the `cache`.

The main thread reads the revision, publishes the entries, and reads the
revision again, while other threads synchronize. A broadcast that meets a full
queue is noted and dropped. A new connection is registered before it is sent
the manifest, so that a transfer may come first. The app answers a manifest
with what it lacks, a commit hands the withheld changes to the UI thread, and that
thread evicts, marks and acknowledges.

Simplifications: the desktop; required assets and the limits of a batch are left
out; a build is one step before the launch.

### 2.10 ArtifactStore

State: per session and artifact the record in memory, the record on disk (`json`), the
part file, the published file, and the readers in the memory of the session.
`op` is the call that holds the project's lock, with its position: its steps are
the points between which the process may die. `fresh` says that the time to
live has not passed since the record was written.

Sessions begin, receive, verify, publish, discard, read, pin and expire, also what
other sessions wrote; they close, die, and are opened again over what they left.

Simplifications: all records age together; all transfers are of one run; removing a
file does not fail; limits by kind of artifact and the file that an export
replaces are left out.

## 3. What the runs show

All runs pass.

| Run | Instance | What holds |
|---|---|---|
| `recovery` | two files and manifest, one apply, one recovery that may be run again, one edit, one crash, one fault | `BackupCoversReplaced`; `VerdictIsTrue`: what the journal says of a transaction that ended is true of the disk; `EditsPreserved`; `RecoveryEnds` |
| `pair` | one file and manifest, two applies, one recovery, one crash, one fault, replacement in two steps | `MutualExclusion`; `RollbackRestores`, also after a crash that left no file |
| `shared` | two previews and one build, one cleaner, one crash, one failure, one cancellation | no leader is fenced off (`Inv`); `OutcomeIsOwn`: no caller gets what the cleaner or another's cancellation did; `OutputIsVerified`; `AbandonedMeansDead`: no waiter declares a living leader dead; `EveryCallReturns` |
| `fenced` | three sessions with children, two deaths, one fault | `LeaseFenced`, `NoOwnerAfterRelease`, `OverlapIsDetected`, `ReleaseEnds` |
| `parallel` | three cells, two places, two resources, any deadlines, failures, refusals | `ResourcesExclusive`, `TerminalAfterCleanup`, `ParallelBounded`, `ReportIsEarned`, `EndsWithReport` |
| `frozen` | two commands, five kinds of build, two changes of inputs, two failures or evictions | `OutputMatchesKey` (in `Inv`): what verifies under a key was made from what the key names; `ReturnedIsPlanned` |
| `actions` | two actions, two control connections, one app connection, one place in the store and one in the queue, one cancellation | `KeepsPromise`: the delivery implements `UiAction` |
| `answers` | one action, one control connection, two app connections, one cancellation | `EverythingEnds`: every action, and every delivery |
| `live` | one save, one request, one observation, one fault, a queue of one event | `RunIsItsRevision` (in `Inv`), `StatusIsTrue`, `ObservationIsCurrent`, `AskedIsBuilt` |
| `index` | two files in a directory, three changes, a limit of one mark, two faults | `NeverForgets` (in `Inv`), `PublishedTogether`, but for contents that came back |
| `assets` | two assets, one edit, one scan by another thread, one lost connection | `MarksAreTrue` (in `Inv`), `ReconnectHeals` |
| `artifacts` | two sessions with two artifacts, a quota of three chunks, one death, one fault, one passing of the time to live | `PublishedIsWhole` (in `Inv`), `QuotaHolds`, `PublishedIsKept` |

Why the bounds are enough. In `recovery`, two files are the fewest where one can be
replaced and the next one not, and they cover replace, add and delete; the
manifest is written after them. One crash and one fault each reach every step; a
second crash meets a recovery that is run again, which starts from the journal as
the first one did. `pair` trades the second file for a second upgrade. In
`shared`, three callers are the fewest with a leader, a waiter that acts and a third
one that is still subscribed; two are of the kind that can be cancelled and one
competes for the lock with another record. In `fenced`, three
sessions make a holder, one that is on its way in and one that is on its way
out, and two deaths can take a session and the next one. In `parallel`, the middle
cell needs what both others need and there are fewer places than cells. In
`actions`, two control connections let a cancellation meet the submission of the
same action, and the second action meets a full store (one place) or, when the
first one timed out where it lay, a full queue (one place); `answers` trades the second
action for a second connection, which takes the window over. Requests and control
connections are interchangeable, so `actions` uses their symmetry; `answers`, which
checks liveness, uses none. One cancellation is enough: a second one of the same action
finds it ended.

In `frozen`, one command can build while the other waits, follows, hits or runs
in the same root; two changes are the fewest with which an input changes after
the plan and again after the copy or the compilation. In `live`, a queue of one place
overflows with the second event; the source and the asset may each be what was
saved, before the watcher is there or later. In `index`, the path of the directory
stands for both files, so that one mark and a limit of one are enough to
overflow; three changes can meet three passes, or mix two files in one pass and
take a third write back in the next. Two contents and the absence of a file are
enough for that, as contents are only compared. In `assets`, two
assets are the fewest where a transfer is lost in part; a queue of eight is
shorter than the messages of an edit before and after a reconnection, and the one lost
connection may be lost with any part of them. In `artifacts`, the quota fits one
artifact of each session, so that a second one has to wait for an expiry, and the
expiring session may die half way.

Deadlock checking is on in `index` and `artifacts`, whose systems never stop. It is off
where they do: when all processes have returned (`recovery`, `pair`, `shared`,
`fenced`, `parallel`, `frozen`), when every action has ended and nothing more is
submitted (`actions`, `answers`), and when the bounds on saves, requests and edits
are used up and the session has nothing to do (`live`, `assets`). That they do not
stop earlier is what the liveness properties say.

### Where the code and its documents differ

The models show these behaviours because the code has them; each property above is
stated so that it does not deny them.

1. A process that dies after it created the upgrade lock and before it created its
   journal leaves a lock that `upgrade recover` cannot remove, because it opens the
   journal first (`transaction.rs:161`). The comment of `release_owned`
   (`lock.rs:42`) promises the opposite. `RecoveryEnds` speaks of transactions with
   a journal.
2. Three writes of the journal in `apply_plan` are followed by `?` (`apply.rs:189`).
   When one of them fails, the lock is given up with files replaced, and the next
   apply makes its backups from them. `VerdictIsTrue` speaks of transactions that
   were settled.
3. On Windows a file is removed before its replacement is renamed into place. A
   crash between the two leaves no file, which recovery takes for an edit by the user
   (`UserModifiedIsReal`, a part of `VerdictIsTrue`, is therefore checked without
   `Windows` only). `pair` is a Windows instance and has this crash: that the lost file
   never passes for restored is `RollbackRestores` there.
4. `should_abort` counts subscribers, and `terminate_if_cancelled` publishes the
   cancellation under another acquisition of the lock without counting again
   (`build_coordinator.rs:457`): a follower that joins in between finds a record
   that says "cancelled" though it never was, where the comments at lines 600 and 626
   keep a build for whoever still waits. No property denies it: `AbandonedMeansDead` is
   about abandonment only. The follower goes round its loop and gets a build of its own.
5. The loop's list of retryable errors lacks the one that a waiter has just written
   (`build_coordinator.rs:799`), so that a dead leader's attempt is returned as a
   failure while a third process is subscribed, and not taken over.
6. Every read of the operation store times out what is due, delivered or not
   (`operations.rs:660`). An action that the app may have executed ends as
   `timed_out`, where the fault matrix in the documentation promises `unknown`.
7. `src/README.md:58` says that every save triggers a rebuild. A save that is
   reported after the last synchronization of a build cycle and before its drain is
   dropped (`live.rs:1871`) and waits for the next event. `AskedIsBuilt` is about
   builds that somebody asked for.
8. `confirmed` of the assets may be said of an app that registered while the
   broadcast was under way and was sent the rest only
   (`docs/DESIGN-agent-live-feedback.md:246` and `:278`); the next manifest puts it
   right, which is what `ReconnectHeals` says.
9. A reference to an artifact is counted before its record is written; when
   that fails the call fails and the reference stays (`artifacts.rs:679`), so that
   the session never expires the artifact. References are never written to
   disk (`docs/design/observation-protocol.md:302`): another session expires
   what has not been written within the time to live, whoever reads it, and a pin
   that is set after that is a pin of nothing.
10. Desktop and iOS builds publish a manifest also when their plan is unfit for
    reuse, and a later build whose plan is fit may have the same key: a wrapper
    or flag that is not Unicode is hashed as if it were unset
    (`build_inputs.rs:4448`). It then hits what the comment at `run.rs:264` says is
    not shared. `OutputMatchesKey` asks for the absence of hidden inputs of
    Android only.
11. rustc, Xcode and the NDK are in the key and are not compared again. An update
    during the build leaves its output under the old key; `Answers` leaves the
    toolchain out.
12. An Android build that cannot be shared returns its path unverified after
    it released the lock, and the last verified lookup of the others runs without
    the lock that the documentation of `lookup_verified` asks its caller to hold
    (`build_cache.rs:654`). On the desktop `cargo run` builds once more in the
    shared root, without its lock. `ReturnedIsPlanned` is about mobile builds that
    are returned as reusable.
13. A leader whose Gradle distribution changed during its build is told that its
    output does not verify, though the closure had decided to go on unshared.
14. The comment of `release_owned` (`lock.rs:42`) says that "a lock owned by another
    transaction is never silently removed". The function reads the owner and then
    unlinks the path. Of two `upgrade recover` of one transaction that both read
    the owner, one unlinks, a new apply takes the lock, and the other unlinks
    that. `commands/upgrade.rs:96` does not keep a second recovery from starting. No
    property claims whose lock a recovery removes, because the claim would be false;
    `pair` has one recoverer, and the theorems that need one say so (`OneRecovery`).

## 4. Fairness

- *Upgrade*: a running process takes its next step unless it dies (weak fairness
  per process). The user runs `recover` on what a dead process left: strong
  fairness, because another recovery may be running again and again in between.
  Nothing is asked of crashes, faults and edits, all of which are bounded.
- *Coordinator*: weak fairness per caller and cleaner. It includes that a compiler
  ends; `cargo` is given no timeout by the code. Nothing makes a cleaner start.
- *Lease*: the heartbeat's wait has a timeout, and a release, once begun, has no
  other wait than for that thread. Workloads may last for ever.
- *Matrix*: threads go on and runners end. No deadline has to pass: the matrix
  ends without one.
- *Actions*: control, heartbeat, live and reader threads go on, and time passes.
  The app may never answer, a connection need not be lost, and a result that was
  sent need not arrive.
- *Live loop*: the main thread goes on, compilers end, the watcher queues the
  event it holds, and the system reports every save some time. Nobody has to save,
  ask or quit, and the app may crash or never connect.
- *Assets*: the threads of the session and of the app go on, and an app that lost its
  connection connects again, as its thread tries for ever. Nothing has to be drawn.
- *Index*, *artifacts*, *frozen builds*: safety only, no fairness.

## 5. What is proved

TLAPS checks the proofs for every value of the constants that satisfies the
module's named assumption, so for any number of files, sessions, cells, directories
and any bound on crashes and faults. All theorems have the form `Spec => []P` or
`Spec => [][A]_vars`, but for the refinement, which is `Spec => UiAction!Spec`. Those
about `InputIndex` and `AssetSync` are stated of the instances `Index` and `Assets` in
`LiveLoopProofs`, with the module's assumption as their hypothesis.

- **`UpgradeTransactionProofs`** — `TypeCorrect`, `BackupsCorrect`,
  `WritesArePreserved`, for any number of applies and recoveries.
  `BackupCoversReplaced` is not inductive: recovery writes the journal from what it
  loaded, and the file states it loaded may be older than the durable ones. The
  invariant `BackupInv` adds `Knows(p)`, that the memory of a working process
  claims no more than the backups hold, and `RecoverAlone`, that nobody else
  works on the transaction of a recovery. `EditsPreserved` is an action property; it
  rests on `FreshInv`: from its comparison to its write a process knows what it
  overwrites, unless somebody wrote the file since.

  `OneApplyInside`, `RollbackIsComplete`, `CommitIsComplete`,
  `UserIsNotBlamed` and `VerdictHolds` are proved under `OneRecovery`, that recoveries
  do not run side by side, as two that do can remove a third one's lock (section
  3, item 14). `LockInv` says that who is inside created the lock, and that a
  recovery about to remove it has found its own transaction there. `VerdictInv`
  speaks of transactions that have not ended, so that their journal is true when they
  do: a file the journal has as before holds its old bytes unless somebody else
  wrote it (`JournalTrue`), so it is in the memory of the process that will write
  the journal next (`MemoryTrue`), and where a process stands in a loop over the files
  tells what it did to those it has passed (`PlaceTrue`). Frame
  lemmas (`Quiet`, `Kept`, `Gentle`) say once what a step of one process leaves alone of
  another's transaction, so that each action is looked at for its own.
  `UserIsNotBlamed`, and with it `VerdictHolds`, also assumes `~Windows`: a file that
  is removed before it is replaced has neither old nor new bytes for a moment, and
  `BlameInv` needs it to have one of them (item 3).
- **`BuildCoordinatorProofs`** — `NoLeaderIsFencedOff`, `OutcomesAreOwn`,
  `OutputsAreVerified`, `AbandonedIsDead`: all safety of the module. `LockInv` gives
  the output lock to whoever is at certain places; `RecordInv` says that a record
  "building" is that of a leader of this kind, which leads or died while it did;
  `ResultInv` that a leader compiles only what is not there; `WaitInv` that a
  follower is subscribed or waits in vain, and that nobody waits for a success whose
  artifacts the cleaner took. The last is what keeps a follower's success whole
  although the cleaner runs.
- **`DeviceLeaseProofs`** — `TypeCorrect`, `NeverFenced`, `NothingLeft`,
  `OverlapDetected`. `LockInv` ties positions of a session to the lock;
  `RecordInv` says who may be in the record at each position, in particular
  that a heartbeat between remove and persist has the lock; `ChildInv` says that
  a child that was disturbed can no longer find its supervisor's name, because
  records are written only by the holder of the lock and tokens never come
  back.
- **`MatrixExecutorProofs`** — `TypeCorrect`, `SettledAfterCleanup`,
  `ExclusiveResources`, `ReportsEarned`, `WorkersBounded`. `WorkerInv` relates
  the state of a cell to its worker and says that a cell is in the channel once,
  exactly when its result was sent; `HeldInv` that the pool holds what the
  workers hold, without overlap; `EarnedInv` and `KeptInv` follow a finding from
  the worker through the channel to the report, and together make `ReportIsEarned`.
  `ParallelBounded` follows from `RoomInv`, that no more cells are active than
  `max_parallel`. One step of the supervisor starts a set of cells; `ReadyFit` shows
  that they fit: a cell is ready when fewer cells are queued before it than there are
  free places, and before the last one that is ready all the others are queued.
- **`ActionDeliveryProofs`** — `TypesAreKept`, `FailedIsNotExecuted`, `PromiseIsKept`. The
  last is the refinement: `KeepsPromise` is `UiAction!Spec`, and every step of the
  detailed system is a step of `UiAction` or leaves the operations and executions as they
  were. It needs `PlaceInv`, that before it is sent a request is in one place only (the
  queue, a list of the heartbeat, the hands of one thread, or withdrawn by the
  reader of a lost connection), and `FateInv`, that what is in such a place has not
  reached the app, and that what failed was not executed. Without the first, a
  request that one thread reports as failed could still be sent by another, and
  `failed` would invite a retry of what is executed later. `WithoutFacts` says what is
  left of a queue when requests are taken out; it is proved from the least length at
  which the recursive function `kept` would go wrong, since the library's induction
  theorems cannot be instantiated here.
- **`FrozenBuildProofs`** — `OutputsMatchKeys`, `ResultsArePlanned`. `OutputMatchesKey`
  is about outputs that verify, and is not inductive: it says nothing of how an
  output that does not verify yet was made. `PlanInv` says what a plan knows at each
  step of planning, in particular that a copied key store is no older than the
  identity in the key; `LockInv` that one command works in an output root;
  `MadeInv` what the files there were made from between the compiler and the
  manifest, comparison by comparison; `ManifestInv` that no manifest lists
  anything that is not what its key says. The last holds of manifests whether
  their files are still there or not, and is what makes a later hit right.
- **`LiveLoopProofs`**, the live loop — `AppIsItsRevision`, `StatusIsTruthful`,
  `ObservationsAreCurrent`, from the invariant `LiveInv` (`LiveInvHolds`). `Pair` ties
  revisions to contents: what was made of the source has the desired revision
  exactly when it has the content of the index, and is older in both otherwise. A
  scan keeps that, because what it finds is new exactly when it counts a revision up
  (`SyncFacts`). `BuildInv` follows a build through the loop: the revision is read
  before the source, so what was compiled is of that revision or newer, and
  after both comparisons it is of it. `LagInv` says that what the index has not seen
  is marked or unreported, or the index is in doubt, which is what makes a
  status true after the marks are gone. `ObserverInv` is the same pair for the target
  of an observation; while a window is captured, other threads may still
  synchronize, and only the second comparison makes `shown` good enough.
- **`LiveLoopProofs`**, the index — `IndexSound`, `NothingForgotten`, `PublishedAtOnce`. That
  the idle index forgets nothing is not inductive, because a scan reads file by file
  while changes go on. `ForgetInv` says at each moment of each scan what may be missed:
  of the files an incremental scan has read (`DirtyInv`) and of those a full pass has
  read (`FullInv`), only what the watcher has yet to tell. `PublishedAtOnce` rests on
  `TogetherInv`, that what had been overwritten when the first pass ended is not
  found by the second in a file that did not get it back; contents may return. `TypeInv` adds that the marks are finite, which the limit
  on their number needs.
- **`LiveLoopProofs`**, the assets — `MarksHold`, from `AssetInv` (`AssetInvHolds`). That an
  applied asset is not shown in an older content needs the manifests that are on
  their way: `Past` says of a list of contents that none is later than the one on
  disk, and `SessionInv`, `ChannelInv` and `AppInv` say it of every list in the
  session, in each message, and in the app. An edit keeps it since it writes a
  later content or none, and a file that comes back has a content later than any before
  (`DiskGrows`). So whatever order messages and reloads have, a content
  loaded after the eviction is no older than the mark.
- **`ArtifactStoreProofs`** — `PublishedWhole`, `QuotaIsKept`, `UsedOrPinnedIsKept`, from
  `IInv` (`InvariantHolds`). `SlotInv` says of each artifact what its record in memory,
  its record on disk and its two files tell of one another, for sessions that run and
  for those that died; `CallInv` what the call that holds the lock goes by at each of its
  steps, which are the points of a crash; `ClaimInv` that what is declared on disk and
  has a file, with the transfer that is about to begin, is within the quota.
  The last is stronger than `QuotaHolds`, which counts only what was stored:
  a grant is checked before its record is written. The sum is a fold, of which the
  library has no facts; that it is unique, grows by what is added and is monotone is
  proved from the smallest set of artifacts where it would fail
  (`SmallestSet`, by the well-foundedness of strict subsets).

Only model-checked: every liveness property (`RecoveryEnds`, `EverythingEnds`,
`ReconnectHeals`, `AskedIsBuilt` and the others: the prover's rules do not reach fairness
and `ENABLED`), and the upgrade's verdicts when several recoveries run at once, or on
Windows, where they do not hold. Otherwise every safety property that a run checks is
stated by a theorem, of the module or of its instance.

## 6. What is not modelled, and the plan

Not modelled because there is no order of steps to get wrong: parsing, rendering,
templates, toolchain probing, drivers of external tools, digests, the choice of
devices, the interpreter of scenarios.

Left out of modelled components: the rules by which a Gradle script, a plugin or an
environment is found unfit for reuse (a free choice in `FrozenBuild`), mobile
targets and the state handoff of the live loop, heartbeats, probes, semantics and
required assets of the app channel, limits of artifacts by kind, and capture.

Not modelled yet, in this order:

1. **Event store**: the bounded log with cursors and gaps, refining an unbounded
   log.
2. **Operations**, the rest: repeated requests, `observe` with its pipeline of build,
   window and capture, retention.
3. **App channel**: heartbeats against the loss of connections, several windows.
4. **Previews**: their use of frozen inputs, and `FrozenBuild` composed with
   `BuildCoordinator` in one state.
5. Proofs about these, in the form of section 5.
