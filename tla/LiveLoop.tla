------------------------------- MODULE LiveLoop -------------------------------
(***************************************************************************)
(* The loop of `gpui run --live` on the desktop.  A watcher thread marks   *)
(* what was saved in the index of the inputs and queues an event; the main *)
(* thread takes the events, synchronizes the index, and builds and         *)
(* launches the app again, or sends it the changed assets.  Control        *)
(* threads ask for builds and observations, and synchronize the index too. *)
(*                                                                         *)
(* One source and one asset stand for the inputs; a save gives its input a *)
(* content that was never there before, so contents are numbers.  A scan   *)
(* is one step here: it holds the lock of the index and is repeated until  *)
(* it is stable (module InputIndex opens it up).                           *)
(*                                                                         *)
(* `stopping` is set before Event::Quit is queued and is read wherever the *)
(* event is, so the event itself is left out.                              *)
(***************************************************************************)
EXTENDS Naturals, Sequences, SequencesExt

CONSTANTS
  Observers,   \* observations asked for by control clients
  None,        \* no build, no app, no event
  QueueSize,   \* the limit of the event queue (64)
  MaxSaves, MaxAsks, MaxFaults   \* bounds on the user and the environment

Kinds == {"code", "asset"}

\* The steps of the main thread; while it captures a window, it is at the
\* observation that it captures it for.
Steps == {"top", "observe", "wait", "scan", "assets", "build", "revise", "compile", "compiled",
          "saved", "stop", "launch", "spawn", "latest", "drain", "next", "end", "ended"}

\* What is kept of an event, a build, an app and an observation.
Contents  == [Kinds -> 0 .. MaxSaves]
Revisions == [Kinds -> 0 .. MaxSaves]
Events == [kind : Kinds, before : Revisions]
Builds == [rev : Revisions, exe : 0 .. MaxSaves \union {None},
           status : {"building", "succeeded", "failed", "superseded"}]
Runs   == [rev : Revisions, code : 0 .. MaxSaves, connected : BOOLEAN, confirmed : BOOLEAN,
           process : {"starting", "running", "exited", "launch_failed"}]
Observations == [state : {"idle", "queued", "ok", "superseded", "failed"}, sync : BOOLEAN,
                 target : Revisions \union {None}, wanted : 0 .. MaxSaves, asked : BOOLEAN,
                 shown : 0 .. MaxSaves, current : BOOLEAN]

ASSUME ConstantsAssumption ==
  /\ None \notin Events /\ None \notin Builds /\ None \notin Runs
  /\ Observers \intersect Steps = {}
  /\ QueueSize \in Nat \ {0}
  /\ MaxSaves \in Nat /\ MaxAsks \in Nat /\ MaxFaults \in Nat

VARIABLES
  disk,        \* the content of the source and of the asset
  unreported,  \* what was saved and the watcher has not told yet
  sending,     \* the event that the watcher is about to queue, "none" if there is none
  queue, overflow,
  manifest, dirty, force,   \* the index: what it knows, doubts, and doubts altogether
  desired,     \* the revision of the manifest
  stopping,
  requested,   \* a client asked for a build
  pc,          \* of the main thread
  event,       \* the event at hand and the revision before it
  build, again, lastFailed,
  run,         \* the app as the session knows it
  observer, todo,           \* the observations, and those to look at in this round
  asked,       \* the source when a build was last asked for
  saves, asks, faults

index == <<manifest, dirty, force, desired>>
files == <<disk, unreported, sending, saves>>
mail  == <<queue, overflow, requested, stopping, asked, asks>>
local == <<pc, event, build, again, lastFailed, todo>>
vars  == <<files, index, mail, local, run, observer, faults>>

-----------------------------------------------------------------------------
(* Synchronizing the index. *)

Doubted(full) == IF full \/ force THEN Kinds ELSE dirty

\* What a scan finds, and the revision that it makes of it.
Found(full) == [k \in Kinds |-> IF k \in Doubted(full) THEN disk[k] ELSE manifest[k]]
Revised(full) == [k \in Kinds |-> IF Found(full)[k] # manifest[k] THEN desired[k] + 1 ELSE desired[k]]

\* A new asset revision is one that the app has not confirmed.
Unconfirmed(r, rev) ==
  IF r # None /\ rev.asset # desired.asset THEN [r EXCEPT !.confirmed = FALSE] ELSE r

Sync(full) ==
  /\ manifest' = Found(full) /\ desired' = Revised(full)
  /\ dirty' = {} /\ force' = FALSE

\* A failed scan leaves the index as it is and in doubt; what fails before a
\* full scan begins leaves no trace.
SyncFails(full) ==
  /\ faults < MaxFaults /\ faults' = faults + 1
  /\ force' \in {TRUE} \union (IF full THEN {force} ELSE {})
  /\ UNCHANGED <<manifest, dirty, desired>>

-----------------------------------------------------------------------------
(* The user, the watcher and the clients. *)

Save(k) ==
  /\ saves < MaxSaves /\ saves' = saves + 1
  /\ disk' = [disk EXCEPT ![k] = @ + 1] /\ unreported' = unreported \union {k}
  /\ UNCHANGED <<sending, index, mail, local, run, observer, faults>>

ReportUnmarked(batch, incomplete) ==
  /\ sending = "none" /\ pc # "ended"
  /\ batch # {} /\ batch \subseteq unreported
  /\ unreported' = unreported \ batch
  /\ sending' = IF "code" \in batch THEN "code" ELSE "asset"
  /\ UNCHANGED <<disk, saves, index, mail, local, run, observer, faults>>

\* The callback: the index is marked before the event is queued.
Report(batch, incomplete) ==
  /\ sending = "none" /\ pc # "ended"
  /\ batch # {} /\ batch \subseteq unreported
  /\ unreported' = unreported \ batch /\ dirty' = dirty \union batch
  /\ IF incomplete THEN faults < MaxFaults /\ faults' = faults + 1 ELSE UNCHANGED faults
  /\ force' = (force \/ incomplete) /\ overflow' = (overflow \/ incomplete)
  /\ sending' = IF "code" \in batch THEN "code" ELSE "asset"
  /\ UNCHANGED <<disk, saves, manifest, desired, queue, requested, stopping, asked, asks,
                 local, run, observer>>

SendReportUnbounded ==
  /\ sending # "none" /\ sending' = "none"
  /\ queue' = Append(queue, sending)
  /\ UNCHANGED <<disk, unreported, saves, index, overflow, requested, stopping, asked, asks,
                 local, run, observer, faults>>

SendReport ==
  /\ sending # "none" /\ sending' = "none"
  /\ IF Len(queue) < QueueSize
     THEN queue' = Append(queue, sending) /\ UNCHANGED <<force, overflow>>
     ELSE force' = TRUE /\ overflow' = TRUE /\ UNCHANGED queue
  /\ UNCHANGED <<disk, unreported, saves, manifest, dirty, desired, requested, stopping, asked,
                 asks, local, run, observer, faults>>

\* The watcher reports an error in place of the events.
WatchError(batch) ==
  /\ faults < MaxFaults /\ faults' = faults + 1
  /\ sending = "none" /\ batch \subseteq unreported
  /\ unreported' = unreported \ batch /\ force' = TRUE /\ overflow' = TRUE
  /\ UNCHANGED <<disk, sending, saves, manifest, dirty, desired, queue, requested, stopping,
                 asked, asks, local, run, observer>>

Ask ==
  /\ asks < MaxAsks /\ asks' = asks + 1 /\ pc # "ended"
  /\ asked' = disk.code

\* The key `r`: an event, or the flag when the queue is full.
ForceBuild ==
  /\ Ask
  /\ IF Len(queue) < QueueSize
     THEN queue' = Append(queue, "force") /\ UNCHANGED overflow
     ELSE overflow' = TRUE /\ UNCHANGED queue
  /\ UNCHANGED <<files, index, requested, stopping, local, run, observer, faults>>

RequestBuild ==
  /\ Ask /\ requested' = TRUE
  /\ UNCHANGED <<files, index, queue, overflow, stopping, local, run, observer, faults>>

Quit ==
  /\ ~stopping /\ stopping' = TRUE
  /\ UNCHANGED <<files, index, queue, overflow, requested, asked, asks, local, run, observer, faults>>

-----------------------------------------------------------------------------
(* Observations. *)

Unasked == [state |-> "idle", sync |-> FALSE, target |-> None, wanted |-> 0, asked |-> FALSE,
            shown |-> 0, current |-> FALSE]

Observed(o, s) == observer' = [observer EXCEPT ![o] = [Unasked EXCEPT !.state = s]]

\* A control thread records the target of the observation and queues it.
Submit(o, sync) ==
  /\ observer[o].state = "idle" /\ ~stopping /\ pc # "ended"
  /\ \/ /\ Sync(TRUE) /\ UNCHANGED faults
        /\ run' = Unconfirmed(run, desired')
        /\ observer' = [observer EXCEPT ![o] =
             [@ EXCEPT !.state = "queued", !.sync = sync, !.target = desired', !.wanted = disk.code]]
     \/ SyncFails(TRUE) /\ Observed(o, "failed") /\ UNCHANGED run
  /\ UNCHANGED <<files, mail, local>>

\* The deadline, a cancellation, or a requirement that cannot be met.
Expire(o) ==
  /\ observer[o].state = "queued" /\ Observed(o, "failed")
  /\ UNCHANGED <<files, index, mail, local, run, faults>>

-----------------------------------------------------------------------------
(* The main thread between two builds. *)

At(l)   == pc = l
Goto(l) == pc' = l

Process == IF run = None THEN "none" ELSE run.process
Running == Process = "running"

\* The head of the loop: the observations that are queued are looked at once.
Top ==
  /\ At("top")
  /\ IF stopping THEN Goto("end") /\ UNCHANGED todo
                 ELSE Goto("observe") /\ todo' = {o \in Observers : observer[o].state = "queued"}
  /\ UNCHANGED <<files, index, mail, event, build, again, lastFailed, run, observer, faults>>

Dismiss(o) == todo' = todo \ {o} /\ UNCHANGED pc

ShowsAny(rev) == Running

\* The app that runs is of the revision.
Shows(rev) == Running /\ run.rev = rev

\* A synchronized observation of an app that is not of its target: it fails
\* when a build for the target did, and otherwise waits, for a build that it
\* asks for if none is on its way.
AwaitTarget(o, target) ==
  LET mine   == run # None /\ run.rev = target
      built  == build # None /\ build.rev = target
      failed == \/ mine /\ Process \in {"exited", "launch_failed"} /\ built /\ build.status = "succeeded"
                \/ built /\ build.status = "failed"
      coming == (built /\ build.status = "building") \/ (mine /\ Process = "starting")
  IN  IF failed THEN Observed(o, "failed") /\ UNCHANGED requested
      ELSE IF observer[o].asked \/ coming THEN UNCHANGED <<observer, requested>>
      ELSE observer' = [observer EXCEPT ![o].asked = TRUE] /\ requested' = TRUE

\* The window is there to be captured, or may yet be, or never will.
AwaitWindow(o) ==
  \/ Running /\ run.connected /\ Goto(o) /\ UNCHANGED <<todo, observer>>
  \/ Running /\ Dismiss(o) /\ UNCHANGED observer
  \/ Process = "starting" /\ Dismiss(o) /\ UNCHANGED observer
  \/ Process \in {"none", "exited", "launch_failed"} /\ Dismiss(o) /\ Observed(o, "failed")

Observe(o) ==
  /\ At("observe") /\ o \in todo
  /\ IF observer[o].state # "queued"
     THEN Dismiss(o) /\ UNCHANGED <<index, run, observer, requested, faults>>
     ELSE IF ~observer[o].sync
     THEN AwaitWindow(o) /\ UNCHANGED <<index, run, requested, faults>>
     ELSE \/ /\ SyncFails(TRUE) /\ Observed(o, "failed") /\ Dismiss(o)
             /\ UNCHANGED <<run, requested>>
          \/ /\ Sync(TRUE) /\ run' = Unconfirmed(run, desired') /\ UNCHANGED faults
             /\ IF desired' # observer[o].target
                THEN Observed(o, "superseded") /\ Dismiss(o) /\ UNCHANGED requested
                ELSE IF ~Shows(desired')
                THEN AwaitTarget(o, desired') /\ Dismiss(o)
                ELSE IF ~run.confirmed
                THEN Dismiss(o) /\ UNCHANGED <<observer, requested>>
                ELSE AwaitWindow(o) /\ UNCHANGED requested
  /\ UNCHANGED <<files, queue, overflow, stopping, asked, asks, event, build, again, lastFailed>>

\* The screenshot is taken; then run and revision are compared once more.
Capture(o) ==
  /\ At(o) /\ Goto("observe") /\ todo' = todo \ {o}
  /\ IF observer[o].state # "queued" \/ ~Running \/ (observer[o].sync /\ ~run.confirmed)
     THEN Observed(o, "failed") /\ UNCHANGED <<index, run, faults>>
     ELSE \/ SyncFails(TRUE) /\ Observed(o, "failed") /\ UNCHANGED run
          \/ /\ Sync(TRUE) /\ run' = Unconfirmed(run, desired') /\ UNCHANGED faults
             /\ IF desired' # observer[o].target THEN Observed(o, "superseded")
                ELSE observer' = [observer EXCEPT ![o] =
                  [@ EXCEPT !.state = "ok", !.shown = run.code,
                            !.current = (run.rev.code = observer[o].target.code)]]
  /\ UNCHANGED <<files, mail, event, build, again, lastFailed>>

\* An accepted request for a build, or assets that a new connection lacks and
\* could not be given.
TakeRequest ==
  /\ At("observe") /\ todo = {}
  /\ \/ requested /\ requested' = FALSE /\ Goto("build") /\ UNCHANGED faults
     \/ ~requested /\ Goto("wait") /\ UNCHANGED <<requested, faults>>
     \/ ~requested /\ run # None /\ faults < MaxFaults /\ faults' = faults + 1
        /\ Goto("build") /\ UNCHANGED requested
  /\ UNCHANGED <<files, index, queue, overflow, stopping, asked, asks,
                 event, build, again, lastFailed, todo, run, observer>>

\* The timeout or an event, which is dropped after an overflow.
Wait ==
  /\ At("wait")
  /\ \/ queue = <<>> /\ Goto(IF overflow THEN "build" ELSE "top") /\ UNCHANGED <<queue, event>>
     \/ /\ queue # <<>> /\ queue' = Tail(queue)
        /\ IF overflow \/ Head(queue) = "force" THEN Goto("build") /\ UNCHANGED event
           ELSE Goto("scan") /\ event' = [kind |-> Head(queue), before |-> desired]
  /\ overflow' = FALSE
  /\ UNCHANGED <<files, index, requested, stopping, asked, asks, build, again, lastFailed, todo,
                 run, observer, faults>>

\* A reported save: nothing new, a build, or new assets only.
Scan ==
  /\ At("scan") /\ event' = None
  /\ \/ SyncFails(FALSE) /\ Goto("top") /\ UNCHANGED run
     \/ /\ Sync(FALSE) /\ run' = Unconfirmed(run, desired') /\ UNCHANGED faults
        /\ Goto(IF desired' = event.before THEN "top" ELSE IF event.kind = "code" THEN "build" ELSE "assets")
  /\ UNCHANGED <<files, mail, build, again, lastFailed, todo, observer>>

\* The app gets the assets over its connection; failing that it is built again.
SendAssets ==
  /\ At("assets")
  /\ \/ run # None /\ run.connected /\ Goto("top")
     \/ Goto("build")
  /\ UNCHANGED <<files, index, mail, event, build, again, lastFailed, todo, run, observer, faults>>

-----------------------------------------------------------------------------
(* A build cycle. *)

\* The inputs are synchronized; the revision that the build is for is read
\* after that, when another thread may have synchronized them again.
BeginBuild ==
  /\ At("build")
  /\ IF stopping THEN Goto("end") /\ UNCHANGED <<index, run, faults>>
     ELSE \/ SyncFails(TRUE) /\ Goto("end") /\ UNCHANGED run
          \/ Sync(TRUE) /\ run' = Unconfirmed(run, desired') /\ Goto("revise") /\ UNCHANGED faults
  /\ UNCHANGED <<files, mail, event, build, again, lastFailed, todo, observer>>

TakeRevision ==
  /\ At("revise") /\ Goto("compile")
  /\ build' = [rev |-> desired, exe |-> None, status |-> "building"]
  /\ UNCHANGED <<files, index, mail, event, again, lastFailed, todo, run, observer, faults>>

\* How run_iteration ended; a superseded build leaves lastFailed as it was.
Finish(status) ==
  /\ Goto("latest") /\ build' = [build EXCEPT !.status = status, !.exe = None]
  /\ again' = (status = "superseded")
  /\ lastFailed' = IF status = "superseded" THEN lastFailed ELSE status = "failed"

\* The compiler reads the source at some moment; it may fail, or be stopped
\* when the session has seen another revision.
Compile ==
  /\ At("compile")
  /\ \/ Goto("compiled") /\ build' = [build EXCEPT !.exe = disk.code] /\ UNCHANGED <<again, lastFailed, faults>>
     \/ faults < MaxFaults /\ faults' = faults + 1 /\ Finish("failed")
     \/ (stopping \/ desired # build.rev) /\ Finish("superseded") /\ UNCHANGED faults
  /\ UNCHANGED <<files, index, mail, event, todo, run, observer>>

CheckSeen(from, to) ==
  /\ At(from)
  /\ IF stopping \/ desired # build.rev THEN Finish("superseded")
                                        ELSE Goto(to) /\ UNCHANGED <<build, again, lastFailed>>
  /\ UNCHANGED <<files, index, mail, event, todo, run, observer, faults>>

\* Only a build of what is on disk goes on; checked before the app is asked to
\* save its state and again before it is replaced.
CheckCurrent(from, to) ==
  /\ At(from)
  /\ \/ /\ ~stopping /\ SyncFails(TRUE) /\ Finish("failed") /\ UNCHANGED run
     \/ /\ stopping /\ Finish("superseded") /\ UNCHANGED <<index, run, faults>>
     \/ /\ ~stopping /\ Sync(TRUE) /\ run' = Unconfirmed(run, desired') /\ UNCHANGED faults
        /\ IF desired' = build.rev THEN Goto(to) /\ UNCHANGED <<build, again, lastFailed>>
                                   ELSE Finish("superseded")
  /\ UNCHANGED <<files, mail, event, todo, observer>>

Exit(r) == IF r = None \/ r.process = "launch_failed" THEN r
           ELSE [r EXCEPT !.process = "exited", !.connected = FALSE]

\* The old app is stopped and its exit is recorded before the new one starts.
Stop ==
  /\ At("stop") /\ Goto("launch") /\ run' = Exit(run)
  /\ UNCHANGED <<files, index, mail, event, build, again, lastFailed, todo, observer, faults>>

Launch ==
  /\ At("launch") /\ Goto("spawn")
  /\ run' = [rev |-> build.rev, code |-> build.exe, process |-> "starting",
             connected |-> FALSE, confirmed |-> FALSE]
  /\ UNCHANGED <<files, index, mail, event, build, again, lastFailed, todo, observer, faults>>

Spawn ==
  /\ At("spawn")
  /\ \/ run' = [run EXCEPT !.process = "running"] /\ Finish("succeeded") /\ UNCHANGED faults
     \/ run' = [run EXCEPT !.process = "launch_failed"] /\ Finish("failed")
        /\ faults < MaxFaults /\ faults' = faults + 1
  /\ UNCHANGED <<files, index, mail, event, todo, observer>>

\* What arrived during the build is coalesced: another cycle follows when the
\* revision moved, the queue overflowed or a build was asked for; the events
\* that tell of saves are dropped.
Latest ==
  /\ At("latest")
  /\ \/ SyncFails(TRUE) /\ Goto("end") /\ UNCHANGED <<again, run, overflow>>
     \/ /\ Sync(TRUE) /\ run' = Unconfirmed(run, desired') /\ Goto("drain") /\ UNCHANGED faults
        /\ again' = (again \/ overflow \/ desired' # build.rev) /\ overflow' = FALSE
  /\ UNCHANGED <<files, queue, requested, stopping, asked, asks, event, build, lastFailed, todo, observer>>

DrainForce ==
  /\ At("drain") /\ Goto("next") /\ queue' = <<>>
  /\ UNCHANGED <<files, index, overflow, requested, stopping, asked, asks, event, build, again, lastFailed, todo,
                 run, observer, faults>>

Drain ==
  /\ At("drain") /\ Goto("next")
  /\ again' = (again \/ Contains(queue, "force")) /\ queue' = <<>>
  /\ UNCHANGED <<files, index, overflow, requested, stopping, asked, asks, event, build, lastFailed, todo,
                 run, observer, faults>>

Cycle ==
  /\ At("next") /\ requested' = FALSE
  /\ Goto(IF stopping THEN "end" ELSE IF again \/ requested THEN "build" ELSE "top")
  /\ again' = FALSE
  /\ UNCHANGED <<files, index, queue, overflow, stopping, asked, asks, event, build,
                 lastFailed, todo, run, observer, faults>>

\* The session ends: the app is stopped with it.
End ==
  /\ At("end") /\ Goto("ended") /\ run' = Exit(run)
  /\ UNCHANGED <<files, index, mail, event, build, again, lastFailed, todo, observer, faults>>

-----------------------------------------------------------------------------
(* The app. *)

Connect ==
  /\ Process \in {"starting", "running"} /\ ~run.connected /\ ~At("spawn")
  /\ run' = [run EXCEPT !.connected = TRUE, !.process = "running"]
  /\ UNCHANGED <<files, index, mail, local, observer, faults>>

\* The app reports which revision of the assets it applied, the desired one or
\* another (module AssetSync).
Confirm(confirmed) ==
  /\ Running /\ run.connected
  /\ run' = [run EXCEPT !.confirmed = confirmed]
  /\ UNCHANGED <<files, index, mail, local, observer, faults>>

Crash ==
  /\ Running /\ faults < MaxFaults /\ faults' = faults + 1
  /\ run' = Exit(run)
  /\ UNCHANGED <<files, index, mail, local, observer>>

-----------------------------------------------------------------------------
\* The session has scanned once; a save may come before the watcher is there.
Init ==
  /\ disk \in [Kinds -> {0, 1}] /\ saves = disk.code + disk.asset /\ saves <= MaxSaves
  /\ unreported = {} /\ sending = "none"
  /\ manifest = [k \in Kinds |-> 0] /\ desired = [k \in Kinds |-> 0]
  /\ dirty = {} /\ force = FALSE
  /\ queue = <<>> /\ overflow = FALSE /\ stopping = FALSE /\ requested = FALSE
  /\ pc = "build" /\ event = None /\ todo = {}
  /\ build = None /\ again = FALSE /\ lastFailed = FALSE /\ run = None
  /\ observer = [o \in Observers |-> Unasked]
  /\ asked = 0 /\ asks = 0 /\ faults = 0

Loop ==
  \/ Top \/ TakeRequest \/ Wait \/ Scan \/ SendAssets
  \/ \E o \in Observers : Observe(o) \/ Capture(o)
  \/ BeginBuild \/ TakeRevision \/ Compile
  \/ CheckCurrent("compiled", "saved") \/ CheckCurrent("saved", "stop")
  \/ Stop \/ Launch \/ Spawn \/ Latest \/ Drain \/ Cycle \/ End

Watcher ==
  \/ \E batch \in SUBSET unreported : Report(batch, FALSE) \/ Report(batch, TRUE) \/ WatchError(batch)
  \/ SendReport

Clients ==
  \/ \E k \in Kinds : Save(k)
  \/ ForceBuild \/ RequestBuild \/ Quit
  \/ \E o \in Observers : Submit(o, TRUE) \/ Submit(o, FALSE) \/ Expire(o)

Next == Loop \/ Watcher \/ Clients \/ Connect \/ Crash \/ \E b \in BOOLEAN : Confirm(b)

Spec == Init /\ [][Next]_vars

\* The main thread and the watcher go on, and a report is not put off for ever.
Fairness ==
  /\ WF_vars(Loop) /\ WF_vars(SendReport)
  /\ WF_vars(\E batch \in SUBSET unreported : Report(batch, FALSE))

FairSpec == Spec /\ Fairness

-----------------------------------------------------------------------------
TypeOK ==
  /\ disk \in Contents /\ manifest \in Contents /\ desired \in Revisions
  /\ unreported \subseteq Kinds /\ dirty \subseteq Kinds /\ sending \in Kinds \union {"none"}
  /\ queue \in Seq(Kinds \union {"force"}) /\ Len(queue) <= QueueSize
  /\ {force, overflow, stopping, requested, again, lastFailed} \subseteq BOOLEAN
  /\ pc \in Steps \union Observers /\ (At("scan") <=> event # None)
  /\ event \in Events \union {None} /\ build \in Builds \union {None} /\ run \in Runs \union {None}
  /\ observer \in [Observers -> Observations] /\ todo \subseteq Observers

\* `gpui dev status` calls an app stale (State::stale).
Stale == ~(Running /\ run.rev = desired)

\* Nothing that was saved is on its way to the index or doubted by it.
Settled == unreported = {} /\ dirty = {} /\ ~force

\* An app was built from the source of the revision that it is said to be of: it
\* has the source that the index knows exactly when its revision is the desired one.
RunIsItsRevision == run # None => (run.rev.code = desired.code <=> run.code = manifest.code)

\* Types, and an app is what it is said to be.
Inv == TypeOK /\ RunIsItsRevision

\* An app that the status does not call stale was built from the source on disk,
\* once every save was reported and looked at.
StatusIsTrue == ~Stale /\ Settled => run.code = disk.code

\* An observation that succeeded as synchronized or as current shows no source
\* older than the one on disk when it was asked for.
ObservationIsCurrent ==
  \A o \in Observers :
    observer[o].state = "ok" /\ (observer[o].sync \/ observer[o].current)
      => observer[o].shown >= observer[o].wanted

\* A build that was asked for, by key or by request, is of the source on disk at
\* that time or a later one, unless a build failed or the session ended.
AskedIsBuilt ==
  \A v \in 1 .. MaxSaves :
    asked = v ~> (run # None /\ run.code >= v) \/ lastFailed \/ pc = "ended"

=============================================================================
