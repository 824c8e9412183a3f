--------------------------- MODULE LiveLoopProofs -----------------------------
(***************************************************************************)
(* Proofs about the live loop: an app is what the session says that it is, *)
(* the status of a session that has looked at every save is true, and an   *)
(* observation shows no source older than the one it was asked for.        *)
(*                                                                         *)
(* The invariant ties contents to revisions.  A save makes a content that  *)
(* is new and a scan counts a revision up for it, so that a thing made of  *)
(* the source (a build, an app, the target of an observation) is of the    *)
(* desired revision exactly when it has the content that the index knows;  *)
(* it stays so however late the scans, and whichever thread makes them.    *)
(*                                                                         *)
(* Then the two parts of the live inputs, as instances: the index of the   *)
(* inputs (InputIndex) never forgets a change and publishes what was on    *)
(* disk together, and the marks of the asset channel (AssetSync) are true. *)
(***************************************************************************)
EXTENDS LiveLoop, FiniteSetTheorems, SequenceTheorems, TLAPS

-----------------------------------------------------------------------------
\* The revision of the source counts with its content: of what was made of it, the
\* revision is the desired one if the content is the one of the index, and both are
\* older otherwise.
Pair(r, c) ==
  \/ r = desired.code /\ c = manifest.code
  \/ r < desired.code /\ c < manifest.code

NumbersInv ==
  /\ \A k \in Kinds : desired[k] <= manifest[k] /\ manifest[k] <= disk[k] /\ disk[k] <= saves
  /\ saves \in Nat /\ saves <= MaxSaves

RunInv ==
  /\ pc = "spawn" => run # None
  /\ run # None => Pair(run.rev.code, run.code)

\* The revision is read before the compiler reads the source, so what is compiled is
\* of the revision or newer; the checks that follow let it pass only if it is of it.
BuildInv ==
  /\ build # None => build.rev.code <= desired.code
  /\ pc \in {"compile", "compiled", "saved", "stop", "launch", "spawn"} => build # None
  /\ pc = "compiled" => /\ build.exe \in 0 .. MaxSaves /\ build.exe <= disk.code
                        /\ build.rev.code = desired.code => manifest.code <= build.exe
  /\ pc \in {"saved", "stop", "launch"} =>
       build.exe \in 0 .. MaxSaves /\ Pair(build.rev.code, build.exe)

\* Before the first build nobody looked at what was saved since the session scanned.
First == pc \in {"build", "end", "ended"} /\ build = None /\ run = None
LagInv == First \/ \A k \in Kinds : disk[k] # manifest[k] => force \/ k \in dirty \union unreported

ObserverInv(o) ==
  LET b == observer[o] IN
  /\ b.state = "queued" => b.target \in Revisions /\ Pair(b.target.code, b.wanted)
  /\ pc = o => b.state # "idle"
  /\ pc = o /\ b.state = "queued" /\ b.sync => run # None /\ run.rev = b.target
  /\ b.state = "ok" /\ (b.sync \/ b.current) => b.shown >= b.wanted
ObserversInv == \A o \in Observers : ObserverInv(o)

LiveInv == TypeOK /\ NumbersInv /\ RunInv /\ BuildInv /\ LagInv /\ ObserversInv
-----------------------------------------------------------------------------

\* What synchronizing the index does: a revision is counted up exactly when what is
\* found is new, a full scan finds what is on disk, and what is left in the dark was
\* so before and is not marked.
LEMMA SyncFacts ==
  ASSUME TypeOK, NumbersInv, NEW full \in BOOLEAN, Sync(full), disk' = disk, saves' = saves
  PROVE  /\ manifest' \in Contents /\ desired' \in Revisions /\ NumbersInv'
         /\ desired.code <= desired'.code
         /\ desired'.code = desired.code => manifest'.code = manifest.code
         /\ desired'.code # desired.code => desired.code < desired'.code /\ manifest.code < manifest'.code
         /\ full => manifest' = disk
         /\ \A k \in Kinds : disk[k] # manifest'[k] => disk[k] # manifest[k] /\ ~force /\ k \notin dirty
<1> DEFINE m == Found(full)
           d == Revised(full)
<1>1. manifest' = m /\ desired' = d
  BY DEF Sync
<1>2. MaxSaves \in Nat /\ "code" \in Kinds
  BY ConstantsAssumption DEF Kinds
<1>3. \A k \in Kinds : disk[k] \in 0 .. MaxSaves /\ manifest[k] \in 0 .. MaxSaves /\ desired[k] \in 0 .. MaxSaves
  BY DEF TypeOK, Contents, Revisions
<1>4. m = [k \in Kinds |-> m[k]] /\ \A k \in Kinds : m[k] = disk[k] \/ m[k] = manifest[k]
  BY DEF Found
<1>5. d = [k \in Kinds |-> d[k]]
      /\ \A k \in Kinds : d[k] = IF m[k] # manifest[k] THEN desired[k] + 1 ELSE desired[k]
  BY DEF Revised
<1>6. \A k \in Kinds : disk[k] # m[k] => disk[k] # manifest[k] /\ ~full /\ ~force /\ k \notin dirty
  BY DEF Found, Doubted
<1> HIDE DEF m, d
<1>7. \A k \in Kinds : d[k] <= m[k] /\ m[k] <= disk[k] /\ m[k] \in 0 .. MaxSaves /\ d[k] \in 0 .. MaxSaves
                       /\ desired[k] <= d[k] /\ manifest[k] <= m[k]
                       /\ (d[k] = desired[k] <=> m[k] = manifest[k])
  <2> SUFFICES ASSUME NEW k \in Kinds
               PROVE  d[k] <= m[k] /\ m[k] <= disk[k] /\ m[k] \in 0 .. MaxSaves /\ d[k] \in 0 .. MaxSaves
                      /\ desired[k] <= d[k] /\ manifest[k] <= m[k]
                      /\ (d[k] = desired[k] <=> m[k] = manifest[k])
    OBVIOUS
  <2>1. desired[k] <= manifest[k] /\ manifest[k] <= disk[k] /\ disk[k] <= MaxSaves
    BY <1>2, <1>3 DEF NumbersInv
  <2>2. m[k] = disk[k] \/ m[k] = manifest[k]
    BY <1>4
  <2>3. d[k] = IF m[k] # manifest[k] THEN desired[k] + 1 ELSE desired[k]
    BY <1>5
  <2> QED BY <1>2, <1>3, <2>1, <2>2, <2>3
<1>8. m \in Contents /\ d \in Revisions
  BY <1>4, <1>5, <1>7 DEF Contents, Revisions
<1>9. NumbersInv'
  BY <1>1, <1>7 DEF NumbersInv
<1>10. full => m = disk
  <2>1. disk = [k \in Kinds |-> disk[k]]
    BY DEF TypeOK, Contents
  <2> QED BY <1>4, <1>6, <2>1
<1>11. d["code"] # desired["code"] => desired["code"] < d["code"] /\ manifest["code"] < m["code"]
  BY <1>2, <1>3, <1>7
<1> QED BY <1>1, <1>2, <1>6, <1>7, <1>8, <1>9, <1>10, <1>11

Synced == \E full \in BOOLEAN : Sync(full) /\ UNCHANGED files

\* What a step does to the index.
LEMMA IndexEffect ==
  ASSUME TypeOK, [Next]_vars
  PROVE  UNCHANGED <<manifest, desired>> \/ Synced
<1>1. CASE Watcher
  BY <1>1 DEF Watcher, Report, WatchError, SendReport
<1>2. CASE Clients
  BY <1>2 DEF Clients, Save, ForceBuild, RequestBuild, Quit, Submit, Expire, index, SyncFails, Synced
<1>3. CASE Connect \/ Crash \/ (\E b \in BOOLEAN : Confirm(b)) \/ UNCHANGED vars
  BY <1>3 DEF Connect, Crash, Confirm, index, vars
<1>4. CASE Top \/ TakeRequest \/ Wait \/ SendAssets \/ TakeRevision \/ Compile \/ Stop \/ Launch \/ Spawn
           \/ Drain \/ Cycle \/ End
  BY <1>4 DEF Top, TakeRequest, Wait, SendAssets, TakeRevision, Compile, Stop, Launch, Spawn, Drain,
    Cycle, End, index
<1>5. CASE Scan
  BY <1>5 DEF Scan, SyncFails, Synced
<1>6. CASE BeginBuild
  BY <1>6 DEF BeginBuild, SyncFails, Synced, index
<1>7. CASE CheckCurrent("compiled", "saved") \/ CheckCurrent("saved", "stop")
  BY <1>7 DEF CheckCurrent, SyncFails, Synced, index
<1>8. CASE Latest
  BY <1>8 DEF Latest, SyncFails, Synced
<1>9. ASSUME NEW o \in Observers, Observe(o) PROVE UNCHANGED <<manifest, desired>> \/ Synced
  BY <1>9 DEF Observe, SyncFails, Synced, index
<1>10. ASSUME NEW o \in Observers, Capture(o) PROVE UNCHANGED <<manifest, desired>> \/ Synced
  BY <1>10 DEF Capture, SyncFails, Synced, index
<1> QED BY <1>1, <1>2, <1>3, <1>4, <1>5, <1>6, <1>7, <1>8, <1>9, <1>10 DEF Next, Loop

\* What a step does to the disk.
LEMMA DiskEffect ==
  ASSUME TypeOK, [Next]_vars
  PROVE  (disk' = disk /\ saves' = saves) \/ \E k \in Kinds : Save(k)
<1>1. CASE Watcher
  BY <1>1 DEF Watcher, Report, WatchError, SendReport
<1>2. CASE Clients
  BY <1>2 DEF Clients, ForceBuild, RequestBuild, Quit, Submit, Expire, files
<1>3. CASE Connect \/ Crash \/ (\E b \in BOOLEAN : Confirm(b)) \/ UNCHANGED vars
  BY <1>3 DEF Connect, Crash, Confirm, files, vars
<1>4. CASE Top \/ TakeRequest \/ Wait \/ SendAssets \/ TakeRevision \/ Compile \/ Stop \/ Launch \/ Spawn
           \/ Drain \/ Cycle \/ End
  BY <1>4 DEF Top, TakeRequest, Wait, SendAssets, TakeRevision, Compile, Stop, Launch, Spawn, Drain,
    Cycle, End, files
<1>5. CASE Scan \/ BeginBuild \/ CheckCurrent("compiled", "saved") \/ CheckCurrent("saved", "stop") \/ Latest
  BY <1>5 DEF Scan, BeginBuild, CheckCurrent, Latest, files
<1>6. ASSUME NEW o \in Observers, Observe(o) \/ Capture(o) PROVE disk' = disk /\ saves' = saves
  BY <1>6 DEF Observe, Capture, files
<1> QED BY <1>1, <1>2, <1>3, <1>4, <1>5, <1>6 DEF Next, Loop

\* What follows from that for the contents and the revisions.
Moved ==
  /\ disk' \in Contents /\ manifest' \in Contents /\ desired' \in Revisions /\ NumbersInv'
  /\ desired.code <= desired'.code /\ disk.code <= disk'.code
  /\ desired'.code = desired.code => manifest'.code = manifest.code
  /\ desired'.code # desired.code => desired.code < desired'.code /\ manifest.code < manifest'.code

\* Contents and revisions only grow, and together.
LEMMA NumbersMove ==
  ASSUME TypeOK, NumbersInv, [Next]_vars
  PROVE  Moved
<1>1. MaxSaves \in Nat /\ Kinds = {"code", "asset"}
  BY ConstantsAssumption DEF Kinds
<1>2. disk.code \in Nat /\ desired.code \in Nat
  BY <1>1 DEF TypeOK, Contents, Revisions
<1>3. CASE Synced
  <2>1. PICK full \in BOOLEAN : Sync(full) /\ UNCHANGED files
    BY <1>3 DEF Synced
  <2>2. disk' = disk /\ saves' = saves
    BY <2>1 DEF files
  <2> QED BY <1>2, <2>1, <2>2, SyncFacts DEF Moved, TypeOK
<1>4. CASE UNCHANGED <<manifest, desired>> /\ disk' = disk /\ saves' = saves
  BY <1>2, <1>4 DEF Moved, TypeOK, NumbersInv
<1>5. ASSUME NEW k \in Kinds, Save(k), UNCHANGED <<manifest, desired>> PROVE Moved
  <2>1. disk' = [disk EXCEPT ![k] = disk[k] + 1] /\ saves' = saves + 1 /\ saves < MaxSaves
    BY <1>5 DEF Save
  <2>2. disk = [j \in Kinds |-> disk[j]] /\ \A j \in Kinds : disk[j] \in 0 .. MaxSaves
    BY DEF TypeOK, Contents
  <2>3. disk' = [j \in Kinds |-> disk'[j]] /\ \A j \in Kinds : disk'[j] = IF j = k THEN disk[j] + 1 ELSE disk[j]
    BY <2>1, <2>2
  <2>4. \A j \in Kinds : manifest[j] \in 0 .. MaxSaves /\ desired[j] \in 0 .. MaxSaves
    BY DEF TypeOK, Contents, Revisions
  <2>5. \A j \in Kinds : disk[j] <= saves /\ saves \in Nat
    BY DEF NumbersInv
  <2>6. \A j \in Kinds : disk'[j] \in 0 .. MaxSaves /\ disk[j] <= disk'[j] /\ disk'[j] <= saves'
    BY <1>1, <2>1, <2>2, <2>3, <2>5
  <2>7. disk' \in Contents
    BY <2>3, <2>6 DEF Contents
  <2>8. NumbersInv'
    <3>1. \A j \in Kinds : desired[j] <= manifest[j] /\ manifest[j] <= disk[j]
      BY DEF NumbersInv
    <3>2. \A j \in Kinds : manifest[j] <= disk'[j]
      BY <1>1, <2>2, <2>4, <2>6, <3>1
    <3> QED BY <1>1, <1>5, <2>1, <2>5, <2>6, <3>1, <3>2 DEF NumbersInv
  <2>9. disk.code <= disk'.code
    BY <1>1, <2>6
  <2> QED BY <1>2, <1>5, <2>7, <2>8, <2>9 DEF Moved, TypeOK
<1>6. CASE UNCHANGED <<manifest, desired>>
  BY <1>4, <1>5, <1>6, DiskEffect
<1> QED BY <1>3, <1>6, IndexEffect

\* What was of a revision, or of an older one, is so after the step.
LEMMA PairsMove ==
  ASSUME TypeOK, Moved, NEW r \in Nat, NEW c \in Nat, Pair(r, c)
  PROVE  Pair(r, c)'
<1>1. desired.code \in Nat /\ manifest.code \in Nat /\ desired'.code \in Nat /\ manifest'.code \in Nat
  BY ConstantsAssumption DEF TypeOK, Moved, Contents, Revisions, Kinds
<1> QED BY <1>1 DEF Pair, Moved

\* The types of the disk and the index after a step.
LEMMA IndexTypes ==
  ASSUME TypeOK, NumbersInv, [Next]_vars
  PROVE  /\ disk' \in Contents /\ manifest' \in Contents /\ desired' \in Revisions
         /\ unreported' \subseteq Kinds /\ dirty' \subseteq Kinds /\ force' \in BOOLEAN
<1>1. disk' \in Contents /\ manifest' \in Contents /\ desired' \in Revisions
  BY NumbersMove DEF Moved
<1>2. CASE Synced
  BY <1>1, <1>2 DEF Synced, Sync, files, TypeOK
<1>3. CASE Watcher
  BY <1>3 DEF Watcher, Report, WatchError, SendReport, TypeOK
<1>4. ASSUME NEW k \in Kinds, Save(k) PROVE unreported' \subseteq Kinds /\ dirty' = dirty /\ force' = force
  BY <1>4 DEF Save, index, TypeOK
<1>5. CASE Clients
  <2>1. ASSUME NEW o \in Observers, NEW s \in BOOLEAN, Submit(o, s)
        PROVE  unreported' = unreported /\ dirty' \subseteq Kinds /\ force' \in BOOLEAN
    BY <2>1 DEF Submit, SyncFails, Sync, files, TypeOK
  <2>2. ASSUME ForceBuild \/ RequestBuild \/ Quit \/ \E o \in Observers : Expire(o)
        PROVE  unreported' = unreported /\ dirty' = dirty /\ force' = force
    BY <2>2 DEF ForceBuild, RequestBuild, Quit, Expire, files, index
  <2> QED BY <1>1, <1>4, <1>5, <2>1, <2>2 DEF Clients, TypeOK
<1>6. CASE Connect \/ Crash \/ (\E b \in BOOLEAN : Confirm(b)) \/ UNCHANGED vars
  BY <1>6 DEF Connect, Crash, Confirm, files, index, vars, TypeOK
<1>7. CASE Top \/ TakeRequest \/ Wait \/ SendAssets \/ TakeRevision \/ Compile \/ Stop \/ Launch \/ Spawn
           \/ Drain \/ Cycle \/ End
  BY <1>7 DEF Top, TakeRequest, Wait, SendAssets, TakeRevision, Compile, Stop, Launch, Spawn, Drain,
    Cycle, End, files, index, TypeOK
<1>8. CASE Scan \/ BeginBuild \/ Latest
  BY <1>2, <1>8 DEF Scan, BeginBuild, Latest, files, index, TypeOK, SyncFails, Synced
<1>9. CASE CheckCurrent("compiled", "saved") \/ CheckCurrent("saved", "stop")
  BY <1>2, <1>9 DEF CheckCurrent, files, index, TypeOK, SyncFails, Synced
<1>10. ASSUME NEW o \in Observers, Observe(o) \/ Capture(o)
       PROVE  unreported' \subseteq Kinds /\ dirty' \subseteq Kinds /\ force' \in BOOLEAN
  BY <1>2, <1>10 DEF Observe, Capture, files, index, TypeOK, SyncFails, Synced
<1> QED BY <1>1, <1>2, <1>3, <1>5, <1>6, <1>7, <1>8, <1>9, <1>10 DEF Next, Loop

\* The types of what the main thread is told, and the limit of the queue.
LEMMA MailTypes ==
  ASSUME TypeOK, [Next]_vars
  PROVE  /\ sending' \in Kinds \union {"none"}
         /\ queue' \in Seq(Kinds \union {"force"}) /\ Len(queue') <= QueueSize
         /\ {overflow', stopping', requested', again', lastFailed'} \subseteq BOOLEAN
<1> DEFINE Flags == /\ sending' \in Kinds \union {"none"}
                    /\ {overflow', stopping', requested', again', lastFailed'} \subseteq BOOLEAN
           Queue == queue' \in Seq(Kinds \union {"force"}) /\ Len(queue') <= QueueSize
<1> DEFINE Q == Seq(Kinds \union {"force"})
<1>1. /\ \A e \in Kinds \union {"force"} : Len(queue) < QueueSize =>
           Append(queue, e) \in Q /\ Len(Append(queue, e)) <= QueueSize
      /\ queue # <<>> => Tail(queue) \in Q /\ Len(Tail(queue)) <= QueueSize
      /\ <<>> \in Q /\ Len(<<>>) <= QueueSize
  <2>1. QueueSize \in Nat /\ queue \in Q /\ Len(queue) \in Nat /\ Len(queue) <= QueueSize
    BY ConstantsAssumption DEF TypeOK
  <2>2. queue # <<>> => Tail(queue) \in Q /\ Len(Tail(queue)) = Len(queue) - 1
    BY <2>1, HeadTailProperties
  <2>3. \A e \in Kinds \union {"force"} : Append(queue, e) \in Q /\ Len(Append(queue, e)) = Len(queue) + 1
    BY <2>1, AppendProperties
  <2>4. <<>> \in Q /\ Len(<<>>) = 0
    BY EmptySeq
  <2> HIDE DEF Q
  <2> QED BY <2>1, <2>2, <2>3, <2>4
<1> HIDE DEF Q
<1>0. queue \in Q /\ Len(queue) <= QueueSize
  BY DEF TypeOK, Q
<1>2. CASE Watcher
  <2>1. Flags
    BY <1>2 DEF Watcher, Report, WatchError, SendReport, TypeOK, local, Kinds
  <2>2. Queue
    <3>1. CASE SendReport
      BY <1>0, <1>1, <3>1 DEF SendReport, TypeOK, Q
    <3> QED BY <1>0, <1>2, <3>1 DEF Watcher, Report, WatchError, Q
  <2> QED BY <2>1, <2>2
<1>3. CASE Clients
  <2>1. Flags
    BY <1>3 DEF Clients, Save, ForceBuild, Ask, RequestBuild, Quit, Submit, Expire, files, mail, TypeOK, local
  <2>2. Queue
    <3>1. CASE ForceBuild
      BY <1>0, <1>1, <3>1 DEF ForceBuild, Q
    <3> QED BY <1>0, <1>3, <3>1 DEF Clients, Save, RequestBuild, Quit, Submit, Expire, mail, Q
  <2> QED BY <2>1, <2>2
<1>4. CASE Connect \/ Crash \/ (\E b \in BOOLEAN : Confirm(b)) \/ UNCHANGED vars
  BY <1>4 DEF Connect, Crash, Confirm, files, mail, local, vars, TypeOK
<1>5. CASE Wait \/ Drain
  <2>1. Flags
    BY <1>5 DEF Wait, Drain, files, TypeOK
  <2>2. Queue
    BY <1>0, <1>1, <1>5 DEF Wait, Drain, Q
  <2> QED BY <2>1, <2>2
<1>6. CASE Top \/ TakeRequest \/ SendAssets \/ TakeRevision \/ Stop \/ Launch \/ Cycle \/ End \/ Scan
           \/ BeginBuild \/ Latest
  BY <1>6 DEF Top, TakeRequest, SendAssets, TakeRevision, Stop, Launch, Cycle, End, Scan, BeginBuild,
    Latest, files, mail, TypeOK
<1>7. CASE Compile \/ Spawn \/ CheckCurrent("compiled", "saved") \/ CheckCurrent("saved", "stop")
  BY <1>7 DEF Compile, Spawn, CheckCurrent, Finish, files, mail, TypeOK
<1>8. ASSUME NEW o \in Observers, Observe(o) \/ Capture(o) PROVE Flags /\ Queue
  BY <1>8 DEF Observe, Capture, AwaitTarget, files, mail, TypeOK
<1> QED BY <1>2, <1>3, <1>4, <1>5, <1>6, <1>7, <1>8 DEF Next, Loop

\* The types of where the main thread is, and it has an event only while it scans.
LEMMA ControlTypes ==
  ASSUME TypeOK, [Next]_vars
  PROVE  /\ pc' \in Steps \union Observers /\ (At("scan")' <=> event' # None)
         /\ event' \in Events \union {None} /\ todo' \subseteq Observers
<1> DEFINE Good == /\ pc' \in Steps \union Observers /\ (At("scan")' <=> event' # None)
                   /\ event' \in Events \union {None} /\ todo' \subseteq Observers
<1>1. \A o \in Observers : o \notin Steps
  BY ConstantsAssumption
<1>2. CASE UNCHANGED <<pc, event, todo>>
  BY <1>2 DEF TypeOK, At
<1>3. CASE Watcher \/ Clients \/ Connect \/ Crash \/ (\E b \in BOOLEAN : Confirm(b)) \/ UNCHANGED vars
  <2>1. UNCHANGED <<pc, event, todo>>
    BY <1>3 DEF Watcher, Report, WatchError, SendReport, Clients, Save, ForceBuild, RequestBuild, Quit,
      Submit, Expire, Connect, Crash, Confirm, local, vars
  <2> QED BY <1>2, <2>1
<1>4. CASE Wait
  <2>1. queue # <<>> => Head(queue) \in Kinds \union {"force"}
    BY HeadTailProperties DEF TypeOK
  <2>2. [kind |-> Head(queue), before |-> desired] \in Events
        \/ queue = <<>> \/ Head(queue) = "force"
    BY <2>1 DEF Events, TypeOK
  <2>3. None \notin Events
    BY ConstantsAssumption
  <2> QED BY <1>4, <2>2, <2>3 DEF Wait, At, Goto, TypeOK, Steps
<1>5. CASE Top \/ TakeRequest \/ SendAssets \/ TakeRevision \/ Stop \/ Launch \/ Cycle \/ End \/ Scan
           \/ BeginBuild \/ Latest \/ Drain
  BY <1>5 DEF Top, TakeRequest, SendAssets, TakeRevision, Stop, Launch, Cycle, End, Scan, BeginBuild,
    Latest, Drain, TypeOK, Steps, At, Goto
<1>6. CASE Compile \/ Spawn \/ CheckCurrent("compiled", "saved") \/ CheckCurrent("saved", "stop")
  BY <1>6 DEF Compile, Spawn, CheckCurrent, Finish, TypeOK, Steps, At, Goto
<1>7. ASSUME NEW o \in Observers, Observe(o) \/ Capture(o) PROVE Good
  BY <1>1, <1>7 DEF Observe, Capture, AwaitTarget, AwaitWindow, Dismiss, TypeOK, Steps, At, Goto
<1> QED BY <1>3, <1>4, <1>5, <1>6, <1>7 DEF Next, Loop

\* The app of the session is the same build as before.
SameRun == IF run = None THEN run' = None
           ELSE run' \in Runs /\ run'.rev = run.rev /\ run'.code = run.code

\* What may change of an app without its being another one.
LEMMA RunOps ==
  ASSUME TypeOK
  PROVE  /\ run # None => run \in Runs
         /\ run' = run => SameRun
         /\ \A rev : run' = Unconfirmed(run, rev) => SameRun
         /\ run' = Exit(run) => SameRun
         /\ run # None => \A b \in BOOLEAN : run' = [run EXCEPT !.confirmed = b] => SameRun
         /\ run # None => (run' = [run EXCEPT !.connected = TRUE, !.process = "running"] => SameRun)
         /\ run # None => \A p \in {"running", "launch_failed"} :
              run' = [run EXCEPT !.process = p] => SameRun
BY DEF TypeOK, SameRun, Unconfirmed, Exit, Runs

\* Only a launch makes another app.
LEMMA RunEffect ==
  ASSUME TypeOK, RunInv, [Next]_vars
  PROVE  SameRun \/ Launch
<1>1. CASE run' = run
  BY <1>1, RunOps
<1>2. CASE Watcher
  BY <1>1, <1>2 DEF Watcher, Report, WatchError, SendReport
<1>3. ASSUME NEW o \in Observers, NEW s \in BOOLEAN, Submit(o, s) PROVE SameRun
  BY <1>1, <1>3, RunOps DEF Submit
<1>4. CASE Clients
  BY <1>1, <1>3, <1>4 DEF Clients, Save, ForceBuild, RequestBuild, Quit, Expire
<1>5. CASE Connect \/ Crash \/ \E b \in BOOLEAN : Confirm(b)
  BY <1>5, RunOps DEF Connect, Crash, Confirm, Process, Running
<1>6. CASE Top \/ TakeRequest \/ Wait \/ SendAssets \/ TakeRevision \/ Compile \/ Drain \/ Cycle
           \/ UNCHANGED vars
  BY <1>1, <1>6 DEF Top, TakeRequest, Wait, SendAssets, TakeRevision, Compile, Drain, Cycle, vars
<1>7. CASE Stop \/ End
  BY <1>7, RunOps DEF Stop, End
<1>8. CASE Spawn
  BY <1>8, RunOps DEF Spawn, RunInv, At
<1>9. CASE Scan \/ BeginBuild \/ Latest \/ CheckCurrent("compiled", "saved") \/ CheckCurrent("saved", "stop")
  BY <1>1, <1>9, RunOps DEF Scan, BeginBuild, Latest, CheckCurrent
<1>10. ASSUME NEW o \in Observers, Observe(o) \/ Capture(o) PROVE SameRun
  BY <1>1, <1>10, RunOps DEF Observe, Capture
<1> QED BY <1>2, <1>4, <1>5, <1>6, <1>7, <1>8, <1>9, <1>10 DEF Next, Loop

\* The app that is launched is what the build made, of the revision of the build.
LEMMA LaunchFacts ==
  ASSUME TypeOK, BuildInv, Launch
  PROVE  /\ run' \in Runs /\ run' # None /\ run'.rev = build.rev /\ run'.code = build.exe
         /\ Pair(build.rev.code, build.exe) /\ pc' = "spawn" /\ build' = build
<1>1. build \in Builds /\ build.exe \in 0 .. MaxSaves /\ Pair(build.rev.code, build.exe)
  BY DEF Launch, At, BuildInv, TypeOK
<1>2. run' = [rev |-> build.rev, code |-> build.exe, process |-> "starting",
              connected |-> FALSE, confirmed |-> FALSE]
  BY DEF Launch
<1>3. run' \in Runs
  BY <1>1, <1>2 DEF Builds, Runs
<1>4. run' # None
  BY <1>3, ConstantsAssumption
<1>5. pc' = "spawn" /\ build' = build
  BY DEF Launch, Goto
<1> QED BY <1>1, <1>2, <1>3, <1>4, <1>5

\* A process is spawned only after a launch.
LEMMA SpawnEffect ==
  ASSUME TypeOK, [Next]_vars, pc' = "spawn"
  PROVE  Launch \/ pc = "spawn"
<1>1. \A o \in Observers : o # "spawn"
  BY ConstantsAssumption DEF Steps
<1>2. CASE Watcher \/ Clients \/ Connect \/ Crash \/ (\E b \in BOOLEAN : Confirm(b)) \/ UNCHANGED vars
  BY <1>2 DEF Watcher, Report, WatchError, SendReport, Clients, Save, ForceBuild, RequestBuild, Quit,
      Submit, Expire, Connect, Crash, Confirm, local, vars
<1>3. CASE Top \/ TakeRequest \/ SendAssets \/ TakeRevision \/ Stop \/ Cycle \/ End \/ Scan
           \/ BeginBuild \/ Latest \/ Drain \/ Wait
  BY <1>3 DEF Top, TakeRequest, SendAssets, TakeRevision, Stop, Cycle, End, Scan, BeginBuild,
    Latest, Drain, Wait, Goto
<1>4. CASE Compile \/ Spawn \/ CheckCurrent("compiled", "saved") \/ CheckCurrent("saved", "stop")
  BY <1>4 DEF Compile, Spawn, CheckCurrent, Finish, Goto
<1>5. ASSUME NEW o \in Observers, Observe(o) \/ Capture(o) PROVE FALSE
  BY <1>1, <1>5 DEF Observe, Capture, AwaitTarget, AwaitWindow, Dismiss, At, Goto
<1> QED BY <1>2, <1>3, <1>4, <1>5 DEF Next, Loop

\* An app stays what it is said to be, and a new one is.
LEMMA RunStep ==
  ASSUME TypeOK, NumbersInv, RunInv, BuildInv, [Next]_vars
  PROVE  run' \in Runs \union {None} /\ RunInv'
<1>1. Moved /\ MaxSaves \in Nat
  BY NumbersMove, ConstantsAssumption
<1>2. CASE Launch
  <2>1. /\ run' \in Runs /\ run' # None /\ run'.rev = build.rev /\ run'.code = build.exe
        /\ Pair(build.rev.code, build.exe) /\ pc' = "spawn" /\ build' = build
    BY <1>2, LaunchFacts
  <2>2. build.rev.code \in Nat /\ build.exe \in Nat
    BY <1>1, <1>2, <2>1 DEF TypeOK, BuildInv, Launch, At, Builds, Revisions, Kinds
  <2>3. Pair(build.rev.code, build.exe)'
    <3>1. PICK r \in Nat, c \in Nat : r = build.rev.code /\ c = build.exe
      BY <2>2
    <3>2. Pair(r, c)'
      BY <1>1, <2>1, <3>1, PairsMove
    <3> QED BY <2>1, <3>1, <3>2
  <2> QED BY <2>1, <2>3 DEF RunInv
<1>3. CASE SameRun /\ ~Launch
  <2>1. pc' = "spawn" => run # None
    BY <1>3, SpawnEffect DEF RunInv
  <2>2. ASSUME run # None PROVE run' \in Runs /\ run' # None /\ Pair(run.rev.code, run.code)'
    <3>1. run \in Runs /\ run' \in Runs /\ run'.rev = run.rev /\ run'.code = run.code
      BY <1>3, <2>2 DEF SameRun, TypeOK
    <3>2. PICK r \in Nat, c \in Nat : r = run.rev.code /\ c = run.code
      BY <1>1, <3>1 DEF Runs, Revisions, Kinds
    <3>3. Pair(r, c)'
      BY <1>1, <2>2, <3>2, PairsMove DEF RunInv
    <3> QED BY <3>1, <3>2, <3>3, ConstantsAssumption
  <2>3. run = None => run' = None
    BY <1>3 DEF SameRun
  <2> QED BY <2>1, <2>2, <2>3 DEF RunInv
<1> QED BY <1>2, <1>3, RunEffect

\* A build cycle that ends.
LEMMA FinishFacts ==
  ASSUME TypeOK, NumbersInv, BuildInv, Moved, build # None,
         NEW st \in {"succeeded", "failed", "superseded"}, Finish(st)
  PROVE  build' \in Builds \union {None} /\ BuildInv'
<1>1. build \in Builds
  BY DEF TypeOK
<1>2. build' = [build EXCEPT !.status = st, !.exe = None] /\ pc' = "latest"
  BY DEF Finish, Goto
<1>3. build' \in Builds /\ build'.rev = build.rev
  BY <1>1, <1>2 DEF Builds
<1>4. build.rev.code <= desired'.code
  <2>1. MaxSaves \in Nat
    BY ConstantsAssumption
  <2>2. build.rev.code \in Nat /\ desired.code \in Nat /\ desired'.code \in Nat
    BY <1>1, <2>1 DEF TypeOK, Moved, Builds, Revisions, Kinds
  <2> QED BY <2>2 DEF BuildInv, Moved
<1> QED BY <1>2, <1>3, <1>4, ConstantsAssumption DEF BuildInv

\* A step that leaves the build alone, and goes no further in a build cycle than
\* the build allows.
LEMMA BuildStays ==
  ASSUME TypeOK, NumbersInv, BuildInv, Moved, build' = build,
         \/ pc' = pc
         \/ pc' \notin {"compile", "compiled", "saved", "stop", "launch", "spawn"}
         \/ pc \in {"saved", "stop"} /\ pc' \in {"stop", "launch"}
         \/ pc = "launch" /\ pc' = "spawn"
  PROVE  build' \in Builds \union {None} /\ BuildInv'
<1>1. MaxSaves \in Nat /\ "code" \in Kinds
  BY ConstantsAssumption DEF Kinds
<1>2. /\ desired.code \in Nat /\ desired'.code \in Nat /\ manifest.code \in Nat /\ manifest'.code \in Nat
      /\ disk.code \in Nat /\ disk'.code \in Nat
  BY <1>1 DEF TypeOK, Moved, Contents, Revisions
<1>3. build # None => build.rev.code \in Nat
  BY <1>1 DEF TypeOK, Builds, Revisions
<1>4. build # None => build.rev.code <= desired'.code
  BY <1>2, <1>3 DEF BuildInv, Moved
<1>5. pc = "compiled" => /\ build.exe \in 0 .. MaxSaves /\ build.exe <= disk'.code
                         /\ build.rev.code = desired'.code => manifest'.code <= build.exe
  BY <1>1, <1>2, <1>3 DEF BuildInv, Moved
<1>6. ASSUME pc \in {"saved", "stop", "launch"}
      PROVE  build.exe \in 0 .. MaxSaves /\ Pair(build.rev.code, build.exe)'
  <2>1. build # None /\ build.exe \in 0 .. MaxSaves /\ Pair(build.rev.code, build.exe)
    BY <1>6 DEF BuildInv
  <2>2. PICK r \in Nat, c \in Nat : r = build.rev.code /\ c = build.exe
    BY <1>1, <1>3, <2>1
  <2>3. Pair(r, c)'
    BY <2>1, <2>2, PairsMove
  <2> QED BY <2>1, <2>2, <2>3
<1> QED BY <1>4, <1>5, <1>6 DEF BuildInv, TypeOK

\* The checks of the revision after the compiler and before the app is replaced.
LEMMA CheckFacts ==
  ASSUME TypeOK, NumbersInv, BuildInv, Moved, NEW from, NEW to, CheckCurrent(from, to),
         <<from, to>> \in {<<"compiled", "saved">>, <<"saved", "stop">>}
  PROVE  build' \in Builds \union {None} /\ BuildInv'
<1>1. pc = from /\ build # None
  BY DEF CheckCurrent, At, BuildInv
<1>2. CASE Finish("failed") \/ Finish("superseded")
  BY <1>1, <1>2, FinishFacts
<1>3. CASE ~(Finish("failed") \/ Finish("superseded"))
  <2>1. Sync(TRUE) /\ desired' = build.rev /\ pc' = to /\ build' = build /\ UNCHANGED files
    BY <1>3 DEF CheckCurrent, Goto
  <2>2. CASE from = "saved"
    BY <1>1, <2>1, <2>2, BuildStays
  <2>3. CASE from = "compiled"
    <3>1. to = "saved"
      BY <2>3
    <3>2. build.exe \in 0 .. MaxSaves /\ build.exe <= disk.code
          /\ (build.rev.code = desired.code => manifest.code <= build.exe)
          /\ build.rev.code <= desired.code
      BY <1>1, <2>3 DEF BuildInv
    <3>3. manifest' = disk
      BY <2>1, SyncFacts DEF files
    <3>4. MaxSaves \in Nat
      BY ConstantsAssumption
    <3>5. /\ desired.code \in Nat /\ desired'.code \in Nat /\ manifest.code \in Nat /\ manifest'.code \in Nat
          /\ disk.code \in Nat
      BY <3>4 DEF TypeOK, Moved, Contents, Revisions, Kinds
    <3>6. build.rev.code = desired'.code
      BY <2>1
    <3>7. desired'.code = desired.code
      BY <3>2, <3>5, <3>6 DEF Moved
    <3>8. build.exe = manifest'.code
      BY <3>2, <3>3, <3>4, <3>5, <3>6, <3>7 DEF Moved
    <3>9. Pair(build.rev.code, build.exe)'
      BY <2>1, <3>6, <3>8 DEF Pair
    <3>10. build.rev.code <= desired'.code
      BY <3>5, <3>6
    <3> QED BY <1>1, <2>1, <3>1, <3>2, <3>9, <3>10 DEF BuildInv, TypeOK
  <2> QED BY <2>2, <2>3
<1> QED BY <1>2, <1>3

\* What the compiler made is of the revision of the build once both checks passed.
LEMMA BuildStep ==
  ASSUME TypeOK, NumbersInv, BuildInv, [Next]_vars
  PROVE  build' \in Builds \union {None} /\ BuildInv'
<1>1. Moved /\ MaxSaves \in Nat
  BY NumbersMove, ConstantsAssumption
<1>2. /\ desired.code \in Nat /\ desired'.code \in Nat /\ manifest.code \in Nat /\ manifest'.code \in Nat
      /\ disk.code \in 0 .. MaxSaves
  BY <1>1 DEF TypeOK, Moved, Contents, Revisions, Kinds
<1>3. \A o \in Observers : o \notin Steps
  BY ConstantsAssumption
<1>4. CASE Watcher \/ Clients \/ Connect \/ Crash \/ (\E b \in BOOLEAN : Confirm(b)) \/ UNCHANGED vars
  <2>1. build' = build /\ pc' = pc
    BY <1>4 DEF Watcher, Report, WatchError, SendReport, Clients, Save, ForceBuild, RequestBuild, Quit,
      Submit, Expire, Connect, Crash, Confirm, local, vars
  <2> QED BY <1>1, <2>1, BuildStays
<1>5. CASE Top \/ TakeRequest \/ SendAssets \/ Cycle \/ End \/ Scan \/ BeginBuild \/ Latest \/ Drain \/ Wait
  <2>1. build' = build /\ pc' \notin {"compile", "compiled", "saved", "stop", "launch", "spawn"}
    BY <1>5 DEF Top, TakeRequest, SendAssets, Cycle, End, Scan, BeginBuild, Latest, Drain, Wait, Goto
  <2> QED BY <1>1, <2>1, BuildStays
<1>6. ASSUME NEW o \in Observers, Observe(o) \/ Capture(o)
      PROVE  build' \in Builds \union {None} /\ BuildInv'
  <2>1. build' = build
        /\ (pc' = pc \/ pc' \notin {"compile", "compiled", "saved", "stop", "launch", "spawn"})
    BY <1>3, <1>6 DEF Observe, Capture, AwaitTarget, AwaitWindow, Dismiss, Goto, At, Steps
  <2> QED BY <1>1, <2>1, BuildStays
<1>7. CASE TakeRevision
  <2>1. build' = [rev |-> desired, exe |-> None, status |-> "building"] /\ pc' = "compile"
        /\ desired' = desired
    BY <1>7 DEF TakeRevision, Goto, index
  <2>2. build' \in Builds
    BY <2>1 DEF Builds, TypeOK
  <2> QED BY <1>2, <2>1, <2>2, ConstantsAssumption DEF BuildInv
<1>8. CASE Compile
  <2>1. build # None /\ build \in Builds
    BY <1>8 DEF Compile, At, BuildInv, TypeOK
  <2>2. CASE Finish("failed") \/ Finish("superseded")
    BY <1>1, <2>1, <2>2, FinishFacts
  <2>3. CASE ~(Finish("failed") \/ Finish("superseded"))
    <3>1. build' = [build EXCEPT !.exe = disk.code] /\ pc' = "compiled" /\ UNCHANGED <<desired, manifest, disk>>
      BY <1>8, <2>3 DEF Compile, Goto, files, index
    <3>2. build' \in Builds /\ build'.rev = build.rev /\ build'.exe = disk.code
      BY <1>2, <2>1, <3>1 DEF Builds
    <3>3. manifest.code <= disk.code
      BY DEF NumbersInv, Kinds
    <3> QED BY <1>2, <2>1, <3>1, <3>2, <3>3, ConstantsAssumption DEF BuildInv
  <2> QED BY <2>2, <2>3
<1>9. CASE CheckCurrent("compiled", "saved") \/ CheckCurrent("saved", "stop")
  BY <1>1, <1>9, CheckFacts
<1>10. CASE Stop \/ Launch
  <2>1. build' = build /\ ((pc = "stop" /\ pc' = "launch") \/ (pc = "launch" /\ pc' = "spawn"))
    BY <1>10 DEF Stop, Launch, Goto, At
  <2> QED BY <1>1, <2>1, BuildStays
<1>11. CASE Spawn
  <2>1. build # None /\ (Finish("succeeded") \/ Finish("failed"))
    BY <1>11 DEF Spawn, At, BuildInv
  <2> QED BY <1>1, <2>1, FinishFacts
<1> QED BY <1>4, <1>5, <1>6, <1>7, <1>8, <1>9, <1>10, <1>11 DEF Next, Loop
Lag == \A k \in Kinds : disk[k] # manifest[k] => force \/ k \in dirty \union unreported

\* Synchronizing forgets no mark of what it did not find.
LEMMA SyncLag ==
  ASSUME TypeOK, NumbersInv, NEW full \in BOOLEAN, Sync(full), UNCHANGED files, full \/ Lag
  PROVE  Lag'
<1>1. /\ disk' = disk /\ unreported' = unreported /\ saves' = saves
      /\ full => manifest' = disk
      /\ \A k \in Kinds : disk[k] # manifest'[k] => disk[k] # manifest[k] /\ ~force /\ k \notin dirty
  BY SyncFacts DEF files
<1> QED BY <1>1 DEF Lag

\* A step that keeps the marks, or marks everything.
Marked == /\ disk' = disk /\ manifest' = manifest
          /\ force => force'
          /\ force' \/ dirty \union unreported \subseteq dirty' \union unreported'

\* What a step does to the marks.
LEMMA LagEffect ==
  ASSUME TypeOK, [Next]_vars
  PROVE  Marked \/ Synced \/ \E k \in Kinds : Save(k)
<1>0. force \in BOOLEAN
  BY DEF TypeOK
<1>1. CASE Watcher
  <2>1. ASSUME NEW batch \in SUBSET unreported, NEW inc \in BOOLEAN, Report(batch, inc) PROVE Marked
    <3>1. unreported' = unreported \ batch /\ dirty' = dirty \union batch /\ force' = (force \/ inc)
          /\ disk' = disk /\ manifest' = manifest
      BY <2>1 DEF Report
    <3>2. dirty \union unreported \subseteq dirty' \union unreported'
      BY <3>1
    <3> QED BY <3>1, <3>2 DEF Marked
  <2>2. ASSUME NEW batch \in SUBSET unreported, WatchError(batch) PROVE Marked
    BY <2>2 DEF WatchError, Marked
  <2>3. CASE SendReport
    BY <2>3 DEF SendReport, Marked
  <2> QED BY <1>1, <2>1, <2>2, <2>3 DEF Watcher
<1>2. ASSUME NEW o \in Observers, NEW s \in BOOLEAN, Submit(o, s) PROVE Marked \/ Synced
  BY <1>0, <1>2 DEF Submit, SyncFails, Synced, files, Marked
<1>3. CASE Clients
  BY <1>2, <1>3 DEF Clients, ForceBuild, RequestBuild, Quit, Expire, files, index, Marked
<1>4. CASE Connect \/ Crash \/ (\E b \in BOOLEAN : Confirm(b)) \/ UNCHANGED vars
  BY <1>4 DEF Connect, Crash, Confirm, files, index, vars, Marked
<1>5. CASE Top \/ TakeRequest \/ Wait \/ SendAssets \/ TakeRevision \/ Compile \/ Stop \/ Launch \/ Spawn
           \/ Drain \/ Cycle \/ End
  BY <1>5 DEF Top, TakeRequest, Wait, SendAssets, TakeRevision, Compile, Stop, Launch, Spawn, Drain,
    Cycle, End, files, index, Marked
<1>6. CASE Scan \/ BeginBuild \/ Latest
  BY <1>0, <1>6 DEF Scan, BeginBuild, Latest, SyncFails, Synced, files, index, Marked
<1>7. CASE CheckCurrent("compiled", "saved") \/ CheckCurrent("saved", "stop")
  BY <1>0, <1>7 DEF CheckCurrent, SyncFails, Synced, files, index, Marked
<1>8. ASSUME NEW o \in Observers, Observe(o) \/ Capture(o) PROVE Marked \/ Synced
  BY <1>0, <1>8 DEF Observe, Capture, SyncFails, Synced, files, index, Marked
<1> QED BY <1>1, <1>3, <1>4, <1>5, <1>6, <1>7, <1>8 DEF Next, Loop

\* The first scan of the first build looks at everything.
LEMMA FirstStep ==
  ASSUME TypeOK, RunInv, First, [Next]_vars
  PROVE  First' \/ (Sync(TRUE) /\ UNCHANGED files)
<1>1. pc \in {"build", "end", "ended"} /\ build = None /\ run = None
  BY DEF First
<1>2. \A o \in Observers : pc # o
  BY <1>1, ConstantsAssumption DEF Steps
<1>3. CASE BeginBuild
  BY <1>1, <1>3 DEF BeginBuild, First, Goto
<1>4. CASE Launch
  BY <1>1, <1>4 DEF Launch, At
<1>5. CASE ~BeginBuild /\ ~Launch
  <2>1. run' = None
    BY <1>1, <1>5, RunEffect DEF SameRun
  <2>2. build' = None /\ pc' \in {"build", "end", "ended"}
    <3>1. CASE Watcher \/ Clients \/ Connect \/ Crash \/ (\E b \in BOOLEAN : Confirm(b)) \/ UNCHANGED vars
      BY <1>1, <3>1 DEF Watcher, Report, WatchError, SendReport, Clients, Save, ForceBuild, RequestBuild, Quit,
        Submit, Expire, Connect, Crash, Confirm, local, vars
    <3>2. CASE Loop
      BY <1>1, <1>2, <1>5, <3>2 DEF Loop, Top, TakeRequest, Wait, Scan, SendAssets, Observe, Capture,
        TakeRevision, Compile, CheckCurrent, Stop, Launch, Spawn, Latest, Drain, Cycle, End, At, Goto
    <3> QED BY <3>1, <3>2 DEF Next
  <2> QED BY <2>1, <2>2 DEF First
<1> QED BY <1>3, <1>4, <1>5

\* What the index has not seen is marked, or is yet to be reported, or the index is
\* in doubt.
LEMMA LagStep ==
  ASSUME TypeOK, NumbersInv, RunInv, LagInv, [Next]_vars
  PROVE  LagInv'
<1>1. CASE First
  BY <1>1, FirstStep, SyncLag DEF LagInv, Lag
<1>2. ASSUME Lag PROVE Lag'
  <2>1. CASE Marked
    <3> SUFFICES ASSUME NEW k \in Kinds, disk'[k] # manifest'[k], ~force'
                 PROVE  k \in dirty' \union unreported'
      BY DEF Lag
    <3>1. ~force /\ disk[k] # manifest[k] /\ dirty \union unreported \subseteq dirty' \union unreported'
      BY <2>1 DEF Marked
    <3> QED BY <1>2, <3>1 DEF Lag
  <2>2. CASE Synced
    <3>1. PICK full \in BOOLEAN : Sync(full) /\ UNCHANGED files
      BY <2>2 DEF Synced
    <3> QED BY <1>2, <3>1, SyncLag
  <2>3. ASSUME NEW k \in Kinds, Save(k) PROVE Lag'
    <3>1. disk' = [disk EXCEPT ![k] = disk[k] + 1] /\ unreported' = unreported \union {k}
          /\ UNCHANGED <<manifest, dirty, force>>
      BY <2>3 DEF Save, index
    <3>2. \A j \in Kinds : j # k => disk'[j] = disk[j]
      BY <3>1 DEF TypeOK, Contents
    <3> QED BY <1>2, <3>1, <3>2 DEF Lag
  <2> QED BY <2>1, <2>2, <2>3, LagEffect
<1> QED BY <1>1, <1>2 DEF LagInv, Lag

\* What ends an observation early leaves nothing of it.
LEMMA ObservedFacts ==
  ASSUME TypeOK, NEW o \in Observers, NEW st \in {"superseded", "failed"}, Observed(o, st)
  PROVE  /\ observer' \in [Observers -> Observations]
         /\ observer'[o].state = st /\ ~observer'[o].sync /\ ~observer'[o].current
         /\ \A p \in Observers : p # o => observer'[p] = observer[p]
<1> DEFINE u == [Unasked EXCEPT !.state = st]
<1>1. Unasked \in Observations /\ ~Unasked.sync /\ ~Unasked.current
  <2>1. 0 \in 0 .. MaxSaves
    BY ConstantsAssumption
  <2> QED BY <2>1 DEF Unasked, Observations
<1>2. u \in Observations /\ u.state = st /\ ~u.sync /\ ~u.current
  BY <1>1 DEF Observations
<1>3. observer' = [observer EXCEPT ![o] = u]
  BY DEF Observed
<1> HIDE DEF u
<1> QED BY <1>2, <1>3 DEF TypeOK

\* The target of an observation is recorded with the scan that found it.
LEMMA SubmitFacts ==
  ASSUME TypeOK, Moved, NEW o \in Observers, NEW sync \in BOOLEAN, Submit(o, sync)
  PROVE  /\ observer' \in [Observers -> Observations]
         /\ \A p \in Observers : p # o => observer'[p] = observer[p]
         /\ observer[o].state = "idle" /\ pc' = pc
         /\ \/ observer'[o].state = "failed" /\ ~observer'[o].sync
            \/ /\ Sync(TRUE) /\ UNCHANGED files /\ observer'[o].state = "queued"
               /\ observer'[o].target = desired' /\ observer'[o].wanted = disk.code
<1> DEFINE b == observer[o]
           u == [b EXCEPT !.state = "queued", !.sync = sync, !.target = desired', !.wanted = disk.code]
<1>1. b.state = "idle" /\ pc' = pc /\ UNCHANGED files /\ b \in Observations
  BY DEF Submit, local, TypeOK
<1>2. CASE SyncFails(TRUE) /\ Observed(o, "failed")
  BY <1>1, <1>2, ObservedFacts
<1>3. CASE Sync(TRUE) /\ observer' = [observer EXCEPT ![o] = u]
  <2>1. disk.code \in 0 .. MaxSaves /\ desired' \in Revisions
    BY DEF TypeOK, Contents, Kinds, Moved
  <2> HIDE DEF b
  <2>2. u \in Observations /\ u.state = "queued" /\ u.target = desired' /\ u.wanted = disk.code
    BY <1>1, <2>1 DEF Observations
  <2> HIDE DEF u
  <2>3. /\ observer' \in [Observers -> Observations] /\ observer'[o] = u
        /\ \A p \in Observers : p # o => observer'[p] = observer[p]
    BY <1>3, <2>2 DEF TypeOK
  <2> QED BY <1>1, <1>3, <2>2, <2>3 DEF b
<1> QED BY <1>2, <1>3 DEF Submit

SameObservation(o) ==
  LET b == observer[o]  c == observer'[o] IN
  /\ c.state = b.state /\ c.sync = b.sync /\ c.target = b.target /\ c.wanted = b.wanted
  /\ c.shown = b.shown /\ c.current = b.current

\* Looking at an observation ends it or leaves it as it is; a window is captured
\* only for an app of its target.
LEMMA ObserveFacts ==
  ASSUME TypeOK, NEW o \in Observers, Observe(o)
  PROVE  /\ observer' \in [Observers -> Observations]
         /\ \A p \in Observers : p # o => observer'[p] = observer[p]
         /\ \/ observer'[o].state \in {"superseded", "failed"}
            \/ SameObservation(o)
         /\ pc' = o => /\ SameObservation(o) /\ observer[o].state = "queued"
                       /\ observer[o].sync => run # None /\ run.rev = observer[o].target
<1> DEFINE b == observer[o]
           u == [b EXCEPT !.asked = TRUE]
<1>1. b \in Observations /\ o # "observe" /\ pc = "observe"
  BY ConstantsAssumption DEF TypeOK, Observe, At, Steps
<1>2. CASE observer' = observer
  <2>1. SameObservation(o) /\ observer' \in [Observers -> Observations]
    BY <1>2 DEF TypeOK, SameObservation
  <2>2. ASSUME pc' = o
        PROVE  b.state = "queued" /\ (b.sync => run # None /\ run.rev = b.target)
    BY <1>1, <2>2 DEF Observe, Dismiss, AwaitWindow, Shows, Running, Process, Goto
  <2> QED BY <1>2, <2>1, <2>2
<1>3. CASE (Observed(o, "failed") \/ Observed(o, "superseded")) /\ pc' = pc
  BY <1>1, <1>3, ObservedFacts
<1>4. CASE observer' = [observer EXCEPT ![o] = u] /\ pc' = pc
  <2> HIDE DEF b
  <2>1. u \in Observations /\ u.state = b.state /\ u.sync = b.sync /\ u.target = b.target
        /\ u.wanted = b.wanted /\ u.shown = b.shown /\ u.current = b.current
    BY <1>1 DEF Observations
  <2> HIDE DEF u
  <2> QED BY <1>1, <1>4, <2>1 DEF TypeOK, SameObservation, b
<1> QED BY <1>2, <1>3, <1>4 DEF Observe, Dismiss, AwaitWindow, AwaitTarget

\* The second comparison, after the screenshot.
LEMMA CaptureFacts ==
  ASSUME TypeOK, NEW o \in Observers, Capture(o)
  PROVE  /\ observer' \in [Observers -> Observations] /\ pc = o /\ pc' = "observe"
         /\ \A p \in Observers : p # o => observer'[p] = observer[p]
         /\ \/ observer'[o].state \in {"superseded", "failed"}
            \/ /\ run # None /\ desired' = observer[o].target /\ observer[o].state = "queued"
               /\ observer'[o].state = "ok" /\ observer'[o].shown = run.code
               /\ observer'[o].wanted = observer[o].wanted /\ observer'[o].sync = observer[o].sync
               /\ observer'[o].current => run.rev.code = observer[o].target.code
<1> DEFINE b == observer[o]
           u == [b EXCEPT !.state = "ok", !.shown = run.code, !.current = (run.rev.code = b.target.code)]
<1>1. b \in Observations /\ pc = o /\ pc' = "observe"
  BY DEF TypeOK, Capture, At, Goto
<1>2. CASE Observed(o, "failed") \/ Observed(o, "superseded")
  BY <1>1, <1>2, ObservedFacts
<1>3. CASE /\ run # None /\ desired' = b.target /\ b.state = "queued"
           /\ observer' = [observer EXCEPT ![o] = u]
  <2>1. run.code \in 0 .. MaxSaves
    BY <1>3 DEF TypeOK, Runs
  <2>2. (run.rev.code = b.target.code) \in BOOLEAN
    OBVIOUS
  <2> HIDE DEF b
  <2>3. u \in Observations /\ u.state = "ok" /\ u.shown = run.code /\ u.wanted = b.wanted /\ u.sync = b.sync
        /\ u.current = (run.rev.code = b.target.code)
    BY <1>1, <2>1, <2>2 DEF Observations
  <2> HIDE DEF u
  <2> QED BY <1>1, <1>3, <2>3 DEF TypeOK, b
<1>4. \/ Observed(o, "failed") \/ Observed(o, "superseded")
      \/ /\ run # None /\ desired' = b.target /\ b.state = "queued"
         /\ observer' = [observer EXCEPT ![o] = u]
  BY DEF Capture, Running, Process
<1> QED BY <1>2, <1>3, <1>4

\* What a step does to an observation.
LEMMA ObserverEffect ==
  ASSUME TypeOK, [Next]_vars
  PROVE  \/ observer' = observer
         \/ \E o \in Observers : \/ \E s \in BOOLEAN : Submit(o, s)
                                 \/ Observed(o, "failed") /\ pc' = pc
                                 \/ Observe(o) \/ Capture(o)
<1>1. CASE Watcher \/ Connect \/ Crash \/ (\E b \in BOOLEAN : Confirm(b)) \/ UNCHANGED vars
  BY <1>1 DEF Watcher, Report, WatchError, SendReport, Connect, Crash, Confirm, vars
<1>2. CASE Clients
  BY <1>2 DEF Clients, Save, ForceBuild, RequestBuild, Quit, Expire, local
<1>3. CASE Top \/ TakeRequest \/ SendAssets \/ TakeRevision \/ Stop \/ Launch \/ Cycle \/ End \/ Scan
           \/ BeginBuild \/ Latest \/ Drain \/ Wait
  BY <1>3 DEF Top, TakeRequest, SendAssets, TakeRevision, Stop, Launch, Cycle, End, Scan, BeginBuild,
    Latest, Drain, Wait
<1>4. CASE Compile \/ Spawn \/ CheckCurrent("compiled", "saved") \/ CheckCurrent("saved", "stop")
  BY <1>4 DEF Compile, Spawn, CheckCurrent
<1> QED BY <1>1, <1>2, <1>3, <1>4 DEF Next, Loop

\* Where the main thread captures a window, it was or it looked at the observation.
LEMMA CaptureBegins ==
  ASSUME TypeOK, [Next]_vars, NEW p \in Observers, pc' = p
  PROVE  pc = p \/ Observe(p)
<1>1. p \notin Steps
  BY ConstantsAssumption
<1>2. CASE Watcher \/ Clients \/ Connect \/ Crash \/ (\E b \in BOOLEAN : Confirm(b)) \/ UNCHANGED vars
  BY <1>2 DEF Watcher, Report, WatchError, SendReport, Clients, Save, ForceBuild, RequestBuild, Quit,
      Submit, Expire, Connect, Crash, Confirm, local, vars
<1>3. CASE Top \/ TakeRequest \/ SendAssets \/ TakeRevision \/ Stop \/ Launch \/ Cycle \/ End \/ Scan
           \/ BeginBuild \/ Latest \/ Drain \/ Wait
  BY <1>1, <1>3 DEF Top, TakeRequest, SendAssets, TakeRevision, Stop, Launch, Cycle, End, Scan, BeginBuild,
    Latest, Drain, Wait, Goto, Steps
<1>4. CASE Compile \/ Spawn \/ CheckCurrent("compiled", "saved") \/ CheckCurrent("saved", "stop")
  BY <1>1, <1>4 DEF Compile, Spawn, CheckCurrent, Finish, Goto, Steps
<1>5. ASSUME NEW o \in Observers, Observe(o) \/ Capture(o) PROVE pc = p \/ Observe(p)
  BY <1>1, <1>5 DEF Observe, Capture, AwaitTarget, AwaitWindow, Dismiss, At, Goto, Steps
<1> QED BY <1>2, <1>3, <1>4, <1>5 DEF Next, Loop

\* An observation that a step leaves alone stays sound.
LEMMA ObserverStays ==
  ASSUME TypeOK, NumbersInv, RunInv, Moved, NEW p \in Observers, ObserverInv(p), [Next]_vars,
         SameObservation(p)
  PROVE  ObserverInv(p)'
<1> DEFINE b == observer[p]
           c == observer'[p]
<1>1. b \in Observations /\ MaxSaves \in Nat
  BY ConstantsAssumption DEF TypeOK
<1>2. c.state = b.state /\ c.sync = b.sync /\ c.target = b.target /\ c.wanted = b.wanted
      /\ c.shown = b.shown /\ c.current = b.current
  BY DEF SameObservation
<1>3. ASSUME b.state = "queued" PROVE b.target \in Revisions /\ Pair(b.target.code, b.wanted)'
  <2>1. b.target \in Revisions /\ Pair(b.target.code, b.wanted)
    BY <1>3 DEF ObserverInv
  <2>2. PICK r \in Nat, w \in Nat : r = b.target.code /\ w = b.wanted
    BY <1>1, <2>1 DEF Observations, Revisions, Kinds
  <2>3. Pair(r, w)
    BY <2>1, <2>2
  <2>4. Pair(r, w)'
    BY <2>3, PairsMove
  <2>5. c.target.code = r /\ c.wanted = w
    BY <1>2, <2>2
  <2> QED BY <1>2, <2>1, <2>2, <2>4, <2>5
<1>4. ASSUME pc' = p
      PROVE  b.state # "idle" /\ (b.state = "queued" /\ b.sync => run' # None /\ run'.rev = b.target)
  <2>1. pc = p => b.state # "idle" /\ (b.state = "queued" /\ b.sync => run # None /\ run.rev = b.target)
    BY DEF ObserverInv
  <2>2. Observe(p) => b.state = "queued" /\ (b.sync => run # None /\ run.rev = b.target)
    BY <1>4, ObserveFacts
  <2>3. ~Launch
    BY <1>4, ConstantsAssumption DEF Launch, Goto, Steps
  <2>4. run # None => run' # None /\ run'.rev = run.rev
    BY <2>3, RunEffect, ConstantsAssumption DEF SameRun
  <2> QED BY <1>4, <2>1, <2>2, <2>4, CaptureBegins
<1>5. b.state = "ok" /\ (b.sync \/ b.current) => b.shown >= b.wanted
  BY DEF ObserverInv
<1> QED BY <1>2, <1>3, <1>4, <1>5 DEF ObserverInv

\* One that ended early promises nothing.
LEMMA ObserverEnds ==
  ASSUME TypeOK, NEW p \in Observers,
         observer'[p].state \in {"superseded", "failed"}
  PROVE  ObserverInv(p)'
BY DEF ObserverInv

\* Every observation stays sound, whoever synchronizes the index while its window is
\* captured.
LEMMA ObserversStep ==
  ASSUME TypeOK, NumbersInv, RunInv, ObserversInv, [Next]_vars
  PROVE  observer' \in [Observers -> Observations] /\ ObserversInv'
<1>1. Moved /\ MaxSaves \in Nat
  BY NumbersMove, ConstantsAssumption
<1>2. \A p \in Observers : ObserverInv(p)
  BY DEF ObserversInv
<1>3. ASSUME NEW p \in Observers, observer'[p] = observer[p] PROVE ObserverInv(p)'
  BY <1>1, <1>2, <1>3, ObserverStays DEF SameObservation
<1>4. CASE observer' = observer
  BY <1>3, <1>4 DEF ObserversInv, TypeOK
<1>5. ASSUME NEW o \in Observers, NEW s \in BOOLEAN, Submit(o, s)
      PROVE  observer' \in [Observers -> Observations] /\ ObserversInv'
  <2>1. /\ observer' \in [Observers -> Observations]
        /\ \A p \in Observers : p # o => observer'[p] = observer[p]
        /\ observer[o].state = "idle" /\ pc' = pc
        /\ \/ observer'[o].state = "failed" /\ ~observer'[o].sync
           \/ /\ Sync(TRUE) /\ UNCHANGED files /\ observer'[o].state = "queued"
              /\ observer'[o].target = desired' /\ observer'[o].wanted = disk.code
    BY <1>1, <1>5, SubmitFacts
  <2>2. ASSUME observer'[o].state = "failed" PROVE ObserverInv(o)'
    BY <2>2, ObserverEnds
  <2>3. ASSUME Sync(TRUE), UNCHANGED files, observer'[o].state = "queued",
               observer'[o].target = desired', observer'[o].wanted = disk.code
        PROVE  ObserverInv(o)'
    <3>1. manifest' = disk
      BY <2>3, SyncFacts DEF files
    <3>2. desired' \in Revisions
      BY <1>1 DEF Moved
    <3>3. Pair(desired.code, disk.code)'
      BY <2>3, <3>1 DEF Pair, files
    <3>4. pc' # o
      BY <1>2, <2>1 DEF ObserverInv
    <3>5. disk' = disk
      BY <2>3 DEF files
    <3> QED BY <2>3, <3>2, <3>3, <3>4, <3>5 DEF ObserverInv, Pair
  <2> QED BY <1>3, <2>1, <2>2, <2>3 DEF ObserversInv
<1>6. ASSUME NEW o \in Observers, Observed(o, "failed")
      PROVE  observer' \in [Observers -> Observations] /\ ObserversInv'
  <2>1. /\ observer' \in [Observers -> Observations] /\ observer'[o].state = "failed"
        /\ \A p \in Observers : p # o => observer'[p] = observer[p]
    BY <1>6, ObservedFacts
  <2> QED BY <1>3, <2>1, ObserverEnds DEF ObserversInv
<1>7. ASSUME NEW o \in Observers, Observe(o)
      PROVE  observer' \in [Observers -> Observations] /\ ObserversInv'
  <2>1. /\ observer' \in [Observers -> Observations]
        /\ \A p \in Observers : p # o => observer'[p] = observer[p]
        /\ observer'[o].state \in {"superseded", "failed"} \/ SameObservation(o)
    BY <1>7, ObserveFacts
  <2>2. ObserverInv(o)'
    BY <1>1, <1>2, <2>1, ObserverEnds, ObserverStays
  <2> QED BY <1>3, <2>1, <2>2 DEF ObserversInv
<1>8. ASSUME NEW o \in Observers, Capture(o)
      PROVE  observer' \in [Observers -> Observations] /\ ObserversInv'
  <2>1. /\ observer' \in [Observers -> Observations] /\ pc = o /\ pc' = "observe"
        /\ \A p \in Observers : p # o => observer'[p] = observer[p]
        /\ \/ observer'[o].state \in {"superseded", "failed"}
           \/ /\ run # None /\ desired' = observer[o].target /\ observer[o].state = "queued"
              /\ observer'[o].state = "ok" /\ observer'[o].shown = run.code
              /\ observer'[o].wanted = observer[o].wanted /\ observer'[o].sync = observer[o].sync
              /\ observer'[o].current => run.rev.code = observer[o].target.code
    BY <1>8, CaptureFacts
  <2>2. ASSUME run # None, desired' = observer[o].target, observer[o].state = "queued",
               observer'[o].state = "ok", observer'[o].shown = run.code,
               observer'[o].wanted = observer[o].wanted, observer'[o].sync = observer[o].sync,
               observer'[o].current => run.rev.code = observer[o].target.code
        PROVE  ObserverInv(o)'
    <3>1. pc' # o
      BY <2>1, ConstantsAssumption DEF Steps
    <3>2. ASSUME observer'[o].sync \/ observer'[o].current PROVE observer'[o].shown >= observer'[o].wanted
      <4>1. run.rev.code = desired'.code
        BY <1>2, <2>1, <2>2, <3>2 DEF ObserverInv
      <4>2. Pair(run.rev.code, run.code) /\ Pair(desired'.code, observer[o].wanted)
        BY <1>2, <2>2 DEF RunInv, ObserverInv
      <4>3. desired.code \in Nat /\ desired'.code \in Nat /\ run.code \in Nat /\ observer[o].wanted \in Nat
            /\ manifest.code \in Nat
        <5>1. desired \in Revisions /\ desired' \in Revisions /\ manifest \in Contents
          BY <1>1 DEF TypeOK, Moved
        <5>2. run \in Runs /\ observer[o] \in Observations
          BY <1>1, <2>2 DEF TypeOK
        <5>3. desired.code \in Nat /\ desired'.code \in Nat /\ manifest.code \in Nat
          BY <5>1 DEF Revisions, Contents, Kinds
        <5>4. run.code \in Nat /\ observer[o].wanted \in Nat
          BY <5>2 DEF Runs, Observations
        <5> QED BY <5>3, <5>4
      <4>4. run.code = manifest.code /\ observer[o].wanted = manifest.code
        BY <1>1, <4>1, <4>2, <4>3 DEF Pair, Moved
      <4> QED BY <2>2, <4>3, <4>4
    <3> QED BY <2>2, <3>1, <3>2 DEF ObserverInv
  <2> QED BY <1>3, <2>1, <2>2, ObserverEnds DEF ObserversInv
<1> QED BY <1>4, <1>5, <1>6, <1>7, <1>8, ObserverEffect

-----------------------------------------------------------------------------
\* The session has scanned once, and a save that came after it is still unseen.
LEMMA LiveInit == ASSUME Init PROVE LiveInv
<1> USE DEF Init
<1>1. /\ disk.code \in {0, 1} /\ disk.asset \in {0, 1} /\ disk = [k \in Kinds |-> disk[k]]
      /\ manifest.code = 0 /\ manifest.asset = 0 /\ desired.code = 0 /\ desired.asset = 0
  BY DEF Kinds
<1>2. saves \in Nat /\ disk.code <= saves /\ disk.asset <= saves /\ saves <= MaxSaves /\ MaxSaves \in Nat
  BY <1>1, ConstantsAssumption
<1>3. /\ disk \in Contents /\ manifest \in Contents /\ desired \in Revisions
  BY <1>1, <1>2 DEF Contents, Revisions, Kinds
<1>4. Unasked \in Observations
  BY <1>2 DEF Unasked, Observations
<1>5. queue \in Seq(Kinds \union {"force"}) /\ Len(queue) <= QueueSize
  BY ConstantsAssumption
<1>6. TypeOK
  BY <1>3, <1>4, <1>5 DEF TypeOK, At, Steps
<1>7. NumbersInv
  BY <1>1, <1>2 DEF NumbersInv, Kinds
<1>8. RunInv /\ BuildInv
  BY DEF RunInv, BuildInv
<1>9. LagInv
  BY DEF LagInv, First
<1>10. ObserversInv
  <2>1. ASSUME NEW o \in Observers PROVE ObserverInv(o)
    <3>1. pc # o
      BY ConstantsAssumption DEF Steps
    <3>2. observer[o].state = "idle"
      BY DEF Unasked
    <3> QED BY <3>1, <3>2 DEF ObserverInv
  <2> QED BY <2>1 DEF ObserversInv
<1> QED BY <1>6, <1>7, <1>8, <1>9, <1>10 DEF LiveInv

\* Every step of the loop, the watcher, the clients and the app keeps the invariant.
LEMMA LiveStep == ASSUME LiveInv, [Next]_vars PROVE LiveInv'
<1>1. TypeOK /\ NumbersInv /\ RunInv /\ BuildInv /\ LagInv /\ ObserversInv
  BY DEF LiveInv
<1>2. NumbersInv'
  BY <1>1, NumbersMove DEF Moved
<1>3. run' \in Runs \union {None} /\ RunInv'
  BY <1>1, RunStep
<1>4. build' \in Builds \union {None} /\ BuildInv'
  BY <1>1, BuildStep
<1>5. LagInv'
  BY <1>1, LagStep
<1>6. observer' \in [Observers -> Observations] /\ ObserversInv'
  BY <1>1, ObserversStep
<1>7. TypeOK'
  BY <1>1, <1>3, <1>4, <1>6, IndexTypes, MailTypes, ControlTypes DEF TypeOK
<1> QED BY <1>2, <1>3, <1>4, <1>5, <1>6, <1>7 DEF LiveInv

\* The inductive invariant holds.
THEOREM LiveInvHolds == Spec => []LiveInv
BY LiveInit, LiveStep, PTL DEF Spec

\* An app has the source that the index knows exactly when it is of the desired
\* revision.
THEOREM AppIsItsRevision == Spec => []Inv
<1>1. ASSUME LiveInv PROVE Inv
  <2>1. TypeOK /\ (run # None => Pair(run.rev.code, run.code))
    BY <1>1 DEF LiveInv, RunInv
  <2>2. desired.code \in Nat /\ manifest.code \in Nat
    BY <2>1 DEF TypeOK, Contents, Revisions, Kinds
  <2>3. run # None => run.rev.code \in Nat /\ run.code \in Nat
    BY <2>1 DEF TypeOK, Runs, Revisions, Kinds
  <2>4. RunIsItsRevision
    BY <2>1, <2>2, <2>3 DEF RunIsItsRevision, Pair
  <2> QED BY <2>1, <2>4 DEF Inv
<1> QED BY <1>1, LiveInvHolds, PTL

\* An app that the status does not call stale has the source on disk, once every
\* save was reported and looked at.
THEOREM StatusIsTruthful == Spec => []StatusIsTrue
<1>1. ASSUME LiveInv PROVE StatusIsTrue
  <2> SUFFICES ASSUME ~Stale, Settled PROVE run.code = disk.code
    BY DEF StatusIsTrue
  <2>1. TypeOK /\ LagInv /\ (run # None => Pair(run.rev.code, run.code))
    BY <1>1 DEF LiveInv, RunInv
  <2>2. run # None /\ run.rev = desired
    BY DEF Stale, Running, Process
  <2>3. desired.code \in Nat
    BY <2>1 DEF TypeOK, Revisions, Kinds
  <2>4. run.code = manifest.code
    BY <2>1, <2>2, <2>3 DEF Pair
  <2>5. disk.code = manifest.code
    BY <2>1, <2>2 DEF LagInv, First, Settled, Kinds
  <2> QED BY <2>4, <2>5
<1> QED BY <1>1, LiveInvHolds, PTL

\* An observation that succeeded as synchronized or as current shows no source
\* older than the one on disk when it was asked for.
THEOREM ObservationsAreCurrent == Spec => []ObservationIsCurrent
<1>1. LiveInv => ObservationIsCurrent
  BY DEF LiveInv, ObserversInv, ObserverInv, ObservationIsCurrent
<1> QED BY <1>1, LiveInvHolds, PTL

-----------------------------------------------------------------------------
(* The two parts of the live inputs, as instances.  A constant or a variable *)
(* of theirs that is not declared here has the name of one of LiveLoop (the  *)
(* disk, the marks, the manifest); the theorems hold whatever they stand     *)
(* for.  What an instance assumes of its constants is a hypothesis here.     *)
CONSTANTS Files, Paths, Under, Written, Absent, MaxDirty, MaxRescans, MaxChanges,
          Broken, MaxEdits, MaxSyncs, MaxDrops
VARIABLES initialized, disabled, enabled, listed, mode, left, found, previous, rescans, between, returned,
          changes,
          known, revision, published, recs, before, delta, out, to, conn, down, up, app, confirmed,
          edits, syncs, drops, quiet

Index == INSTANCE InputIndex WITH Contents <- Written, entries <- listed
Assets == INSTANCE AssetSync WITH index <- known

\* The instances have set and sequence operators of their own: the same ones.
LEMMA SameOperators ==
  /\ \A S : Index!Cardinality(S) = Cardinality(S) /\ Assets!Cardinality(S) = Cardinality(S)
  /\ \A S : Assets!IsFiniteSet(S) <=> IsFiniteSet(S)
  /\ \A S : Assets!SetToSeq(S) = SetToSeq(S)
<1>1. \A S : Index!Cardinality(S) = Cardinality(S)
  BY DEF Index!Cardinality, Cardinality
<1>2. \A S : Assets!Cardinality(S) = Cardinality(S)
  BY DEF Assets!Cardinality, Cardinality
<1>3. \A S : Assets!IsFiniteSet(S) <=> IsFiniteSet(S)
  BY DEF Assets!IsFiniteSet, IsFiniteSet
<1>4. \A S : Assets!SetToSeq(S) = SetToSeq(S)
  BY <1>2 DEF Assets!SetToSeq, SetToSeq, Assets!IsInjective, IsInjective
<1> QED BY <1>1, <1>2, <1>3, <1>4

-----------------------------------------------------------------------------
(* InputIndex *)

Full == {"indexed", "plain"}

\* The next refresh goes by the marks alone.
Trusted == initialized /\ ~force /\ ~disabled /\ enabled

\* What a set of contents misses of the disk is under one of the paths.
Misses(contents, fs, paths) == \A f \in fs : contents[f] # disk[f] => f \in Index!Covered(paths)

\* While the index is trusted, its entries are the manifest, and what they miss
\* is marked or yet to be told.
IdleInv ==
  mode = "idle" /\ Trusted => listed = manifest /\ Misses(manifest, Files, dirty \union unreported)

\* An incremental scan has put right what it has read, and did not touch the rest.
DirtyInv == mode = "dirty" => Trusted /\ Misses(listed, Files \ left, unreported)

\* A full scan misses only what is yet to be told of the files it has read; it
\* runs because the marks cannot be trusted.
FullInv == mode \in Full => ~Trusted /\ Misses(found, Files \ left, unreported)

ForgetInv == IdleInv /\ DirtyInv /\ FullInv

\* What a pass had read and was overwritten when it ended is not on disk again,
\* and this pass does not find it again, unless the file got it back.
TogetherInv ==
  previous # None =>
    \A f \in Files \ returned :
      previous[f] # between[f] =>
        /\ disk[f] # previous[f]
        /\ f \notin left => found[f] # previous[f]

-----------------------------------------------------------------------------
\* An index that found nothing is one.
LEMMA NothingIsAState == Index!Nothing \in Index!States
BY DEF Index!Nothing, Index!States

\* What is under some paths is under more.
LEMMA CoveredGrows ==
  ASSUME Index!ConstantsAssumption, NEW A \in SUBSET Paths, NEW B \in SUBSET Paths
  PROVE  /\ Index!Covered(A) \subseteq Files
         /\ Index!Covered(A \union B) = Index!Covered(A) \union Index!Covered(B)
         /\ Index!Covered({}) = {}
BY DEF Index!Covered, Index!ConstantsAssumption

\* What one path covers.
LEMMA CoveredOne ==
  ASSUME Index!ConstantsAssumption, NEW p \in Paths
  PROVE  Index!Covered({p}) = Under[p] /\ Under[p] \subseteq Files
BY DEF Index!Covered, Index!ConstantsAssumption

TypeInv == Index!TypeOK /\ IsFiniteSet(dirty)

\* Every step keeps the types.
LEMMA TypeStep ==
  ASSUME Index!ConstantsAssumption
  PROVE  TypeInv /\ [Index!Next]_(Index!vars) => TypeInv'
<1> SUFFICES ASSUME TypeInv, [Index!Next]_(Index!vars) PROVE TypeInv'
  OBVIOUS
<1> USE DEF Index!ConstantsAssumption
<1>n. Index!Nothing \in Index!States /\ IsFiniteSet({}) /\ Cardinality({}) = 0
  BY NothingIsAState, FS_EmptySet
<1>i. ASSUME UNCHANGED <<disk, unreported>>, Index!Idle, manifest' \in Index!States, listed' \in Index!States,
             dirty' = {}, {force', initialized', disabled', enabled'} \subseteq BOOLEAN
      PROVE  TypeInv'
  BY <1>n, <1>i, SameOperators DEF TypeInv, Index!TypeOK, Index!Idle, Index!Since, Index!Pass
<1>g. ASSUME Index!GiveUp PROVE TypeInv'
  <2>1. previous' \in Index!States \union {None} /\ between' \in Index!States /\ returned' \subseteq Files /\ found' \in Index!States /\ rescans' \in 0 .. MaxRescans
    BY <1>g, <1>n DEF Index!GiveUp, Index!FullScan, Index!Idle, Index!Since, Index!Pass
  <2>2. mode' \in {"idle", "dirty", "indexed", "plain"} /\ left' \subseteq Files /\ (mode' = "idle" => left' = {})
    BY <1>g DEF Index!GiveUp, Index!FullScan, Index!Idle, Index!Since, Index!Pass
  <2> QED BY <1>g, <2>1, <2>2 DEF Index!GiveUp, TypeInv, Index!TypeOK, Index!files, Index!result
<1>1. ASSUME NEW p \in Paths, NEW new \in [Under[p] -> Written \union {Absent}], Index!Change(p, new)
      PROVE  TypeInv'
  <2>1. disk' \in Index!States /\ returned' \subseteq Files
    BY <1>1, CoveredOne DEF Index!Change, Index!Returns, TypeInv, Index!TypeOK, Index!States
  <2> QED BY <1>1, <2>1 DEF Index!Change, TypeInv, Index!TypeOK, Index!marks, Index!result, Index!scan, Index!since
<1>2. ASSUME NEW p \in Paths, NEW foreign \in BOOLEAN, Index!Mark(p, foreign) PROVE TypeInv'
  <2>1. unreported' \subseteq Paths /\ dirty' \subseteq Paths /\ force' \in BOOLEAN
    BY <1>2 DEF Index!Mark, TypeInv, Index!TypeOK
  <2>2. IsFiniteSet(dirty') /\ Cardinality(dirty') <= MaxDirty
    <3>1. IsFiniteSet(dirty) /\ Cardinality(dirty) \in Nat /\ Cardinality(dirty) <= MaxDirty
      BY FS_CardinalityType, SameOperators DEF TypeInv, Index!TypeOK
    <3>2. /\ IsFiniteSet(dirty \union {p})
          /\ Cardinality(dirty \union {p}) = IF p \in dirty THEN Cardinality(dirty) ELSE Cardinality(dirty) + 1
      BY <3>1, FS_AddElement
    <3> QED BY <1>2, <1>n, <3>1, <3>2, SameOperators DEF Index!Mark
  <2> QED BY <1>2, <2>1, <2>2, SameOperators DEF Index!Mark, TypeInv, Index!TypeOK, Index!result, Index!scan, Index!since
<1>3. ASSUME NEW lost \in SUBSET unreported, Index!Overflow(lost) PROVE TypeInv'
  BY <1>3 DEF Index!Overflow, TypeInv, Index!TypeOK, Index!result, Index!scan, Index!since
<1>4. ASSUME Index!ChangeRoots PROVE TypeInv'
  <2>1. {force', initialized', disabled', enabled'} \subseteq BOOLEAN
    BY <1>4 DEF Index!ChangeRoots
  <2>2. IsFiniteSet(dirty') /\ Cardinality(dirty') <= MaxDirty /\ dirty' \subseteq Paths /\ listed' \in Index!States
    BY <1>4, <1>n DEF Index!ChangeRoots
  <2> QED BY <1>4, <2>1, <2>2, SameOperators DEF Index!ChangeRoots, TypeInv, Index!TypeOK, Index!files,
      Index!scan, Index!since
<1>5. ASSUME NEW full \in BOOLEAN, Index!Refresh(full) PROVE TypeInv'
  <2>1. ASSUME NEW m \in Full, Index!FullScan(m), UNCHANGED listed PROVE TypeInv'
    BY <1>5, <1>n, <2>1 DEF Index!Refresh, Index!FullScan, Index!Since, Index!Pass, TypeInv, Index!TypeOK,
       Index!files, Full
  <2>2. ASSUME Index!DirtyScan PROVE TypeInv'
    <3>1. Index!Covered(dirty) \subseteq Files
      BY CoveredGrows DEF TypeInv, Index!TypeOK
    <3>2. listed' \in Index!States
      BY <2>2 DEF Index!DirtyScan, TypeInv, Index!TypeOK, Index!States
    <3> QED BY <1>5, <1>n, <2>2, <3>1, <3>2 DEF Index!Refresh, Index!DirtyScan, Index!Since, Index!Pass, TypeInv,
        Index!TypeOK, Index!files
  <2> QED BY <1>5, <2>1, <2>2 DEF Index!Refresh, Full
<1>6. ASSUME NEW f \in Files, Index!Read(f) PROVE TypeInv'
  <2>1. found' \in Index!States /\ listed' \in Index!States
    BY <1>6 DEF Index!Read, TypeInv, Index!TypeOK, Index!States
  <2> QED BY <1>6, <2>1 DEF Index!Read, TypeInv, Index!TypeOK, Index!files, Index!marks, Index!since
<1>7. ASSUME Index!ReadFails PROVE TypeInv'
  BY <1>7, <1>g DEF Index!ReadFails
<1>8. ASSUME Index!EndDirty PROVE TypeInv'
  BY <1>8, <1>i DEF Index!EndDirty, TypeInv, Index!TypeOK, Index!files
<1>9. ASSUME Index!Publish PROVE TypeInv'
  <2>1. listed' \in Index!States /\ manifest' \in Index!States
    BY <1>9, <1>n DEF Index!Publish, TypeInv, Index!TypeOK
  <2> QED BY <1>9, <1>i, <2>1 DEF Index!Publish, TypeInv, Index!TypeOK, Index!files
<1>10. ASSUME Index!Rescan PROVE TypeInv'
  <2>1. CASE Index!GiveUp
    BY <2>1, <1>g
  <2>2. CASE ~(previous # None /\ rescans = 0)
    <3>1. rescans' \in 0 .. MaxRescans
      BY <1>10, <2>2 DEF Index!Rescan, TypeInv, Index!TypeOK
    <3> QED BY <1>10, <1>n, <2>2, <3>1 DEF Index!Rescan, Index!Since, Index!Pass, TypeInv, Index!TypeOK,
        Index!files, Index!marks, Index!result
  <2> QED BY <1>10, <2>1, <2>2 DEF Index!Rescan
<1>11. CASE UNCHANGED Index!vars
  BY <1>11 DEF Index!vars, Index!files, Index!marks, Index!result, Index!scan, Index!since, TypeInv, Index!TypeOK
<1> QED
  BY <1>1, <1>2, <1>3, <1>4, <1>5, <1>6, <1>7, <1>8, <1>9, <1>10, <1>11 DEF Index!Next, Index!Scanning

\* The types hold at the start.
LEMMA TypeInit == ASSUME Index!ConstantsAssumption PROVE Index!Init => TypeInv
<1> SUFFICES ASSUME Index!Init PROVE TypeInv
  OBVIOUS
<1>1. IsFiniteSet(dirty) /\ Cardinality(dirty) <= MaxDirty /\ dirty \subseteq Paths
  BY FS_EmptySet DEF Index!Init, Index!ConstantsAssumption
<1>2. unreported \subseteq Paths /\ {force, initialized, disabled, enabled} \subseteq BOOLEAN
  BY DEF Index!Init
<1>3. mode = "idle" /\ left = {} /\ previous \in Index!States \union {None} /\ rescans \in 0 .. MaxRescans
  BY DEF Index!Init, Index!ConstantsAssumption
<1> QED BY <1>1, <1>2, <1>3, NothingIsAState, SameOperators DEF Index!Init, TypeInv, Index!TypeOK

\* Types, and the marks keep their limit (MAX_INDEXED_DIRTY_PATHS).
THEOREM TypeCorrect == ASSUME Index!ConstantsAssumption PROVE Index!Spec => []Index!TypeOK
<1>1. TypeInv => Index!TypeOK
  BY DEF TypeInv
<1>2. Index!Init => TypeInv
  BY TypeInit
<1>3. TypeInv /\ [Index!Next]_(Index!vars) => TypeInv'
  BY TypeStep
<1> QED BY <1>1, <1>2, <1>3, PTL DEF Index!Spec

-----------------------------------------------------------------------------
\* Every step remembers what the index misses.
LEMMA ForgetStep ==
  ASSUME Index!ConstantsAssumption
  PROVE  TypeInv /\ ForgetInv /\ [Index!Next]_(Index!vars) => ForgetInv'
<1> SUFFICES ASSUME TypeInv, ForgetInv, [Index!Next]_(Index!vars) PROVE ForgetInv'
  OBVIOUS
<1> USE DEF ForgetInv
<1>t. /\ manifest \in Index!States /\ listed \in Index!States /\ found \in Index!States
      /\ unreported \in SUBSET Paths /\ dirty \in SUBSET Paths /\ left \in SUBSET Files
      /\ {force, initialized, disabled, enabled} \subseteq BOOLEAN
  BY DEF TypeInv, Index!TypeOK
<1>c. Index!Covered(dirty \union unreported) = Index!Covered(dirty) \union Index!Covered(unreported)
  BY <1>t, CoveredGrows
<1>g. ASSUME Index!GiveUp, mode # "idle" PROVE ForgetInv'
  <2>1. ~Trusted'
    <3>1. CASE mode = "dirty"
      BY <1>g, <3>1 DEF Index!GiveUp, Trusted
    <3>2. CASE mode # "dirty"
      BY <1>g, <3>2, <1>t DEF Index!GiveUp, Trusted, FullInv, Full, TypeInv, Index!TypeOK
    <3> QED BY <3>1, <3>2
  <2>2. mode' = "idle" \/ (mode' \in Full /\ left' = Files)
    BY <1>g DEF Index!GiveUp, Index!Idle, Index!FullScan, Index!Pass, Full
  <2> QED BY <2>1, <2>2 DEF IdleInv, DirtyInv, FullInv, Full, Misses
<1>1. ASSUME NEW p \in Paths, NEW new \in [Under[p] -> Written \union {Absent}], Index!Change(p, new)
      PROVE  ForgetInv'
  <2>1. /\ Index!Covered(unreported') = Index!Covered(unreported) \union Under[p]
        /\ Index!Covered(dirty' \union unreported') = Index!Covered(dirty \union unreported) \union Under[p]
    <3>1. /\ unreported' = unreported \union {p}
          /\ dirty' \union unreported' = (dirty \union unreported) \union {p}
      BY <1>1 DEF Index!Change, Index!marks
    <3>2. {p} \in SUBSET Paths /\ dirty \union unreported \in SUBSET Paths
      BY <1>t
    <3>3. Index!Covered(unreported \union {p}) = Index!Covered(unreported) \union Index!Covered({p})
      BY <1>t, <3>2, CoveredGrows
    <3>4. Index!Covered((dirty \union unreported) \union {p}) = Index!Covered(dirty \union unreported) \union Index!Covered({p})
      BY <3>2, CoveredGrows
    <3> QED BY <3>1, <3>3, <3>4, CoveredOne
  <2>2. \A f \in Files : f \notin Under[p] => disk'[f] = disk[f]
    BY <1>1 DEF Index!Change
  <2>3. UNCHANGED <<Index!marks, Index!result, Index!scan>>
    BY <1>1 DEF Index!Change
  <2>4. IdleInv'
    <3>1. UNCHANGED <<mode, manifest, listed, dirty>> /\ Trusted' = Trusted
      BY <2>3 DEF Trusted, Index!marks, Index!result, Index!scan
    <3> QED BY <2>1, <2>2, <3>1 DEF IdleInv, Misses
  <2>5. DirtyInv'
    BY <2>1, <2>2, <2>3 DEF DirtyInv, Trusted, Misses, Index!marks, Index!result, Index!scan
  <2>6. FullInv'
    BY <2>1, <2>2, <2>3 DEF FullInv, Trusted, Misses, Index!marks, Index!result, Index!scan
  <2> QED BY <2>4, <2>5, <2>6
<1>2. ASSUME NEW p \in Paths, NEW foreign \in BOOLEAN, Index!Mark(p, foreign) PROVE ForgetInv'
  <2>1. mode = "idle" /\ UNCHANGED <<disk, initialized, disabled, enabled, Index!result, Index!scan>>
    BY <1>2 DEF Index!Mark
  <2>2. Trusted' => Trusted /\ dirty' = dirty \union {p} /\ unreported' = unreported \ {p}
    BY <1>2, <1>t DEF Index!Mark, Trusted
  <2>3. Trusted' => dirty' \union unreported' = dirty \union unreported \union {p}
    BY <2>2
  <2>4. Trusted' => Index!Covered(dirty \union unreported) \subseteq Index!Covered(dirty' \union unreported')
    BY <2>3 DEF Index!Covered
  <2> QED BY <2>1, <2>2, <2>4 DEF IdleInv, DirtyInv, FullInv, Full, Misses, Index!result, Index!scan
<1>3. ASSUME NEW lost \in SUBSET unreported, Index!Overflow(lost) PROVE ForgetInv'
  BY <1>3 DEF Index!Overflow, IdleInv, DirtyInv, FullInv, Full, Trusted, Index!scan
<1>4. ASSUME Index!ChangeRoots PROVE ForgetInv'
  BY <1>4 DEF Index!ChangeRoots, IdleInv, DirtyInv, FullInv, Full, Trusted, Index!scan
<1>5. ASSUME NEW full \in BOOLEAN, Index!Refresh(full) PROVE ForgetInv'
  <2>1. CASE ~initialized \/ force' \/ disabled \/ ~enabled
    <3>1. ~Trusted' /\ mode' \in Full /\ left' = Files
      BY <1>5, <2>1 DEF Index!Refresh, Index!FullScan, Index!Pass, Trusted, Full
    <3> QED BY <3>1 DEF IdleInv, DirtyInv, FullInv, Full, Misses
  <2>2. CASE ~(~initialized \/ force' \/ disabled \/ ~enabled)
    <3>1. /\ mode = "idle" /\ Index!DirtyScan /\ mode' = "dirty" /\ left' = Index!Covered(dirty)
          /\ UNCHANGED <<disk, unreported>>
      BY <1>5, <2>2 DEF Index!Refresh, Index!DirtyScan, Index!Pass, Index!files
    <3>2. Trusted /\ Trusted'
      BY <1>5, <2>2, <1>t DEF Index!Refresh, Trusted
    <3>3. Misses(listed', Files \ left', unreported)
      BY <3>1, <3>2, <1>c DEF IdleInv, Misses, Index!DirtyScan
    <3> QED BY <3>1, <3>2, <3>3 DEF IdleInv, DirtyInv, FullInv, Full, Misses
  <2> QED BY <2>1, <2>2
<1>6. ASSUME NEW f \in Files, Index!Read(f) PROVE ForgetInv'
  <2>1. /\ f \in left /\ left' = left \ {f} /\ UNCHANGED <<disk, unreported, Index!marks, manifest, mode>>
        /\ found' = [found EXCEPT ![f] = disk[f]]
        /\ listed' = IF mode = "dirty" THEN [listed EXCEPT ![f] = disk[f]] ELSE listed
    BY <1>6 DEF Index!Read, Index!files
  <2>2. mode # "idle"
    BY <2>1 DEF TypeInv, Index!TypeOK
  <2>3. Trusted' = Trusted /\ Index!Covered(unreported') = Index!Covered(unreported)
    BY <2>1 DEF Trusted, Index!marks
  <2>4. mode \in Full => Misses(found', Files \ left', unreported')
    BY <2>1, <1>t DEF FullInv, Misses, Index!States
  <2>5. mode = "dirty" => Misses(listed', Files \ left', unreported')
    BY <2>1, <1>t DEF DirtyInv, Misses, Index!States
  <2>6. DirtyInv' /\ FullInv'
    BY <2>1, <2>3, <2>4, <2>5 DEF DirtyInv, FullInv, Misses
  <2> QED BY <2>1, <2>2, <2>6 DEF IdleInv
<1>7. ASSUME Index!ReadFails PROVE ForgetInv'
  BY <1>7, <1>g DEF Index!ReadFails
<1>8. ASSUME Index!EndDirty PROVE ForgetInv'
  <2>1. /\ mode = "dirty" /\ mode' = "idle" /\ left = {} /\ manifest' = listed /\ dirty' = {}
        /\ UNCHANGED <<disk, unreported, listed>>
    BY <1>8 DEF Index!EndDirty, Index!Idle, Index!Pass, Index!files
  <2>2. Misses(listed, Files, unreported)
    BY <2>1 DEF DirtyInv, Misses
  <2>3. Misses(manifest, Files, dirty \union unreported)'
    BY <2>1, <2>2 DEF Misses
  <2> QED BY <2>1, <2>3 DEF IdleInv, DirtyInv, FullInv, Full
<1>9. ASSUME Index!Publish PROVE ForgetInv'
  <2>1. /\ mode \in Full /\ mode' = "idle" /\ left = {} /\ manifest' = found /\ dirty' = {}
        /\ UNCHANGED <<disk, unreported>>
    BY <1>9 DEF Index!Publish, Index!Idle, Index!Pass, Index!files, Full
  <2>2. Misses(found, Files, unreported)
    BY <2>1 DEF FullInv, Misses
  <2>3. Misses(manifest, Files, dirty \union unreported)'
    BY <2>1, <2>2 DEF Misses
  <2>4. Trusted' => listed' = manifest'
    BY <1>9 DEF Index!Publish, Trusted
  <2> QED BY <2>1, <2>3, <2>4 DEF IdleInv, DirtyInv, FullInv, Full
<1>10. ASSUME Index!Rescan PROVE ForgetInv'
  <2>1. CASE Index!GiveUp
    BY <1>10, <2>1, <1>g DEF Index!Rescan
  <2>2. CASE ~(previous # None /\ rescans = 0)
    <3>1. mode \in Full /\ mode' = mode /\ left' = Files /\ UNCHANGED Index!marks
      BY <1>10, <2>2 DEF Index!Rescan, Index!Pass, Full
    <3> QED BY <3>1 DEF IdleInv, DirtyInv, FullInv, Full, Misses, Trusted, Index!marks
  <2> QED BY <1>10, <2>1, <2>2 DEF Index!Rescan
<1>11. CASE UNCHANGED Index!vars
  BY <1>11 DEF Index!vars, Index!files, Index!marks, Index!result, Index!scan, IdleInv, DirtyInv,
     FullInv, Trusted, Misses
<1> QED
  BY <1>1, <1>2, <1>3, <1>4, <1>5, <1>6, <1>7, <1>8, <1>9, <1>10, <1>11 DEF Index!Next, Index!Scanning

\* Nothing is forgotten at the start.
LEMMA ForgetInit == Index!Init => ForgetInv
BY DEF Index!Init, ForgetInv, IdleInv, DirtyInv, FullInv, Full, Trusted

\* The index never forgets (mark_dirty, mark_overflow, refresh): what a manifest
\* misses of the disk is told later, marked, or found by a full scan that is due.
THEOREM NothingForgotten ==
  ASSUME Index!ConstantsAssumption
  PROVE  Index!Spec => []Index!NeverForgets
<1>1. ForgetInv => Index!NeverForgets
  BY DEF ForgetInv, IdleInv, Index!NeverForgets, Trusted, Misses
<1>2. Index!Init => TypeInv /\ ForgetInv
  BY TypeInit, ForgetInit
<1>3. TypeInv /\ ForgetInv /\ [Index!Next]_(Index!vars) => TypeInv' /\ ForgetInv'
  BY TypeStep, ForgetStep
<1> QED BY <1>1, <1>2, <1>3, PTL DEF Index!Spec

\* Both together: the state of the index is sound after every step.
THEOREM IndexSound == ASSUME Index!ConstantsAssumption PROVE Index!Spec => []Index!Inv
<1>1. Index!TypeOK /\ Index!NeverForgets => Index!Inv
  BY DEF Index!Inv
<1>2. Index!Spec => []Index!TypeOK
  BY TypeCorrect
<1>3. Index!Spec => []Index!NeverForgets
  BY NothingForgotten
<1> QED BY <1>1, <1>2, <1>3, PTL

-----------------------------------------------------------------------------
\* A pass finds the same as the pass before only if nothing was overwritten between.
LEMMA TogetherStep ==
  TypeInv /\ TogetherInv /\ [Index!Next]_(Index!vars) => TogetherInv'
<1> SUFFICES ASSUME TypeInv, TogetherInv, [Index!Next]_(Index!vars) PROVE TogetherInv'
  OBVIOUS
<1> USE DEF TogetherInv
<1>s. ASSUME UNCHANGED <<disk, found, left, previous, Index!since>> PROVE TogetherInv'
  BY <1>s DEF Index!since
<1>g. ASSUME Index!GiveUp PROVE TogetherInv'
  BY <1>g DEF Index!GiveUp, Index!FullScan, Index!Idle
<1>1. ASSUME NEW p \in Paths, NEW new \in [Under[p] -> Written \union {Absent}], Index!Change(p, new)
      PROVE  TogetherInv'
  <2>1. /\ UNCHANGED <<found, left, previous, between>>
        /\ returned' = returned \union Index!Returns(p, new)
        /\ \A f \in Files : disk'[f] = IF f \in Under[p] THEN new[f] ELSE disk[f]
    BY <1>1 DEF Index!Change, Index!scan
  <2>2. ASSUME previous # None, NEW f \in Files \ returned', disk[f] # previous[f]
        PROVE  disk'[f] # previous[f]
    BY <2>1, <2>2 DEF Index!Returns
  <2> QED BY <2>1, <2>2
<1>2. ASSUME NEW p \in Paths, NEW foreign \in BOOLEAN, Index!Mark(p, foreign) PROVE TogetherInv'
  BY <1>2, <1>s DEF Index!Mark, Index!scan
<1>3. ASSUME NEW lost \in SUBSET unreported, Index!Overflow(lost) PROVE TogetherInv'
  BY <1>3, <1>s DEF Index!Overflow, Index!scan
<1>4. ASSUME Index!ChangeRoots PROVE TogetherInv'
  BY <1>4, <1>s DEF Index!ChangeRoots, Index!files, Index!scan
<1>5. ASSUME NEW full \in BOOLEAN, Index!Refresh(full) PROVE TogetherInv'
  BY <1>5 DEF Index!Refresh, Index!FullScan, Index!DirtyScan
<1>6. ASSUME NEW f \in Files, Index!Read(f) PROVE TogetherInv'
  <2>1. found' = [found EXCEPT ![f] = disk[f]] /\ left' = left \ {f} /\ UNCHANGED <<disk, previous, between, returned>>
    BY <1>6 DEF Index!Read, Index!files, Index!since
  <2>2. \A g \in Files : found'[g] = IF g = f THEN disk[f] ELSE found[g]
    BY <2>1 DEF TypeInv, Index!TypeOK, Index!States
  <2> QED BY <2>1, <2>2
<1>7. ASSUME Index!ReadFails PROVE TogetherInv'
  BY <1>7, <1>g DEF Index!ReadFails
<1>8. ASSUME Index!EndDirty PROVE TogetherInv'
  BY <1>8 DEF Index!EndDirty, Index!Idle
<1>9. ASSUME Index!Publish PROVE TogetherInv'
  BY <1>9 DEF Index!Publish, Index!Idle
<1>10. ASSUME Index!Rescan PROVE TogetherInv'
  <2>1. CASE Index!GiveUp
    BY <2>1, <1>g
  <2>2. CASE ~(previous # None /\ rescans = 0)
    BY <1>10, <2>2 DEF Index!Rescan, Index!Pass, Index!Since, Index!files
  <2> QED BY <1>10, <2>1, <2>2 DEF Index!Rescan
<1>11. CASE UNCHANGED Index!vars
  BY <1>11, <1>s DEF Index!vars, Index!files, Index!scan
<1> QED
  BY <1>1, <1>2, <1>3, <1>4, <1>5, <1>6, <1>7, <1>8, <1>9, <1>10, <1>11 DEF Index!Next, Index!Scanning

\* No pass has been made at the start.
LEMMA TogetherInit ==
  ASSUME Index!ConstantsAssumption
  PROVE  Index!Init => TogetherInv
BY DEF Index!Init, TogetherInv, Index!ConstantsAssumption

\* Two passes that agree found what was on disk together when the first one ended,
\* but for the files that got a content back before the second one ended, of which
\* equal hashes tell nothing (scan_indexed_roots_stable, scan_input_roots_stable).
THEOREM PublishedAtOnce ==
  ASSUME Index!ConstantsAssumption
  PROVE  Index!Spec => Index!PublishedTogether
<1> DEFINE Step == mode \in {"indexed", "plain"} /\ mode' = "idle" /\ manifest' # manifest
                     => \A f \in Files \ returned : manifest'[f] = between[f]
<1>1. TypeInv /\ TogetherInv /\ [Index!Next]_(Index!vars) => [Step]_(Index!vars)
  <2> SUFFICES ASSUME TypeInv, TogetherInv, Index!Next, mode \in {"indexed", "plain"}, manifest' # manifest
               PROVE  \A f \in Files \ returned : manifest'[f] = between[f]
    BY DEF Index!vars, Index!result, Index!scan
  <2>1. Index!Publish
    BY DEF Index!Next, Index!Scanning, Index!Change, Index!Mark, Index!Overflow, Index!ChangeRoots,
       Index!Refresh, Index!Read, Index!ReadFails, Index!GiveUp, Index!EndDirty,
           Index!Rescan, Index!result
  <2>2. left = {} /\ found = previous /\ manifest' = found /\ previous # None
    BY <2>1 DEF Index!Publish, TypeInv, Index!TypeOK, Index!ConstantsAssumption
  <2> QED BY <2>2 DEF TogetherInv
<1>2. Index!Init => TypeInv /\ TogetherInv
  BY TypeInit, TogetherInit
<1>3. TypeInv /\ TogetherInv /\ [Index!Next]_(Index!vars) => TypeInv' /\ TogetherInv'
  BY TypeStep, TogetherStep
<1> QED BY <1>1, <1>2, <1>3, PTL DEF Index!Spec, Index!PublishedTogether

-----------------------------------------------------------------------------
(* AssetSync *)

(* Contents and messages *)

\* A content that an asset once had: no later one than the content on disk.
Past(e) ==
  /\ e \in [Paths -> Nat]
  /\ \A p \in Paths : e[p] <= edits + 1 /\ (disk[p] # 0 => e[p] <= disk[p])

\* What the messages to the app say of contents, and the answers of what it lacks.
Honest(m) == m.type \in {"manifest", "begin"} => Past(m.entries)
Mail(s) == \E M : s \in Seq(M) /\ \A m \in M : Honest(m)

Lacking(r) == {"changed", "removed"} \subseteq DOMAIN r /\ r.changed \subseteq Paths /\ r.removed \subseteq Paths
Answer(m) == m.type # "applied" => Lacking(m)
Answers(s) == \E M : s \in Seq(M) /\ \A m \in M : Answer(m)

\* A reconciliation that is yet to be made, for a connection that may be gone.
Owed(r) == Lacking(r) /\ "connection" \in DOMAIN r /\ r.connection \in {"one", "gone"}
Lacks(s) == \E M : s \in Seq(M) /\ \A m \in M : Owed(m)

AnySeq(s) == \E M : s \in Seq(M)

DiskInv ==
  /\ edits \in 0 .. MaxEdits
  /\ disk \in [Paths -> Nat] /\ \A p \in Paths : disk[p] <= edits + 1

SessionInv ==
  /\ Past(known) /\ revision \in Nat /\ dirty \in BOOLEAN /\ confirmed \in BOOLEAN
  /\ published = [batch |-> published.batch, entries |-> published.entries] /\ Past(published.entries)
  /\ delta.changed \subseteq Paths /\ delta.removed \subseteq Paths

ChannelInv ==
  /\ pc \in {"idle", "scan", "publish", "entries", "reload", "send", "build", "launch"}
  /\ to \in {"all", "one", "gone"} /\ conn \in {"none", "new", "open"}
  /\ Mail(out) /\ (pc = "send" => out # <<>>)
  /\ Mail(down) /\ Len(down) <= QueueSize /\ (conn = "none" => down = <<>>)
  /\ Answers(up) /\ Lacks(recs)

AppShape ==
  app = [desired |-> app.desired, batch |-> app.batch, pending |-> app.pending, held |-> app.held,
         events |-> app.events, applied |-> app.applied, cache |-> app.cache]
AppInv ==
  /\ AppShape /\ AnySeq(app.held) /\ AnySeq(app.events)
  /\ Past(app.desired) /\ Past(app.applied)
  /\ app.cache \in [Paths -> Nat \union {None, Broken}]
  /\ \A p \in Paths : app.cache[p] \in Nat =>
       app.cache[p] <= edits + 1 /\ (app.applied[p] # 0 => app.cache[p] >= app.applied[p])

AssetInv == DiskInv /\ SessionInv /\ ChannelInv /\ AppInv

\* Two sequences in one.
LEMMA SeqJoin ==
  ASSUME NEW M, NEW N, NEW s \in Seq(M), NEW t \in Seq(N)
  PROVE  s \o t \in Seq(M \union N)
<1>1. s \in Seq(M \union N) /\ t \in Seq(M \union N)
  BY SeqMonotonic
<1> QED BY <1>1, ConcatProperties

\* A sequence with one member more.
LEMMA SeqMore == ASSUME NEW M, NEW s \in Seq(M), NEW x PROVE Append(s, x) \in Seq(M \union {x})
<1>1. s \in Seq(M \union {x})
  BY SeqMonotonic
<1> QED BY <1>1, AppendProperties

\* A sequence whose members are all sound is sound.
LEMMA Containers ==
  /\ \A s, M : s \in Seq(M) /\ (\A m \in M : Honest(m)) => Mail(s)
  /\ \A s, M : s \in Seq(M) /\ (\A m \in M : Owed(m)) => Lacks(s)
  /\ \A s, M : s \in Seq(M) /\ (\A m \in M : Answer(m)) => Answers(s)
  /\ \A s, M : s \in Seq(M) => AnySeq(s)
BY DEF Mail, Lacks, Answers, AnySeq

\* What the loop does to a queue of messages to the app.
LEMMA MailOps ==
  /\ Mail(<<>>)
  /\ \A s, t : Mail(s) /\ Mail(t) => Mail(s \o t)
  /\ \A s, m : Mail(s) /\ Honest(m) => Mail(Append(s, m)) /\ Len(Append(s, m)) = Len(s) + 1 /\ Append(s, m) # <<>>
  /\ \A s : Mail(s) => Len(s) \in Nat
  /\ \A s : Mail(s) /\ s # <<>> => Honest(Head(s)) /\ Mail(Tail(s)) /\ Len(Tail(s)) = Len(s) - 1
<1>1. Mail(<<>>)
  <2>1. ASSUME NEW s, s = <<>> PROVE Mail(s)
    <3>1. s \in Seq({})
      BY <2>1
    <3> QED BY <3>1, Containers
  <2> QED BY <2>1
<1>2. ASSUME NEW s, NEW t, Mail(s), Mail(t) PROVE Mail(s \o t)
  <2>1. PICK M : s \in Seq(M) /\ \A m \in M : Honest(m)
    BY <1>2 DEF Mail
  <2>2. PICK N : t \in Seq(N) /\ \A m \in N : Honest(m)
    BY <1>2 DEF Mail
  <2>3. s \o t \in Seq(M \union N) /\ \A m \in M \union N : Honest(m)
    BY <2>1, <2>2, SeqJoin
  <2> QED BY <2>3 DEF Mail
<1>3. ASSUME NEW s, NEW m, Mail(s), Honest(m)
      PROVE  Mail(Append(s, m)) /\ Len(Append(s, m)) = Len(s) + 1 /\ Append(s, m) # <<>>
  <2>1. PICK M : s \in Seq(M) /\ \A n \in M : Honest(n)
    BY <1>3 DEF Mail
  <2>2. Append(s, m) \in Seq(M \union {m}) /\ \A n \in M \union {m} : Honest(n)
    BY <1>3, <2>1, SeqMore
  <2>3. s \in Seq(M \union {m})
    BY <2>1, SeqMonotonic
  <2>4. Len(Append(s, m)) = Len(s) + 1 /\ Append(s, m) # <<>>
    BY <2>3, AppendProperties
  <2> QED BY <2>2, <2>4 DEF Mail
<1>4. ASSUME NEW s, Mail(s), s # <<>>
      PROVE  Honest(Head(s)) /\ Mail(Tail(s)) /\ Len(Tail(s)) = Len(s) - 1
  <2>1. PICK M : s \in Seq(M) /\ \A m \in M : Honest(m)
    BY <1>4 DEF Mail
  <2>2. Head(s) \in M /\ Tail(s) \in Seq(M) /\ Len(Tail(s)) = Len(s) - 1
    BY <1>4, <2>1, HeadTailProperties
  <2> QED BY <2>1, <2>2 DEF Mail
<1>5. ASSUME NEW s, Mail(s) PROVE Len(s) \in Nat
  BY <1>5, LenProperties DEF Mail
<1> QED BY <1>1, <1>2, <1>3, <1>4, <1>5

\* What the loop does to the list of the reconciliations that it owes.
LEMMA LacksOps ==
  /\ Lacks(<<>>)
  /\ \A s, m : Lacks(s) /\ Owed(m) => Lacks(Append(s, m))
  /\ \A s : Lacks(s) /\ s # <<>> => Owed(Head(s)) /\ Lacks(Tail(s))
  /\ \A s : Lacks(s) => Lacks(Assets!Gone(s))
<1>1. Lacks(<<>>)
  <2>1. ASSUME NEW s, s = <<>> PROVE Lacks(s)
    <3>1. s \in Seq({})
      BY <2>1
    <3> QED BY <3>1, Containers
  <2> QED BY <2>1
<1>2. ASSUME NEW s, NEW m, Lacks(s), Owed(m) PROVE Lacks(Append(s, m))
  <2>1. PICK M : s \in Seq(M) /\ \A n \in M : Owed(n)
    BY <1>2 DEF Lacks
  <2>2. Append(s, m) \in Seq(M \union {m}) /\ \A n \in M \union {m} : Owed(n)
    BY <1>2, <2>1, SeqMore
  <2> QED BY <2>2 DEF Lacks
<1>3. ASSUME NEW s, Lacks(s), s # <<>> PROVE Owed(Head(s)) /\ Lacks(Tail(s))
  <2>1. PICK M : s \in Seq(M) /\ \A m \in M : Owed(m)
    BY <1>3 DEF Lacks
  <2>2. Head(s) \in M /\ Tail(s) \in Seq(M)
    BY <1>3, <2>1, HeadTailProperties
  <2> QED BY <2>1, <2>2 DEF Lacks
<1>4. ASSUME NEW s, Lacks(s) PROVE Lacks(Assets!Gone(s))
  <2>1. PICK M : s \in Seq(M) /\ \A m \in M : Owed(m)
    BY <1>4 DEF Lacks
  <2> DEFINE N == {[m EXCEPT !.connection = "gone"] : m \in M}
  <2>2. \A m \in M : [m EXCEPT !.connection = "gone"] \in N
    OBVIOUS
  <2>3. DOMAIN s = 1 .. Len(s) /\ Len(s) \in Nat /\ \A i \in 1 .. Len(s) : s[i] \in M
    BY <2>1, ElementOfSeq, LenProperties
  <2>4. Assets!Gone(s) = [i \in 1 .. Len(s) |-> [s[i] EXCEPT !.connection = "gone"]]
    BY <2>3 DEF Assets!Gone
  <2>5. \A n \in N : Owed(n)
    <3>1. ASSUME NEW m \in M PROVE Owed([m EXCEPT !.connection = "gone"])
      <4>1. Owed(m)
        BY <2>1
      <4> QED BY <4>1 DEF Owed, Lacking
    <3> QED BY <3>1
  <2> HIDE DEF N
  <2>6. Assets!Gone(s) \in Seq(N)
    BY <2>2, <2>3, <2>4, IsASeq
  <2> QED BY <2>5, <2>6 DEF Lacks
<1> QED BY <1>1, <1>2, <1>3, <1>4

\* What the app and the loop do to the queue of answers.
LEMMA AnswersOps ==
  /\ Answers(<<>>)
  /\ \A s, t : Answers(s) /\ Answers(t) => Answers(s \o t)
  /\ \A s : Answers(s) /\ s # <<>> => Answer(Head(s)) /\ Answers(Tail(s))
  /\ \A m : Answer(m) => Answers(<<m>>)
<1>1. Answers(<<>>)
  <2>1. ASSUME NEW s, s = <<>> PROVE Answers(s)
    <3>1. s \in Seq({})
      BY <2>1
    <3> QED BY <3>1, Containers
  <2> QED BY <2>1
<1>2. ASSUME NEW s, NEW t, Answers(s), Answers(t) PROVE Answers(s \o t)
  <2>1. PICK M : s \in Seq(M) /\ \A m \in M : Answer(m)
    BY <1>2 DEF Answers
  <2>2. PICK N : t \in Seq(N) /\ \A m \in N : Answer(m)
    BY <1>2 DEF Answers
  <2>3. s \o t \in Seq(M \union N) /\ \A m \in M \union N : Answer(m)
    BY <2>1, <2>2, SeqJoin
  <2> QED BY <2>3 DEF Answers
<1>3. ASSUME NEW s, Answers(s), s # <<>> PROVE Answer(Head(s)) /\ Answers(Tail(s))
  <2>1. PICK M : s \in Seq(M) /\ \A m \in M : Answer(m)
    BY <1>3 DEF Answers
  <2>2. Head(s) \in M /\ Tail(s) \in Seq(M)
    BY <1>3, <2>1, HeadTailProperties
  <2> QED BY <2>1, <2>2 DEF Answers
<1>4. ASSUME NEW m, Answer(m) PROVE Answers(<<m>>)
  <2>1. ASSUME NEW s, s = <<m>> PROVE Answers(s)
    <3>1. s \in Seq({m})
      BY <2>1
    <3> QED BY <1>4, <3>1, Containers
  <2> QED BY <2>1
<1> QED BY <1>1, <1>2, <1>3, <1>4

\* What the app does to the messages that it holds back.
LEMMA AnySeqOps ==
  /\ AnySeq(<<>>)
  /\ \A s, m : AnySeq(s) => AnySeq(Append(s, m))
  /\ \A s, t : AnySeq(s) /\ AnySeq(t) => AnySeq(s \o t)
  /\ \A s : AnySeq(s) => IsFiniteSet(DOMAIN s)
<1>1. AnySeq(<<>>)
  <2>1. ASSUME NEW s, s = <<>> PROVE AnySeq(s)
    <3>1. s \in Seq({})
      BY <2>1
    <3> QED BY <3>1, Containers
  <2> QED BY <2>1
<1>2. ASSUME NEW s, NEW m, AnySeq(s) PROVE AnySeq(Append(s, m))
  BY <1>2, SeqMore DEF AnySeq
<1>3. ASSUME NEW s, NEW t, AnySeq(s), AnySeq(t) PROVE AnySeq(s \o t)
  BY <1>3, SeqJoin DEF AnySeq
<1>4. ASSUME NEW s, AnySeq(s) PROVE IsFiniteSet(DOMAIN s)
  <2>1. Len(s) \in Nat /\ DOMAIN s = 1 .. Len(s)
    BY <1>4, LenProperties DEF AnySeq
  <2> QED BY <2>1, FS_Interval
<1> QED BY <1>1, <1>2, <1>3, <1>4

\* A finite set has an order.
LEMMA OrderOfSet == ASSUME NEW S, IsFiniteSet(S) PROVE SetToSeq(S) \in Seq(S)
<1>1. Cardinality(S) \in Nat /\ ExistsBijection(1 .. Cardinality(S), S)
  BY FS_CardinalityType
<1>2. PICK f \in [1 .. Cardinality(S) -> S] : IsInjective(f)
  BY <1>1 DEF ExistsBijection, Bijection, Injection, IsInjective
<1>3. SetToSeq(S) \in [1 .. Cardinality(S) -> S]
  BY <1>2 DEF SetToSeq
<1> QED BY <1>1, <1>3, IsASeq

\* A transfer says what it was made from.
LEMMA TransferMail ==
  ASSUME Assets!ConstantsAssumption, NEW b, NEW changed, NEW removed, NEW content,
         changed \subseteq Paths, removed \subseteq Paths, Past(content)
  PROVE  /\ Mail(Assets!Transfer(b, changed, removed, content))
         /\ changed \union removed # {} => Assets!Transfer(b, changed, removed, content) # <<>>
<1>1. CASE changed \union removed = {}
  BY <1>1, MailOps DEF Assets!Transfer
<1>2. CASE changed \union removed # {}
  <2> DEFINE B == [type |-> "begin", batch |-> b, entries |-> content, changed |-> changed, removed |-> removed]
             C == [type |-> "commit", batch |-> b]
             q == SetToSeq(changed) \o SetToSeq(removed)
             P(i) == [type |-> "path", batch |-> b, path |-> q[i], removed |-> q[i] \in removed]
             n == Cardinality(changed \union removed)
             middle == [i \in 1 .. n |-> P(i)]
             N == {P(i) : i \in 1 .. n}
  <2>1. n \in Nat
    <3>1. IsFiniteSet(changed \union removed)
      BY FS_Subset, SameOperators DEF Assets!ConstantsAssumption
    <3> QED BY <3>1, FS_CardinalityType
  <2>2. middle \in Seq(N) /\ \A m \in N : Honest(m)
    <3>1. \A i \in 1 .. n : P(i) \in N /\ Honest(P(i))
      BY DEF Honest
    <3> HIDE DEF P, n
    <3>2. middle \in [1 .. n -> N]
      BY <3>1
    <3> HIDE DEF middle, N
    <3>4. middle \in Seq(N)
      BY <2>1, <3>2, IsASeq
    <3> USE DEF N
    <3>3. \A m \in N : Honest(m)
      BY <3>1
    <3> QED BY <3>3, <3>4
  <2>3. Mail(middle)
    <3> HIDE DEF middle, N
    <3> QED BY <2>2 DEF Mail
  <2>4. Honest(B) /\ Honest(C)
    BY DEF Honest
  <2>5. Assets!Transfer(b, changed, removed, content) = <<B>> \o middle \o <<C>>
    BY <1>2, SameOperators DEF Assets!Transfer
  <2> HIDE DEF B, C, middle
  <2>6. Mail(<<B>>) /\ Mail(<<C>>)
    <3>1. ASSUME NEW m, Honest(m), NEW s, s = <<m>> PROVE Mail(s)
      <4>1. s \in Seq({m})
        BY <3>1
      <4>2. \A x \in {m} : Honest(x)
        BY <3>1
      <4> QED BY <4>1, <4>2, Containers
    <3> QED BY <2>4, <3>1
  <2>7. Mail(<<B>> \o middle) /\ Mail(<<B>> \o middle \o <<C>>)
    BY <2>3, <2>6, MailOps
  <2>8. <<B>> \o middle \o <<C>> # <<>>
    <3>1. PICK M : <<B>> \o middle \in Seq(M)
      BY <2>7 DEF Mail
    <3>2. <<B>> \o middle \in Seq(M \union {C}) /\ <<C>> \in Seq(M \union {C})
      BY <3>1, SeqMonotonic
    <3>3. Len(<<B>> \o middle \o <<C>>) = Len(<<B>> \o middle) + Len(<<C>>) /\ Len(<<C>>) = 1
          /\ Len(<<B>> \o middle) \in Nat
      BY <3>2, ConcatProperties, LenProperties
    <3>4. Len(<<>>) = 0
      OBVIOUS
    <3> QED BY <3>3, <3>4
  <2> QED BY <2>5, <2>7, <2>8
<1> QED BY <1>1, <1>2

-----------------------------------------------------------------------------
(* The disk *)

EverPast == \A e : Past(e) => Past(e)'
EverMail == \A s : Mail(s) => Mail(s)'
Grown == DiskInv' /\ edits <= edits' /\ EverPast /\ EverMail

\* Who writes an asset, and what: the outside world, a content that is new or none.
LEMMA EditEffect ==
  ASSUME [Assets!Next]_(Assets!vars)
  PROVE  (disk' = disk /\ edits' = edits) \/ \E p \in Paths : Assets!Edit(p, 0) \/ Assets!Edit(p, edits + 2)
<1>1. CASE Assets!Main
  BY <1>1 DEF Assets!Main, Assets!Drain, Assets!TakeEvent, Assets!Scan, Assets!PublishRevision,
     Assets!Publish, Assets!Reload, Assets!Send, Assets!Build, Assets!Launch, Assets!bounds
<1>2. CASE Assets!SyncElsewhere \/ Assets!Connect \/ Assets!SendManifest \/ Assets!Drop
           \/ Assets!Hear \/ Assets!Dispatch \/ Assets!Pump
  BY <1>2 DEF Assets!SyncElsewhere, Assets!Connect, Assets!SendManifest, Assets!Drop, Assets!Hear,
     Assets!Dispatch, Assets!Pump, Assets!bounds
<1>3. ASSUME NEW p \in Paths, Assets!Load(p) PROVE disk' = disk /\ edits' = edits
  BY <1>3 DEF Assets!Load, Assets!bounds
<1>4. CASE UNCHANGED Assets!vars
  BY <1>4 DEF Assets!vars, Assets!bounds
<1> QED BY <1>1, <1>2, <1>3, <1>4 DEF Assets!Next

\* What was no later than the disk stays so: a file that is there again has a new content.
LEMMA DiskGrows ==
  ASSUME Assets!ConstantsAssumption, DiskInv, [Assets!Next]_(Assets!vars)
  PROVE  Grown
<1>1. DiskInv' /\ edits <= edits' /\ edits \in Nat /\ edits' \in Nat
      /\ \A p \in Paths : \A c \in Nat : c <= edits + 1 /\ (disk[p] # 0 => c <= disk[p])
                                           => c <= edits' + 1 /\ (disk'[p] # 0 => c <= disk'[p])
  <2>1. edits \in Nat /\ MaxEdits \in Nat
    BY DEF DiskInv, Assets!ConstantsAssumption
  <2>2. CASE disk' = disk /\ edits' = edits
    BY <2>1, <2>2 DEF DiskInv
  <2>3. ASSUME NEW p \in Paths, NEW c \in {0, edits + 2}, Assets!Edit(p, c)
        PROVE  DiskInv' /\ edits <= edits' /\ edits' \in Nat
               /\ \A q \in Paths : \A d \in Nat : d <= edits + 1 /\ (disk[q] # 0 => d <= disk[q])
                                           => d <= edits' + 1 /\ (disk'[q] # 0 => d <= disk'[q])
    <3>1. edits' = edits + 1 /\ edits < MaxEdits /\ disk' = [disk EXCEPT ![p] = c]
      BY <2>3 DEF Assets!Edit
    <3>2. /\ disk' \in [Paths -> Nat] /\ c \in Nat
          /\ \A q \in Paths : disk'[q] = IF q = p THEN c ELSE disk[q]
      BY <2>1, <3>1 DEF DiskInv
    <3>3. \A q \in Paths : disk'[q] <= edits' + 1
      <4>1. \A q \in Paths : disk[q] \in Nat /\ disk[q] <= edits + 1
        BY DEF DiskInv
      <4> QED BY <2>1, <3>1, <3>2, <4>1
    <3>4. DiskInv'
      BY <2>1, <3>1, <3>2, <3>3 DEF DiskInv
    <3> QED BY <2>1, <3>1, <3>2, <3>4
  <2> QED BY <2>1, <2>2, <2>3, EditEffect
<1>2. EverPast
  BY <1>1 DEF EverPast, Past
<1>3. EverMail
  <2>1. \A m : Honest(m) => Honest(m)'
    BY <1>2 DEF EverPast, Honest, Past
  <2> QED BY <2>1 DEF EverMail, Mail
<1> QED BY <1>1, <1>2, <1>3 DEF Grown

\* The contents on disk are no later than themselves.
LEMMA DiskIsPast == ASSUME DiskInv PROVE Past(disk)
BY DEF DiskInv, Past

\* What a step leaves alone stays sound.
LEMMA Stays ==
  ASSUME Assets!ConstantsAssumption, AssetInv, Grown
  PROVE  /\ UNCHANGED <<known, revision, dirty, confirmed, published, delta>> => SessionInv'
         /\ UNCHANGED <<pc, to, conn, out, down, up, recs>> => ChannelInv'
         /\ app' = app => AppInv'
<1>1. DiskInv /\ SessionInv /\ ChannelInv /\ AppInv
  BY DEF AssetInv
<1>2. ASSUME UNCHANGED <<known, revision, dirty, confirmed, published, delta>> PROVE SessionInv'
  <2>1. Past(known)' /\ Past(published.entries)'
    BY <1>1, <1>2 DEF SessionInv, Grown, EverPast
  <2> QED BY <1>1, <1>2, <2>1 DEF SessionInv
<1>3. ASSUME UNCHANGED <<pc, to, conn, out, down, up, recs>> PROVE ChannelInv'
  <2>1. Mail(out)' /\ Mail(down)'
    BY <1>1, <1>3 DEF ChannelInv, Grown, EverMail
  <2>2. Answers(up)' /\ Lacks(recs)'
    BY <1>1, <1>3 DEF ChannelInv, Answers, Lacks, Answer, Lacking, Owed
  <2> QED BY <1>1, <1>3, <2>1, <2>2 DEF ChannelInv
<1>4. ASSUME app' = app PROVE AppInv'
  <2>1. Past(app.desired)' /\ Past(app.applied)'
    BY <1>1, <1>4 DEF AppInv, Grown, EverPast
  <2>2. AppShape' /\ AnySeq(app.held)' /\ AnySeq(app.events)'
    BY <1>1, <1>4 DEF AppInv, AppShape, AnySeq
  <2>3. edits \in Nat /\ edits' \in Nat /\ edits <= edits'
    BY <1>1 DEF DiskInv, Grown, Assets!ConstantsAssumption
  <2>4. \A p \in Paths : app.cache[p] \in Nat /\ app.cache[p] <= edits + 1 => app.cache[p] <= edits' + 1
    BY <2>3
  <2> QED BY <1>1, <1>4, <2>1, <2>2, <2>4 DEF AppInv
<1> QED BY <1>2, <1>3, <1>4

-----------------------------------------------------------------------------
(* The steps *)

\* A scan of the index finds what is on disk.
LEMMA SyncPast ==
  ASSUME DiskInv, SessionInv, Assets!Sync
  PROVE  Past(known') /\ revision' \in Nat /\ confirmed' \in BOOLEAN
BY DiskIsPast DEF SessionInv, Assets!Sync

\* The index of the session, and what it published, is of the past.
LEMMA SessionStep ==
  ASSUME Assets!ConstantsAssumption, AssetInv, Grown, [Assets!Next]_(Assets!vars)
  PROVE  SessionInv'
<1>1. DiskInv /\ SessionInv /\ ChannelInv /\ AppInv
  BY DEF AssetInv
<1>2. ASSUME Past(known'), Past(published'.entries), revision' \in Nat, dirty' \in BOOLEAN, confirmed' \in BOOLEAN,
             published' = [batch |-> published'.batch, entries |-> published'.entries],
             delta'.changed \subseteq Paths, delta'.removed \subseteq Paths
      PROVE  SessionInv'
  <2>1. Past(known)' /\ Past(published.entries)'
    BY <1>2 DEF Grown, EverPast
  <2> QED BY <1>2, <2>1 DEF SessionInv
<1>3. UNCHANGED <<known, revision, dirty, confirmed, published, delta>> => SessionInv'
  BY Stays
<1>4. CASE Assets!Drain \/ Assets!PublishRevision \/ Assets!Reload \/ Assets!Send \/ Assets!Connect
           \/ Assets!SendManifest \/ Assets!Drop \/ Assets!Dispatch \/ Assets!Pump
           \/ (\E p \in Paths : Assets!Load(p)) \/ UNCHANGED Assets!vars
  BY <1>3, <1>4 DEF Assets!Drain, Assets!PublishRevision, Assets!Reload, Assets!Send, Assets!Connect,
     Assets!SendManifest, Assets!Drop, Assets!Dispatch, Assets!Pump, Assets!Load, Assets!vars,
     Assets!session, Assets!loop
<1>5. CASE Assets!TakeEvent \/ (\E p \in Paths : Assets!Edit(p, 0) \/ Assets!Edit(p, edits + 2))
  <2>1. UNCHANGED <<known, revision, confirmed, published, delta>> /\ dirty' \in BOOLEAN
    BY <1>5 DEF Assets!TakeEvent, Assets!Edit, Assets!loop
  <2> QED BY <1>1, <1>2, <2>1 DEF SessionInv
<1>6. CASE Assets!SyncElsewhere
  <2>1. Assets!Sync /\ UNCHANGED <<dirty, published, delta>>
    BY <1>6 DEF Assets!SyncElsewhere, Assets!loop
  <2> QED BY <1>1, <1>2, <2>1, SyncPast DEF SessionInv
<1>7. CASE Assets!Scan
  <2>1. Assets!Sync /\ UNCHANGED <<dirty, published>> /\ delta'.changed \subseteq Paths /\ delta'.removed \subseteq Paths
    BY <1>7 DEF Assets!Scan
  <2> QED BY <1>1, <1>2, <2>1, SyncPast DEF SessionInv
<1>8. CASE Assets!Publish
  <2>1. UNCHANGED <<known, revision, confirmed, dirty, delta>> /\ published' = Assets!Published(before)
    BY <1>8 DEF Assets!Publish
  <2>2. published'.entries = known /\ published' = [batch |-> published'.batch, entries |-> published'.entries]
    BY <2>1 DEF Assets!Published
  <2> QED BY <1>1, <1>2, <2>1, <2>2 DEF SessionInv
<1>9. CASE Assets!Build
  <2>1. Assets!Sync /\ UNCHANGED <<dirty, delta>> /\ published'.entries = disk
        /\ published' = [batch |-> published'.batch, entries |-> published'.entries]
    BY <1>9 DEF Assets!Build
  <2> QED BY <1>1, <1>2, <2>1, SyncPast, DiskIsPast DEF SessionInv
<1>10. CASE Assets!Launch
  <2>1. UNCHANGED <<known, revision, delta>> /\ dirty' \in BOOLEAN /\ confirmed' \in BOOLEAN
        /\ published' \in {published, [published EXCEPT !.batch.transfer = 1]}
    BY <1>1, <1>10 DEF Assets!Launch, SessionInv
  <2>2. published'.entries = published.entries /\ published' = [batch |-> published'.batch, entries |-> published'.entries]
    BY <1>1, <2>1 DEF SessionInv
  <2> QED BY <1>1, <1>2, <2>1, <2>2 DEF SessionInv
<1>11. CASE Assets!Hear
  <2>1. UNCHANGED <<known, revision, dirty, published, delta>> /\ confirmed' \in BOOLEAN
    BY <1>1, <1>11 DEF Assets!Hear, Assets!session, Assets!loop, SessionInv
  <2> QED BY <1>1, <1>2, <2>1 DEF SessionInv
<1> QED BY <1>4, <1>5, <1>6, <1>7, <1>8, <1>9, <1>10, <1>11 DEF Assets!Next, Assets!Main

\* An app is a record of the same fields, whatever is updated.
LEMMA AppFields ==
  ASSUME AppShape
  PROVE  /\ DOMAIN app = {"desired", "batch", "pending", "held", "events", "applied", "cache"}
         /\ \A f : f = [x \in DOMAIN app |-> f[x]]
              => f = [desired |-> f.desired, batch |-> f.batch, pending |-> f.pending, held |-> f.held,
                      events |-> f.events, applied |-> f.applied, cache |-> f.cache]
BY DEF AppShape

\* The UI thread evicts what it marks.
LEMMA PumpStep == ASSUME Assets!ConstantsAssumption, AssetInv, Grown, Assets!Pump PROVE AppInv'
<1>1. DiskInv /\ AppInv /\ edits' = edits
  BY DEF AssetInv, Assets!Pump, Assets!bounds
<1> DEFINE paths == {app.events[i].path : i \in DOMAIN app.events}
           marked == {app.events[i].path : i \in {j \in DOMAIN app.events :
                        app.events[j].batch.transfer = app.batch.transfer}}
           cache == [p \in Paths |-> IF p \in paths THEN None ELSE app.cache[p]]
           applied == [p \in Paths |-> IF p \in marked THEN app.desired[p] ELSE app.applied[p]]
<1>2. app' = [app EXCEPT !.events = <<>>, !.cache = cache, !.applied = applied]
  BY DEF Assets!Pump
<1>3. marked \subseteq paths
  OBVIOUS
<1> HIDE DEF paths, marked
<1>4. app' = [desired |-> app.desired, batch |-> app.batch, pending |-> app.pending, held |-> app.held,
              events |-> <<>>, applied |-> applied, cache |-> cache]
  BY <1>1, <1>2 DEF AppInv, AppShape
<1>5. Past(applied) /\ Past(app.desired)
  BY <1>1 DEF AppInv, Past
<1>6. Past(app.applied)' /\ Past(app.desired)'
  BY <1>4, <1>5 DEF Grown, EverPast
<1>7. AppShape' /\ AnySeq(app.held)' /\ AnySeq(app.events)'
  <2>1. AppShape'
    BY <1>4 DEF AppShape
  <2>2. AnySeq(app'.held) /\ AnySeq(app'.events)
    BY <1>1, <1>4, AnySeqOps DEF AppInv
  <2> QED BY <2>1, <2>2 DEF AnySeq
<1>8. cache \in [Paths -> Nat \union {None, Broken}]
  BY <1>1 DEF AppInv
<1>9. \A p \in Paths : cache[p] \in Nat => cache[p] <= edits + 1 /\ (applied[p] # 0 => cache[p] >= applied[p])
  <2> SUFFICES ASSUME NEW p \in Paths, cache[p] \in Nat
               PROVE  cache[p] <= edits + 1 /\ (applied[p] # 0 => cache[p] >= applied[p])
    OBVIOUS
  <2>1. p \notin paths
    BY DEF Assets!ConstantsAssumption
  <2>2. cache[p] = app.cache[p] /\ applied[p] = app.applied[p]
    BY <1>3, <2>1
  <2> QED BY <1>1, <2>2 DEF AppInv
<1> QED BY <1>1, <1>4, <1>6, <1>7, <1>8, <1>9 DEF AppInv

\* What the app makes of its state with the cache and the marks as they were.
LEMMA AppKept ==
  ASSUME AssetInv, Grown, AppShape', edits' = edits, Past(app'.desired), AnySeq(app'.held), AnySeq(app'.events),
         app'.applied = app.applied, app'.cache = app.cache
  PROVE  AppInv'
<1>1. AppInv
  BY DEF AssetInv
<1>2. Past(app.applied)' /\ Past(app.desired)'
  BY <1>1 DEF AppInv, Grown, EverPast
<1>3. AnySeq(app.held)' /\ AnySeq(app.events)'
  BY DEF AnySeq
<1> QED BY <1>1, <1>2, <1>3 DEF AppInv

\* An asset that is loaded has the content on disk, which is no older than the manifest.
LEMMA LoadStep ==
  ASSUME Assets!ConstantsAssumption, AssetInv, Grown, NEW p \in Paths, Assets!Load(p)
  PROVE  AppInv'
<1>1. DiskInv /\ AppInv /\ edits' = edits
  BY DEF AssetInv, Assets!Load, Assets!bounds
<1>2. PICK c : /\ c \in {Broken, disk[p]} /\ (c = disk[p] /\ c # Broken => disk[p] # 0)
               /\ app' = [app EXCEPT !.cache[p] = c]
  BY DEF Assets!Load
<1> DEFINE cache == [app.cache EXCEPT ![p] = c]
<1>3. app' = [desired |-> app.desired, batch |-> app.batch, pending |-> app.pending, held |-> app.held,
              events |-> app.events, applied |-> app.applied, cache |-> cache]
  BY <1>1, <1>2 DEF AppInv, AppShape
<1>4. disk[p] \in Nat /\ disk[p] <= edits + 1 /\ edits \in Nat
  BY <1>1 DEF DiskInv, Assets!ConstantsAssumption
<1>5. cache \in [Paths -> Nat \union {None, Broken}]
  BY <1>1, <1>2, <1>4 DEF AppInv
<1>6. ASSUME NEW q \in Paths, cache[q] \in Nat
      PROVE  cache[q] <= edits + 1 /\ (app.applied[q] # 0 => cache[q] >= app.applied[q])
  <2>1. CASE q # p
    <3>1. cache[q] = app.cache[q]
      BY <1>1, <2>1 DEF AppInv
    <3> QED BY <1>1, <1>6, <3>1 DEF AppInv
  <2>2. CASE q = p
    <3>1. cache[p] = c /\ c # Broken
      BY <1>1, <1>6, <2>2 DEF AppInv, Assets!ConstantsAssumption
    <3>2. cache[p] = disk[p] /\ disk[p] # 0
      BY <1>2, <3>1
    <3>3. app.applied[p] \in Nat /\ app.applied[p] <= disk[p]
      BY <1>1, <3>2 DEF AppInv, Past
    <3> QED BY <1>4, <2>2, <3>2, <3>3
  <2> QED BY <2>1, <2>2
<1> HIDE DEF cache
<1>7. Past(app.desired)' /\ Past(app.applied)'
  BY <1>1, <1>3 DEF AppInv, Grown, EverPast
<1>8. AppShape' /\ AnySeq(app.held)' /\ AnySeq(app.events)'
  BY <1>1, <1>3 DEF AppInv, AppShape, AnySeq
<1> QED BY <1>1, <1>3, <1>5, <1>6, <1>7, <1>8 DEF AppInv

\* What the app applies was on disk once, and what it held of other contents is dropped
\* when it says that they changed.
LEMMA DispatchStep ==
  ASSUME Assets!ConstantsAssumption, AssetInv, Grown, Assets!Dispatch
  PROVE  AppInv'
<1>1. DiskInv /\ AppInv /\ edits' = edits /\ ChannelInv
  BY DEF AssetInv, Assets!Dispatch, Assets!bounds
<1> DEFINE m == Head(down)
<1>2. Honest(m) /\ (\/ m.type = "manifest" /\ Assets!TakeManifest(m)
                    \/ m.type = "begin"  /\ Assets!TakeBegin(m)
                    \/ m.type = "path"   /\ Assets!TakePath(m)
                    \/ m.type = "commit" /\ Assets!TakeCommit(m))
  BY <1>1, MailOps DEF Assets!Dispatch, ChannelInv
<1> HIDE DEF m
<1>3. Past(app.desired) /\ AnySeq(app.held) /\ AnySeq(app.events) /\ AppShape
  BY <1>1 DEF AppInv
<1>4. AnySeq(<<>>)
  BY AnySeqOps
<1>5. CASE m.type = "manifest" /\ Assets!TakeManifest(m)
  <2>1. app' = [desired |-> m.entries, batch |-> m.batch, pending |-> None, held |-> <<>>,
                events |-> app.events, applied |-> app.applied, cache |-> app.cache]
    BY <1>3, <1>5 DEF Assets!TakeManifest, AppShape
  <2>2. AppShape'
    BY <2>1 DEF AppShape
  <2>3. Past(m.entries)
    BY <1>2, <1>5 DEF Honest
  <2> QED BY <1>1, <1>3, <1>4, <2>1, <2>2, <2>3, AppKept
<1>6. CASE m.type = "begin" /\ Assets!TakeBegin(m)
  <2> DEFINE wanted == [p \in Paths |-> IF p \in m.changed THEN m.entries[p]
                                        ELSE IF p \in m.removed THEN 0 ELSE app.desired[p]]
             held == IF app.pending = m.batch THEN app.held ELSE <<>>
  <2>1. app' = [desired |-> wanted, batch |-> m.batch, pending |-> m.batch, held |-> held,
                events |-> app.events, applied |-> app.applied, cache |-> app.cache]
    BY <1>3, <1>6 DEF Assets!TakeBegin, AppShape
  <2>2. Past(m.entries) /\ edits \in Nat
    BY <1>1, <1>2, <1>6 DEF Honest, DiskInv, Assets!ConstantsAssumption
  <2>3. Past(wanted)
    <3>1. \A p \in Paths : disk[p] \in Nat
      BY <1>1 DEF DiskInv
    <3> QED BY <1>3, <2>2, <3>1 DEF Past
  <2>4. AnySeq(held)
    BY <1>3, <1>4
  <2> HIDE DEF wanted, held
  <2>5. AppShape'
    BY <2>1 DEF AppShape
  <2> QED BY <1>1, <1>3, <2>1, <2>3, <2>4, <2>5, AppKept
<1>7. CASE Assets!TakePath(m)
  <2>1. PICK h, e : /\ h \in {app.held, Append(app.held, m)} /\ e \in {app.events, Append(app.events, m)}
                    /\ app' = [app EXCEPT !.held = h, !.events = e]
    <3>1. CASE app' = [app EXCEPT !.held = Append(@, m)]
      <4>1. app' = [app EXCEPT !.held = Append(app.held, m), !.events = app.events]
        BY <1>3, <3>1 DEF AppShape
      <4> QED BY <4>1
    <3>2. CASE app' = [app EXCEPT !.events = Append(@, m)]
      <4>1. app' = [app EXCEPT !.held = app.held, !.events = Append(app.events, m)]
        BY <1>3, <3>2 DEF AppShape
      <4> QED BY <4>1
    <3> QED BY <1>7, <3>1, <3>2 DEF Assets!TakePath
  <2>2. AnySeq(h) /\ AnySeq(e)
    BY <1>3, <2>1, AnySeqOps
  <2>3. app' = [desired |-> app.desired, batch |-> app.batch, pending |-> app.pending, held |-> h,
                events |-> e, applied |-> app.applied, cache |-> app.cache]
    BY <1>3, <2>1 DEF AppShape
  <2>4. AppShape'
    BY <2>3 DEF AppShape
  <2> QED BY <1>1, <1>3, <2>2, <2>3, <2>4, AppKept
<1>8. CASE Assets!TakeCommit(m)
  <2>1. CASE app' = app
    BY <2>1, Stays
  <2>2. CASE app' = [app EXCEPT !.events = @ \o app.held, !.pending = None, !.held = <<>>]
    <3>1. app' = [desired |-> app.desired, batch |-> app.batch, pending |-> None, held |-> <<>>,
                  events |-> app.events \o app.held, applied |-> app.applied, cache |-> app.cache]
      BY <1>3, <2>2 DEF AppShape
    <3>2. AnySeq(app.events \o app.held)
      BY <1>3, AnySeqOps
    <3>3. AppShape'
      BY <3>1 DEF AppShape
    <3> QED BY <1>1, <1>3, <1>4, <3>1, <3>2, <3>3, AppKept
  <2> QED BY <1>8, <2>1, <2>2 DEF Assets!TakeCommit
<1> QED BY <1>2, <1>5, <1>6, <1>7, <1>8

\* An app that has just started has loaded nothing.
LEMMA FreshApp ==
  ASSUME Assets!ConstantsAssumption, DiskInv, app' = Assets!Fresh, disk' = disk,
         edits' = edits
  PROVE  AppInv'
<1>1. app' = [desired |-> Assets!Zero, batch |-> Assets!Batch(0, 0), pending |-> None, held |-> <<>>, events |-> <<>>,
              applied |-> Assets!Zero, cache |-> [p \in Paths |-> None]]
  BY DEF Assets!Fresh
<1>2. Assets!Zero \in [Paths -> Nat] /\ \A p \in Paths : Assets!Zero[p] = 0
  BY DEF Assets!Zero
<1>3. Past(app.desired)' /\ Past(app.applied)'
  <2>1. edits \in Nat /\ \A p \in Paths : disk[p] \in Nat
    BY DEF DiskInv, Assets!ConstantsAssumption
  <2> QED BY <1>1, <1>2, <2>1 DEF Past
<1>4. AnySeq(app'.held) /\ AnySeq(app'.events)
  BY <1>1, AnySeqOps
<1>5. AnySeq(app.held)' /\ AnySeq(app.events)' /\ AppShape'
  BY <1>1, <1>4 DEF AnySeq, AppShape
<1>6. app'.cache = [p \in Paths |-> None]
  BY <1>1
<1> QED BY <1>3, <1>5, <1>6 DEF AppInv, Assets!ConstantsAssumption

\* The app keeps nothing older than the manifest that it applied.
LEMMA AppStep ==
  ASSUME Assets!ConstantsAssumption, AssetInv, Grown, [Assets!Next]_(Assets!vars)
  PROVE  AppInv'
<1>1. CASE Assets!Drain \/ Assets!TakeEvent \/ Assets!Scan \/ Assets!PublishRevision
           \/ Assets!Publish \/ Assets!Reload \/ Assets!Send \/ Assets!Build \/ Assets!SyncElsewhere
           \/ Assets!Connect \/ Assets!SendManifest \/ Assets!Drop \/ Assets!Hear
           \/ (\E p \in Paths : Assets!Edit(p, 0) \/ Assets!Edit(p, edits + 2))
           \/ UNCHANGED Assets!vars
  <2>1. app' = app
    BY <1>1 DEF Assets!Drain, Assets!TakeEvent, Assets!Scan, Assets!PublishRevision, Assets!Publish,
       Assets!Reload, Assets!Send, Assets!Build, Assets!SyncElsewhere,
      Assets!Connect, Assets!SendManifest, Assets!Drop, Assets!Hear, Assets!Edit, Assets!vars
  <2> QED BY <2>1, Stays
<1>2. CASE Assets!Launch
  <2>1. disk' = disk /\ edits' = edits /\ (app' = app \/ app' = Assets!Fresh) /\ DiskInv
    BY <1>2 DEF Assets!Launch, Assets!bounds, AssetInv
  <2> QED BY <2>1, FreshApp, Stays
<1> QED BY <1>1, <1>2, LoadStep, DispatchStep, PumpStep DEF Assets!Next, Assets!Main

\* Messages and answers stay sound in the next state.
LEMMA ChannelKept ==
  ASSUME AssetInv, Grown, Mail(out'), Mail(down'), Answers(up'), Lacks(recs'),
         pc' \in {"idle", "scan", "publish", "entries", "reload", "send", "build", "launch"},
         to' \in {"all", "one", "gone"}, conn' \in {"none", "new", "open"},
         pc' = "send" => out' # <<>>, Len(down') <= QueueSize, conn' = "none" => down' = <<>>
  PROVE  ChannelInv'
<1>1. Mail(out)' /\ Mail(down)'
  BY DEF Grown, EverMail
<1>2. Answers(up)' /\ Lacks(recs)'
  BY DEF Answers, Lacks, Answer, Lacking, Owed
<1> QED BY <1>1, <1>2 DEF ChannelInv

\* The transfer to a connection that lacks assets says what was published.
LEMMA DrainStep ==
  ASSUME Assets!ConstantsAssumption, AssetInv, Grown, Assets!Drain
  PROVE  ChannelInv'
<1>1. ChannelInv /\ SessionInv
  BY DEF AssetInv
<1>2. recs # <<>> /\ recs' = Tail(recs) /\ UNCHANGED <<conn, down, up>> /\ pc = "idle"
  BY DEF Assets!Drain
<1>3. Owed(Head(recs)) /\ Lacks(recs')
  BY <1>1, <1>2, LacksOps DEF ChannelInv
<1>4. CASE UNCHANGED <<pc, out, to>>
  BY <1>1, <1>2, <1>3, <1>4, ChannelKept DEF ChannelInv
<1>5. CASE Assets!Goto("build") /\ UNCHANGED <<out, to>>
  BY <1>1, <1>2, <1>3, <1>5, ChannelKept DEF ChannelInv, Assets!Goto
<1>6. ASSUME NEW r, r = Head(recs), r.changed \union r.removed # {}, Assets!Goto("send"), to' = r.connection,
             out' = Assets!Transfer(r.batch, r.changed, r.removed, known)
      PROVE  ChannelInv'
  <2>1. Mail(out') /\ out' # <<>>
    BY <1>1, <1>3, <1>6, TransferMail DEF SessionInv, Owed, Lacking
  <2>2. to' \in {"one", "gone"}
    BY <1>3, <1>6 DEF Owed
  <2> QED BY <1>1, <1>2, <1>3, <1>6, <2>1, <2>2, ChannelKept DEF ChannelInv, Assets!Goto
<1> QED BY <1>4, <1>5, <1>6 DEF Assets!Drain

\* So does a transfer to every connection.
LEMMA ReloadStep ==
  ASSUME Assets!ConstantsAssumption, AssetInv, Grown, Assets!Reload
  PROVE  ChannelInv'
<1>1. ChannelInv /\ SessionInv /\ UNCHANGED <<conn, down, up, recs>>
  BY DEF AssetInv, Assets!Reload, Assets!channel
<1>2. CASE Assets!Goto("build") /\ UNCHANGED <<out, to>>
  BY <1>1, <1>2, ChannelKept DEF ChannelInv, Assets!Goto
<1>3. CASE to' = "all" /\ out' = Assets!Transfer(Assets!Batch(published.batch.transfer, revision), delta.changed, delta.removed,
                                          published.entries)
           /\ Assets!Goto(IF out' = <<>> THEN "idle" ELSE "send")
  <2>1. Mail(out')
    BY <1>1, <1>3, TransferMail DEF SessionInv
  <2> QED BY <1>1, <1>3, <2>1, ChannelKept DEF ChannelInv, Assets!Goto
<1> QED BY <1>2, <1>3 DEF Assets!Reload

\* A message that is sent was sound before, as it waited.
LEMMA SendStep ==
  ASSUME Assets!ConstantsAssumption, AssetInv, Grown, Assets!Send
  PROVE  ChannelInv'
<1>1. ChannelInv /\ UNCHANGED <<conn, up, recs, to>> /\ pc = "send"
  BY DEF AssetInv, Assets!Send
<1>2. Honest(Head(out)) /\ Mail(Tail(out)) /\ Mail(<<>>) /\ Len(down) \in Nat
  BY <1>1, MailOps DEF ChannelInv
<1>3. pc' \in {"send", "build", "idle"} /\ (pc' = "send" => out' # <<>>)
  BY DEF Assets!Send, Assets!Goto
<1>4. CASE conn # "none" /\ ~Assets!Full /\ down' = Append(down, Head(out)) /\ out' = Tail(out)
  <2>1. Mail(down') /\ Len(down') <= QueueSize
    BY <1>1, <1>2, <1>4, MailOps DEF ChannelInv, Assets!Full, Assets!ConstantsAssumption
  <2> QED BY <1>1, <1>2, <1>3, <1>4, <2>1, ChannelKept DEF ChannelInv
<1>5. CASE down' = down /\ out' \in {Tail(out), <<>>}
  <2>1. Mail(out')
    BY <1>2, <1>5
  <2> QED BY <1>1, <1>3, <1>5, <2>1, ChannelKept DEF ChannelInv
<1> QED BY <1>4, <1>5 DEF Assets!Send

\* What a connection says it lacks is a list of paths.
LEMMA HearStep == ASSUME AssetInv, Grown, Assets!Hear PROVE ChannelInv'
<1>1. ChannelInv /\ UNCHANGED <<pc, out, to, conn, down>> /\ up # <<>> /\ up' = Tail(up)
  BY DEF AssetInv, Assets!Hear, Assets!loop
<1>2. Answer(Head(up)) /\ Answers(up')
  BY <1>1, AnswersOps DEF ChannelInv
<1>3. CASE recs' = recs
  BY <1>1, <1>2, <1>3, ChannelKept DEF ChannelInv
<1>4. ASSUME NEW m, m = Head(up), m.type # "applied",
             recs' = Append(recs, [batch |-> m.batch, connection |-> "one", changed |-> m.changed, removed |-> m.removed])
      PROVE  ChannelInv'
  <2>1. m.changed \subseteq Paths /\ m.removed \subseteq Paths
    BY <1>2, <1>4 DEF Answer, Lacking
  <2>2. Owed([batch |-> m.batch, connection |-> "one", changed |-> m.changed, removed |-> m.removed])
    BY <2>1 DEF Owed, Lacking
  <2>3. Lacks(recs')
    BY <1>1, <1>4, <2>2, LacksOps DEF ChannelInv
  <2> QED BY <1>1, <1>2, <2>3, ChannelKept DEF ChannelInv
<1> QED BY <1>3, <1>4 DEF Assets!Hear

\* The app takes the messages in turn, and says what it lacks.
LEMMA DispatchMail ==
  ASSUME Assets!ConstantsAssumption, AssetInv, Grown, Assets!Dispatch
  PROVE  ChannelInv'
<1>1. ChannelInv /\ UNCHANGED <<pc, out, to, conn, recs>> /\ down # <<>> /\ down' = Tail(down)
  BY DEF AssetInv, Assets!Dispatch, Assets!loop
<1>2. Mail(down') /\ Len(down') = Len(down) - 1 /\ Len(down) \in Nat
  BY <1>1, MailOps DEF ChannelInv
<1>3. Len(down') <= QueueSize /\ conn # "none"
  BY <1>1, <1>2 DEF ChannelInv, Assets!ConstantsAssumption
<1>4. CASE up' = up
  BY <1>1, <1>2, <1>3, <1>4, ChannelKept DEF ChannelInv
<1>5. ASSUME NEW m, Assets!TakeManifest(m) PROVE ChannelInv'
  <2> DEFINE changed == {p \in Paths : m.entries[p] # 0 /\ m.entries[p] # app.applied[p]}
             removed == {p \in Paths : m.entries[p] = 0 /\ app.applied[p] # 0}
             a == [type |-> "reconciled", batch |-> m.batch, changed |-> changed, removed |-> removed]
             t == IF changed \union removed = {} THEN <<Assets!Applied(m.batch, TRUE)>> ELSE <<>>
  <2>1. up' = up \o <<a>> \o t
    BY <1>5 DEF Assets!TakeManifest
  <2>2. Answer(a) /\ Answer(Assets!Applied(m.batch, TRUE))
    BY DEF Answer, Lacking, Assets!Applied
  <2>3. Answers(<<a>>) /\ Answers(t)
    BY <2>2, AnswersOps
  <2> HIDE DEF a, t
  <2>4. Answers(up')
    BY <1>1, <2>1, <2>3, AnswersOps DEF ChannelInv
  <2> QED BY <1>1, <1>2, <1>3, <2>4, ChannelKept DEF ChannelInv
<1> QED BY <1>4, <1>5 DEF Assets!Dispatch

\* The messages of one frame of the app.
LEMMA PumpMail == ASSUME AssetInv, Grown, Assets!Pump PROVE ChannelInv'
<1>1. ChannelInv /\ AppInv /\ UNCHANGED <<pc, out, to, conn, down, recs>>
  BY DEF AssetInv, Assets!Pump, Assets!loop
<1> DEFINE B == {Assets!Applied(b, TRUE) : b \in {app.events[i].batch : i \in DOMAIN app.events}}
           f == [i \in DOMAIN app.events |-> Assets!Applied(app.events[i].batch, TRUE)]
<1>2. up' = up \o SetToSeq(B)
  BY SameOperators DEF Assets!Pump
<1>3. IsFiniteSet(B)
  <2>1. IsFiniteSet(DOMAIN app.events)
    BY <1>1, AnySeqOps DEF AppInv
  <2>2. f \in Surjection(DOMAIN app.events, B)
    <3>1. \A i \in DOMAIN app.events : Assets!Applied(app.events[i].batch, TRUE) \in B
      OBVIOUS
    <3>2. \A t \in B : \E i \in DOMAIN app.events : t = Assets!Applied(app.events[i].batch, TRUE)
      OBVIOUS
    <3> HIDE DEF B
    <3>3. f \in [DOMAIN app.events -> B]
      BY <3>1
    <3>4. \A t \in B : \E i \in DOMAIN app.events : f[i] = t
      BY <3>2
    <3> HIDE DEF f
    <3> QED BY <3>3, <3>4 DEF Surjection
  <2> QED BY <2>1, <2>2, FS_Surjection DEF ExistsSurjection
<1>4. \A m \in B : Answer(m)
  BY DEF Answer, Assets!Applied
<1> HIDE DEF B
<1>5. Answers(SetToSeq(B))
  BY <1>3, <1>4, OrderOfSet, Containers
<1>6. Answers(up')
  BY <1>1, <1>2, <1>5, AnswersOps DEF ChannelInv
<1> QED BY <1>1, <1>6, ChannelKept DEF ChannelInv

\* The messages on their way are sound, and the limit of the queue is kept.
LEMMA ChannelStep ==
  ASSUME Assets!ConstantsAssumption, AssetInv, Grown, [Assets!Next]_(Assets!vars)
  PROVE  ChannelInv'
<1>1. ChannelInv /\ SessionInv
  BY DEF AssetInv
<1>2. Mail(<<>>) /\ Answers(<<>>) /\ Lacks(Assets!Gone(recs)) /\ Len(<<>>) <= QueueSize
  BY <1>1, MailOps, AnswersOps, LacksOps DEF ChannelInv, Assets!ConstantsAssumption
<1>3. CASE Assets!SyncElsewhere \/ (\E p \in Paths : Assets!Edit(p, 0) \/ Assets!Edit(p, edits + 2) \/ Assets!Load(p)) \/ UNCHANGED Assets!vars
  BY <1>3, Stays DEF Assets!SyncElsewhere, Assets!Edit, Assets!Load, Assets!loop, Assets!channel,
     Assets!vars
<1>4. CASE Assets!TakeEvent \/ Assets!Scan \/ Assets!PublishRevision \/ Assets!Publish \/ Assets!Build
  <2>1. UNCHANGED <<out, to, conn, down, up, recs>> /\ pc' \in {"scan", "idle", "publish", "entries", "reload", "launch"}
    BY <1>4 DEF Assets!TakeEvent, Assets!Scan, Assets!PublishRevision, Assets!Publish, Assets!Build,
       Assets!channel, Assets!Goto
  <2> QED BY <1>1, <2>1, ChannelKept DEF ChannelInv
<1>5. CASE Assets!Launch
  <2>1. UNCHANGED <<out, to>> /\ pc' \in {"build", "idle"}
        /\ \/ UNCHANGED <<conn, down, up, recs>>
           \/ conn' = "none" /\ down' = <<>> /\ up' = <<>> /\ recs' = Assets!Gone(recs)
    BY <1>5 DEF Assets!Launch, Assets!channel, Assets!Goto
  <2> QED BY <1>1, <1>2, <2>1, ChannelKept DEF ChannelInv
<1>6. CASE Assets!Connect
  <2>1. UNCHANGED <<pc, out, to, down, up, recs>> /\ conn' = "new"
    BY <1>6 DEF Assets!Connect, Assets!loop
  <2> QED BY <1>1, <2>1, ChannelKept DEF ChannelInv
<1>7. CASE Assets!SendManifest
  <2> DEFINE m == [type |-> "manifest", batch |-> published.batch, entries |-> published.entries]
  <2>1. UNCHANGED <<pc, out, to, up, recs>> /\ conn' = "open" /\ down' = IF Assets!Full THEN down ELSE Append(down, m)
    BY <1>7 DEF Assets!SendManifest, Assets!loop
  <2>2. Honest(m)
    BY <1>1 DEF Honest, SessionInv
  <2> HIDE DEF m
  <2>3. Mail(Append(down, m)) /\ Len(Append(down, m)) = Len(down) + 1 /\ Len(down) \in Nat
    BY <1>1, <2>2, MailOps DEF ChannelInv
  <2>4. Mail(down') /\ Len(down') <= QueueSize
    BY <1>1, <2>1, <2>3 DEF ChannelInv, Assets!Full, Assets!ConstantsAssumption
  <2> QED BY <1>1, <2>1, <2>4, ChannelKept DEF ChannelInv
<1>8. CASE Assets!Drop
  <2>1. UNCHANGED <<pc, out>> /\ to' \in {to, "gone"} /\ conn' = "none" /\ down' = <<>> /\ up' = <<>> /\ recs' = Assets!Gone(recs)
    BY <1>8 DEF Assets!Drop
  <2> QED BY <1>1, <1>2, <2>1, ChannelKept DEF ChannelInv
<1> QED BY <1>3, <1>4, <1>5, <1>6, <1>7, <1>8, DrainStep, ReloadStep, SendStep, HearStep, DispatchMail,
    PumpMail
        DEF Assets!Next, Assets!Main

-----------------------------------------------------------------------------
\* The invariant holds at the start.
LEMMA AssetInit == ASSUME Assets!ConstantsAssumption PROVE Assets!Init => AssetInv
<1> SUFFICES ASSUME Assets!Init PROVE AssetInv
  OBVIOUS
<1> USE DEF Assets!Init
<1>1. DiskInv
  BY DEF DiskInv, Assets!ConstantsAssumption
<1>2. Past(disk)
  BY <1>1, DiskIsPast
<1>3. SessionInv
  BY <1>2 DEF SessionInv
<1>4. Mail(<<>>) /\ Answers(<<>>) /\ Lacks(<<>>) /\ Len(<<>>) <= QueueSize
  BY MailOps, AnswersOps, LacksOps DEF Assets!ConstantsAssumption
<1>5. ChannelInv
  BY <1>4 DEF ChannelInv
<1>6. app = [desired |-> Assets!Zero, batch |-> Assets!Batch(0, 0), pending |-> None, held |-> <<>>, events |-> <<>>,
              applied |-> Assets!Zero, cache |-> [p \in Paths |-> None]]
  BY DEF Assets!Fresh
<1>7. Past(Assets!Zero)
  BY DEF Past, Assets!Zero
<1>8. AnySeq(<<>>)
  BY AnySeqOps
<1>9. AppInv
  BY <1>6, <1>7, <1>8 DEF AppInv, AppShape, Assets!ConstantsAssumption
<1> QED BY <1>1, <1>3, <1>5, <1>9 DEF AssetInv

\* Every step keeps the invariant.
LEMMA AssetStep ==
  ASSUME Assets!ConstantsAssumption
  PROVE  AssetInv /\ [Assets!Next]_(Assets!vars) => AssetInv'
<1> SUFFICES ASSUME AssetInv, [Assets!Next]_(Assets!vars) PROVE AssetInv'
  OBVIOUS
<1>1. Grown
  BY DiskGrows DEF AssetInv
<1> QED BY <1>1, SessionStep, ChannelStep, AppStep DEF AssetInv, Grown

\* The inductive invariant of the asset channel holds.
THEOREM AssetInvHolds == ASSUME Assets!ConstantsAssumption PROVE Assets!Spec => []AssetInv
<1>1. Assets!Init => AssetInv
  BY AssetInit
<1>2. AssetInv /\ [Assets!Next]_(Assets!vars) => AssetInv'
  BY AssetStep
<1> QED BY <1>1, <1>2, PTL DEF Assets!Spec

\* An asset that the app marks as applied (live.rs of the app) is not shown in an
\* older content, so that a manifest with the same content may pass it over, however
\* transfers, connections, reloads and evictions interleave and whatever is dropped.
THEOREM MarksHold == ASSUME Assets!ConstantsAssumption PROVE Assets!Spec => []Assets!Inv
<1>1. ASSUME AssetInv PROVE Assets!Inv
  <2>1. DiskInv /\ SessionInv /\ ChannelInv /\ AppInv
    BY <1>1 DEF AssetInv
  <2>2. edits \in Nat /\ MaxEdits \in Nat /\ edits + 1 <= MaxEdits + 1
    BY <2>1 DEF DiskInv, Assets!ConstantsAssumption
  <2>3. ASSUME NEW e, Past(e) PROVE e \in [Paths -> Assets!Contents]
    <3>1. \A p \in Paths : e[p] \in Assets!Contents
      BY <2>2, <2>3 DEF Past, Assets!Contents
    <3> QED BY <2>3, <3>1 DEF Past
  <2>4. disk \in [Paths -> Assets!Contents]
    BY <2>1, <2>3, DiskIsPast
  <2>5. app.cache \in [Paths -> Assets!Contents \union {None, Broken}]
    <3>1. \A p \in Paths : app.cache[p] \in Assets!Contents \union {None, Broken}
      BY <2>1, <2>2 DEF AppInv, Assets!Contents
    <3> QED BY <2>1, <3>1 DEF AppInv
  <2>6. Assets!TypeOK
    BY <2>1, <2>3, <2>4, <2>5 DEF Assets!TypeOK, SessionInv, ChannelInv, AppInv
  <2>7. Assets!MarksAreTrue
    BY <2>1 DEF AppInv, Assets!MarksAreTrue
  <2> QED BY <2>6, <2>7 DEF Assets!Inv
<1>2. Assets!Spec => []AssetInv
  BY AssetInvHolds
<1> QED BY <1>1, <1>2, PTL

===============================================================================
