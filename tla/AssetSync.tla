------------------------------ MODULE AssetSync ------------------------------
(***************************************************************************)
(* Changed assets go to the running app without a build (on the desktop).  *)
(* The main thread of the session finds out what changed, publishes the    *)
(* new manifest and sends a transfer; the app withholds the transfer until *)
(* its commit, evicts the assets from its cache, and acknowledges.  A new  *)
(* connection is given the manifest and answers with what it lacks.        *)
(*                                                                         *)
(* The content of an asset is the number of the edit that wrote it, 0 when *)
(* there is no such asset.  A build stands for everything that the main    *)
(* thread does until the app was launched again (module LiveLoop), and the *)
(* numbers of the transfers start over with each launch.                   *)
(***************************************************************************)
EXTENDS Naturals, Sequences, SequencesExt, FiniteSets

CONSTANTS
  Paths,
  None,        \* no batch, nothing in the cache
  Broken,      \* a failed load: the cache keeps it like any other
  QueueSize,   \* messages that a connection holds (16)
  MaxEdits, MaxSyncs, MaxDrops   \* bounds on the user, other threads, the network

ASSUME ConstantsAssumption ==
  /\ None \notin Nat /\ Broken \notin Nat
  /\ IsFiniteSet(Paths) /\ QueueSize \in Nat \ {0}
  /\ MaxEdits \in Nat /\ MaxSyncs \in Nat /\ MaxDrops \in Nat

VARIABLES
  disk,
  index, revision,    \* what the session knows of the disk, and its asset revision
  dirty,              \* an event says that assets changed
  published,          \* the manifest of the channel: transfer, revision, entries
  recs,               \* what connections lack and were not given yet
  pc, before, delta,  \* the main thread, the revision and the changes at hand
  out, to,            \* the messages it has yet to send: to all, or to one connection
  conn,               \* the app's connection: "none", "new" (no manifest yet), "open"
  down, up,           \* messages to the app, and from it
  app,
  confirmed,          \* the state says that the app confirmed the assets
  edits, syncs, drops,
  quiet               \* (history) the session had seen and published every edit when
                      \* the app last connected, and nothing happened since

session == <<index, revision, dirty, published>>
loop    == <<pc, before, delta, out, to>>
channel == <<conn, down, up, recs>>
bounds  == <<edits, syncs, drops>>
vars    == <<disk, session, loop, channel, app, confirmed, bounds, quiet>>

Batch(t, r) == [transfer |-> t, revision |-> r]
Zero == [p \in Paths |-> 0]
Fresh == [desired |-> Zero, batch |-> Batch(0, 0), pending |-> None, held |-> <<>>, events |-> <<>>,
          applied |-> Zero, cache |-> [p \in Paths |-> None]]

-----------------------------------------------------------------------------
(* The user and the other threads of the session. *)

Edit(p, content) ==
  /\ edits < MaxEdits /\ edits' = edits + 1
  /\ content \in {0, edits + 2} /\ content # disk[p]
  /\ disk' = [disk EXCEPT ![p] = content] /\ dirty' = TRUE /\ quiet' = FALSE
  /\ UNCHANGED <<index, revision, published, loop, channel, app, confirmed, syncs, drops>>

\* A scan finds everything; a new revision is one that is not confirmed.
Sync ==
  /\ index' = disk
  /\ revision' = IF index # disk THEN revision + 1 ELSE revision
  /\ confirmed' = (confirmed /\ index = disk)

\* A client asks for an observation, or a capture is checked.
SyncElsewhere ==
  /\ syncs < MaxSyncs /\ syncs' = syncs + 1 /\ quiet' = FALSE
  /\ Sync
  /\ UNCHANGED <<disk, dirty, published, loop, channel, app, edits, drops>>

-----------------------------------------------------------------------------
(* The main thread. *)

Goto(l) == pc' = l

\* The messages of a transfer.
Transfer(b, changed, removed, entries) ==
  IF changed \union removed = {} THEN <<>>
  ELSE <<[type |-> "begin", batch |-> b, entries |-> entries, changed |-> changed, removed |-> removed]>>
       \o [i \in 1 .. Cardinality(changed \union removed) |->
             LET p == SetToSeq(changed)  \o SetToSeq(removed) IN
             [type |-> "path", batch |-> b, path |-> p[i], removed |-> p[i] \in removed]]
       \o <<[type |-> "commit", batch |-> b]>>

\* drain_asset_reconciliations: only what is of the current revision is sent.
Drain ==
  /\ pc = "idle" /\ recs # <<>> /\ recs' = Tail(recs)
  /\ LET rec == Head(recs) IN
     IF rec.batch.revision # revision \/ rec.changed \union rec.removed = {}
     THEN UNCHANGED <<pc, out, to>>
     ELSE IF \E p \in rec.changed : index[p] = 0
     THEN Goto("build") /\ UNCHANGED <<out, to>>
     ELSE /\ Goto("send") /\ to' = rec.connection
          /\ out' = Transfer(rec.batch, rec.changed, rec.removed, index)
  /\ UNCHANGED <<disk, session, before, delta, conn, down, up, app, confirmed, bounds, quiet>>

TakeEvent ==
  /\ pc = "idle" /\ recs = <<>> /\ dirty /\ dirty' = FALSE
  /\ before' = revision /\ Goto("scan")
  /\ UNCHANGED <<disk, index, revision, published, delta, out, to, channel, app, confirmed, bounds, quiet>>

\* No new revision: the event is dropped.
Scan ==
  /\ pc = "scan" /\ Sync
  /\ delta' = [changed |-> {p \in Paths : disk[p] # index[p] /\ disk[p] # 0},
               removed |-> {p \in Paths : disk[p] # index[p] /\ disk[p] = 0}]
  /\ Goto(IF revision' = before THEN "idle" ELSE "publish")
  /\ UNCHANGED <<disk, dirty, published, before, out, to, channel, app, bounds, quiet>>

\* set_asset_manifest: the revision is read, and then the entries.
PublishRevision ==
  /\ pc = "publish" /\ Goto("entries") /\ before' = revision
  /\ UNCHANGED <<disk, session, delta, out, to, channel, app, confirmed, bounds, quiet>>

Published(r) == [batch |-> Batch(published.batch.transfer + 1, r), entries |-> index]

Publish ==
  /\ pc = "entries" /\ Goto("reload") /\ published' = Published(before)
  /\ UNCHANGED <<disk, index, revision, dirty, before, delta, out, to, channel, app, confirmed, bounds, quiet>>

\* reload_assets: the revision is read again.
Reload ==
  /\ pc = "reload"
  /\ IF conn = "none" \/ \E p \in delta.changed : published.entries[p] = 0
     THEN Goto("build") /\ UNCHANGED <<out, to>>
     ELSE /\ to' = "all"
          /\ out' = Transfer(Batch(published.batch.transfer, revision), delta.changed, delta.removed,
                             published.entries)
          /\ Goto(IF out' = <<>> THEN "idle" ELSE "send")
  /\ UNCHANGED <<disk, session, before, delta, channel, app, confirmed, bounds, quiet>>

\* try_send.
Full == Len(down) >= QueueSize

\* A broadcast that fails is noted and otherwise ignored; a message to the one
\* connection that asked for it ends the transfer.
Send ==
  /\ pc = "send"
  /\ IF conn # "none" /\ ~Full /\ to # "gone"
     THEN down' = Append(down, Head(out)) /\ out' = Tail(out)
     ELSE UNCHANGED down /\ out' = IF to = "all" THEN Tail(out) ELSE <<>>
  /\ Goto(IF out' # <<>> THEN "send" ELSE IF down' = down /\ to # "all" THEN "build" ELSE "idle")
  /\ UNCHANGED <<disk, session, before, delta, to, conn, up, recs, app, confirmed, bounds, quiet>>

\* begin_build, while the app that runs goes on.
Build ==
  /\ pc = "build" /\ Sync /\ Goto("launch")
  /\ published' = [batch |-> Batch(published.batch.transfer + 1, revision'), entries |-> disk]
  /\ UNCHANGED <<disk, dirty, before, delta, out, to, channel, app, bounds, quiet>>

Gone(recsNow) == [i \in DOMAIN recsNow |-> [recsNow[i] EXCEPT !.connection = "gone"]]

\* The inputs are those of the build: the app is replaced, and events that
\* came in meanwhile are dropped.
Launch ==
  /\ pc = "launch"
  /\ IF disk # index THEN Goto("build") /\ UNCHANGED <<dirty, published, channel, app, confirmed, quiet>>
     ELSE /\ Goto("idle") /\ dirty' = FALSE /\ confirmed' = FALSE
          /\ published' = [published EXCEPT !.batch.transfer = 1]
          /\ conn' = "none" /\ down' = <<>> /\ up' = <<>> /\ recs' = Gone(recs)
          /\ app' = Fresh /\ quiet' = FALSE
  /\ UNCHANGED <<disk, index, revision, before, delta, out, to, bounds>>

-----------------------------------------------------------------------------
(* The connection. *)

\* The app registers, and is then sent the manifest.
Connect ==
  /\ conn = "none" /\ conn' = "new" /\ quiet' = (pc = "idle" /\ ~dirty /\ published.batch.revision = revision)
  /\ UNCHANGED <<disk, session, loop, down, up, recs, app, confirmed, bounds>>

SendManifest ==
  /\ conn = "new" /\ conn' = "open"
  /\ down' = IF Full THEN down
             ELSE Append(down, [type |-> "manifest", batch |-> published.batch, entries |-> published.entries])
  /\ UNCHANGED <<disk, session, loop, up, recs, app, confirmed, bounds, quiet>>

DropKeepsQueue ==
  /\ conn # "none" /\ drops < MaxDrops /\ drops' = drops + 1
  /\ conn' = "none" /\ up' = <<>> /\ recs' = Gone(recs)
  /\ to' = IF to = "one" THEN "gone" ELSE to
  /\ quiet' = FALSE
  /\ UNCHANGED <<disk, session, pc, before, delta, out, down, app, confirmed, edits, syncs>>

Drop ==
  /\ conn # "none" /\ drops < MaxDrops /\ drops' = drops + 1
  /\ conn' = "none" /\ down' = <<>> /\ up' = <<>> /\ recs' = Gone(recs)
  /\ to' = IF to = "one" THEN "gone" ELSE to
  /\ quiet' = FALSE
  /\ UNCHANGED <<disk, session, pc, before, delta, out, app, confirmed, edits, syncs>>

\* What the session makes of a message: only the published transfer counts.
Hear ==
  /\ conn # "none" /\ up # <<>> /\ up' = Tail(up)
  /\ LET m == Head(up)
         accepted == m.batch = published.batch
     IN  IF m.type = "applied"
         THEN /\ confirmed' = (accepted /\ m.batch.revision = revision /\ m.invalidated)
              /\ UNCHANGED recs
         ELSE /\ recs' = IF accepted THEN Append(recs, [batch |-> m.batch, connection |-> "one",
                                             changed |-> m.changed, removed |-> m.removed]) ELSE recs
              /\ UNCHANGED confirmed
  /\ UNCHANGED <<disk, session, loop, conn, down, app, bounds, quiet>>

-----------------------------------------------------------------------------
(* The app. *)

Applied(b, invalidated) == [type |-> "applied", batch |-> b, invalidated |-> invalidated]

\* What is there in another content counts as present.
TakeManifestMissing(m) ==
  LET changed == {p \in Paths : m.entries[p] # 0 /\ app.applied[p] = 0}
      removed == {p \in Paths : m.entries[p] = 0 /\ app.applied[p] # 0}
  IN  /\ app' = [app EXCEPT !.desired = m.entries, !.batch = m.batch, !.pending = None, !.held = <<>>]
      /\ up' = up \o <<[type |-> "reconciled", batch |-> m.batch, changed |-> changed, removed |-> removed]>>
                 \o (IF changed \union removed = {} THEN <<Applied(m.batch, TRUE)>> ELSE <<>>)

\* A manifest replaces what is desired and the batch that was pending; the
\* answer says what the manifest has and the app did not apply.
TakeManifest(m) ==
  LET changed == {p \in Paths : m.entries[p] # 0 /\ m.entries[p] # app.applied[p]}
      removed == {p \in Paths : m.entries[p] = 0 /\ app.applied[p] # 0}
  IN  /\ app' = [app EXCEPT !.desired = m.entries, !.batch = m.batch, !.pending = None, !.held = <<>>]
      /\ up' = up \o <<[type |-> "reconciled", batch |-> m.batch, changed |-> changed, removed |-> removed]>>
                 \o (IF changed \union removed = {} THEN <<Applied(m.batch, TRUE)>> ELSE <<>>)

TakeBegin(m) ==
  app' = [app EXCEPT
    !.desired = [p \in Paths |-> IF p \in m.changed THEN m.entries[p]
                                 ELSE IF p \in m.removed THEN 0 ELSE @[p]],
    !.batch = m.batch,
    !.pending = m.batch,
    !.held = IF app.pending = m.batch THEN @ ELSE <<>>]

\* What comes is marked before the UI thread has evicted it.
TakePathMarked(m) ==
  app' = [app EXCEPT !.events = Append(@, m), !.applied[m.path] = app.desired[m.path]]

\* What belongs to the batch that is pending waits for its commit.
TakePath(m) ==
  app' = IF app.pending = m.batch THEN [app EXCEPT !.held = Append(@, m)]
                                  ELSE [app EXCEPT !.events = Append(@, m)]

TakeCommit(m) ==
  app' = IF app.pending = m.batch THEN [app EXCEPT !.events = @ \o app.held, !.pending = None, !.held = <<>>]
                                  ELSE app

Dispatch ==
  /\ down # <<>> /\ down' = Tail(down)
  /\ LET m == Head(down) IN
     \/ m.type = "manifest" /\ TakeManifest(m)
     \/ m.type = "begin"  /\ TakeBegin(m)  /\ UNCHANGED up
     \/ m.type = "path"   /\ TakePath(m)   /\ UNCHANGED up
     \/ m.type = "commit" /\ TakeCommit(m) /\ UNCHANGED up
  /\ UNCHANGED <<disk, session, loop, conn, recs, confirmed, bounds, quiet>>

\* The UI thread evicts what changed, and marks what is of the transfer that
\* the app knows; it answers for each transfer.
Pump ==
  /\ app.events # <<>>
  /\ LET paths == {app.events[i].path : i \in DOMAIN app.events}
         marked == {app.events[i].path : i \in {j \in DOMAIN app.events :
                      app.events[j].batch.transfer = app.batch.transfer}}
         batches == {app.events[i].batch : i \in DOMAIN app.events}
     IN  /\ app' = [app EXCEPT
              !.events = <<>>,
              !.cache = [p \in Paths |-> IF p \in paths THEN None ELSE @[p]],
              !.applied = [p \in Paths |-> IF p \in marked THEN app.desired[p] ELSE @[p]]]
         /\ up' = up \o SetToSeq({Applied(b, TRUE) : b \in batches})
  /\ UNCHANGED <<disk, session, loop, conn, down, recs, confirmed, bounds, quiet>>

\* The app draws an asset that is not cached; what is not the declared content
\* is not shown.
Load(p) ==
  /\ app.cache[p] = None
  /\ app' = [app EXCEPT !.cache[p] =
       IF disk[p] = 0 \/ (app.desired[p] # 0 /\ app.desired[p] # disk[p]) THEN Broken ELSE disk[p]]
  /\ UNCHANGED <<disk, session, loop, channel, confirmed, bounds, quiet>>

-----------------------------------------------------------------------------
Init ==
  /\ disk = [p \in Paths |-> 1] /\ index = disk /\ revision = 1 /\ dirty = FALSE
  /\ published = [batch |-> Batch(1, 1), entries |-> disk] /\ recs = <<>>
  /\ pc = "idle" /\ before = 0 /\ delta = [changed |-> {}, removed |-> {}] /\ out = <<>> /\ to = "all"
  /\ conn = "none" /\ down = <<>> /\ up = <<>> /\ app = Fresh
  /\ confirmed = FALSE /\ edits = 0 /\ syncs = 0 /\ drops = 0 /\ quiet = FALSE

Main == Drain \/ TakeEvent \/ Scan \/ PublishRevision \/ Publish \/ Reload \/ Send \/ Build \/ Launch

Next ==
  \/ \E p \in Paths : Edit(p, 0) \/ Edit(p, edits + 2) \/ Load(p)
  \/ SyncElsewhere \/ Main
  \/ Connect \/ SendManifest \/ Drop \/ Hear
  \/ Dispatch \/ Pump

Spec == Init /\ [][Next]_vars

\* The threads of the session and of the app run on, and the app connects
\* again and again; nobody has to edit, and nothing has to be drawn.
FairSpec ==
  /\ Spec
  /\ WF_vars(Main) /\ WF_vars(Connect) /\ WF_vars(SendManifest) /\ WF_vars(Hear)
  /\ WF_vars(Dispatch) /\ WF_vars(Pump)

-----------------------------------------------------------------------------
Contents == 0 .. (MaxEdits + 1)

TypeOK ==
  /\ disk \in [Paths -> Contents] /\ index \in [Paths -> Contents]
  /\ revision \in Nat /\ dirty \in BOOLEAN /\ confirmed \in BOOLEAN
  /\ published.entries \in [Paths -> Contents]
  /\ pc \in {"idle", "scan", "publish", "entries", "reload", "send", "build", "launch"}
  /\ to \in {"all", "one", "gone"} /\ conn \in {"none", "new", "open"}
  /\ Len(down) <= QueueSize /\ (conn = "none" => down = <<>>)
  /\ app.desired \in [Paths -> Contents] /\ app.applied \in [Paths -> Contents]
  /\ app.cache \in [Paths -> Contents \union {None, Broken}]

\* An asset that the app marks as applied is not shown in an older content: a
\* manifest that has the same content may pass it over.
MarksAreTrue ==
  \A p \in Paths : app.applied[p] # 0 /\ app.cache[p] \in Nat => app.cache[p] >= app.applied[p]

\* Types, and the app's marks are true.
Inv == TypeOK /\ MarksAreTrue

\* An asset that exists is shown as it was before.
ShowsOlder(p, content) == content[p] # 0 /\ app.cache[p] \in Nat /\ app.cache[p] < content[p]

\* What the app lacks is made good, whatever was lost before, once it connects
\* to a session that has published what it knows, unless something happens again.
ReconnectHeals == <>[]quiet => <>[](\A p \in Paths : ~ShowsOlder(p, disk))

=============================================================================
