------------------------------ MODULE InputIndex ------------------------------
(***************************************************************************)
(* The index of the inputs of a live session.  A watcher marks the paths   *)
(* that changed; a refresh scans what is marked, or everything when the    *)
(* marks cannot be trusted.  A refresh holds the lock of the index, so the *)
(* watcher waits for it, but files go on changing under the scan: a full   *)
(* scan is repeated until two passes agree.                                *)
(*                                                                         *)
(* A content stands for its hash, which is all that two passes compare: a  *)
(* file may get an old content back.  "Absent" is the content of a file    *)
(* that does not exist.  A path stands for the files at or under it, as    *)
(* the path of a directory that was moved does.                            *)
(***************************************************************************)
EXTENDS Naturals, FiniteSets

CONSTANTS
  Files,
  Paths,      \* the paths that events name
  Under,      \* Under[p]: the files at or under path p
  Contents,   \* what can be written into a file
  Absent, None,
  MaxDirty,   \* MAX_INDEXED_DIRTY_PATHS (4096)
  MaxRescans, \* passes of a full scan after the second one
  MaxChanges, MaxFaults   \* bounds on the user and the environment

States == [Files -> Contents \union {Absent}]

ASSUME ConstantsAssumption ==
  /\ Under \in [Paths -> SUBSET Files] /\ Absent \notin Contents /\ None \notin States
  /\ MaxDirty \in Nat /\ MaxRescans \in Nat /\ MaxChanges \in Nat /\ MaxFaults \in Nat

VARIABLES
  disk,             \* the files
  unreported,       \* paths of changes that the watcher has not told yet
  dirty, force, initialized, disabled,  \* what the index knows of its own state
  enabled,          \* the stamps of the files can be trusted
  manifest,         \* the published contents
  entries,          \* the contents by which the next manifest is made
  mode,             \* what the holder of the lock does: nothing, or which scan
  left, found,      \* the files that this pass has yet to read, and what it read
  previous, rescans,   \* the pass before, None if there is none; the passes that remain
  between,          \* (history) the disk when the pass before ended
  returned,         \* (history) files that since got back what that pass read in them
  changes, faults

files  == <<disk, unreported, changes>>
marks  == <<dirty, force, initialized, disabled, enabled>>
result == <<manifest, entries>>
scan   == <<mode, left, found, previous, rescans>>
since  == <<between, returned>>
vars   == <<files, marks, result, scan, since, faults>>

Nothing == [f \in Files |-> Absent]
Covered(paths) == UNION {Under[p] : p \in paths}

-----------------------------------------------------------------------------
(* The user and the watcher. *)

\* What a write gives back to the files that had it when the pass before read them.
Returns(p, new) ==
  IF previous = None THEN {}
  ELSE {f \in Under[p] : new[f] = previous[f] /\ disk[f] # previous[f]}

\* The files under a path are written, or the path is removed.
Change(p, new) ==
  /\ changes < MaxChanges /\ changes' = changes + 1
  /\ disk' = [f \in Files |-> IF f \in Under[p] THEN new[f] ELSE disk[f]]
  /\ returned' = returned \union Returns(p, new)
  /\ unreported' = unreported \union {p}
  /\ UNCHANGED <<marks, result, scan, between, faults>>

\* Mutant of Mark: a mark beyond the limit is lost, and nothing is scanned instead.
MarkDropping(p, foreign) ==
  /\ mode = "idle" /\ p \in unreported /\ unreported' = unreported \ {p}
  /\ dirty' = IF Cardinality(dirty) >= MaxDirty THEN dirty ELSE dirty \union {p}
  /\ UNCHANGED <<disk, changes, force, initialized, disabled, enabled, result, scan, since, faults>>

\* Mutant of Mark: the marks are not limited.
MarkUnlimited(p, foreign) ==
  /\ mode = "idle" /\ p \in unreported /\ unreported' = unreported \ {p}
  /\ dirty' = dirty \union {p}
  /\ UNCHANGED <<disk, changes, force, initialized, disabled, enabled, result, scan, since, faults>>

\* mark_dirty: too many marks are replaced by a full scan, and so is a path that
\* does not belong to any root.
Mark(p, foreign) ==
  /\ mode = "idle" /\ p \in unreported /\ unreported' = unreported \ {p}
  /\ IF foreign THEN faults < MaxFaults /\ faults' = faults + 1 ELSE UNCHANGED faults
  /\ IF foreign THEN force' = TRUE /\ UNCHANGED dirty
     ELSE IF Cardinality(dirty) >= MaxDirty /\ p \notin dirty
     THEN dirty' = {} /\ force' = TRUE
     ELSE dirty' = dirty \union {p} /\ UNCHANGED force
  /\ UNCHANGED <<disk, changes, initialized, disabled, enabled, result, scan, since>>

\* mark_overflow: events were lost.
Overflow(lost) ==
  /\ mode = "idle" /\ faults < MaxFaults /\ faults' = faults + 1
  /\ lost \subseteq unreported /\ unreported' = unreported \ lost
  /\ force' = TRUE
  /\ UNCHANGED <<disk, changes, dirty, initialized, disabled, enabled, result, scan, since>>

\* refresh_cargo_scope: other roots, of which nothing is known; whether stamps
\* can be trusted depends on the file systems they are on.
ChangeRoots ==
  /\ mode = "idle" /\ faults < MaxFaults /\ faults' = faults + 1
  /\ entries' = Nothing /\ dirty' = {}
  /\ initialized' = FALSE /\ force' = FALSE /\ disabled' = FALSE
  /\ enabled' \in BOOLEAN
  /\ UNCHANGED <<files, manifest, scan, since>>

-----------------------------------------------------------------------------
(* The refresh. *)

Pass(m, fs) == mode' = m /\ left' = fs /\ found' = Nothing
Since(d) == between' = d /\ returned' = {}

\* A full scan starts over with the first of its passes.
FullScan(m) ==
  /\ Pass(m, Files) /\ previous' = None /\ rescans' = MaxRescans /\ Since(Nothing)

\* The entries under the dirty paths are taken out before they are read again.
DirtyScan ==
  /\ Pass("dirty", Covered(dirty)) /\ previous' = None /\ rescans' = 0 /\ Since(Nothing)
  /\ entries' = [f \in Files |-> IF f \in Covered(dirty) THEN Absent ELSE entries[f]]

\* Which scan a refresh does; verify_full asks for a full one.
Refresh(full) ==
  /\ mode = "idle" /\ force' = (force \/ full)
  /\ IF ~initialized \/ force' \/ disabled \/ ~enabled
     THEN FullScan(IF disabled \/ ~enabled THEN "plain" ELSE "indexed") /\ UNCHANGED entries
     ELSE dirty # {} /\ DirtyScan
  /\ UNCHANGED <<files, dirty, initialized, disabled, enabled, manifest, faults>>

Read(f) ==
  /\ f \in left /\ left' = left \ {f}
  /\ found' = [found EXCEPT ![f] = disk[f]]
  /\ entries' = IF mode = "dirty" THEN [entries EXCEPT ![f] = disk[f]] ELSE entries
  /\ UNCHANGED <<files, marks, manifest, mode, previous, rescans, since, faults>>

Idle == Pass("idle", {}) /\ previous' = None /\ rescans' = 0 /\ Since(Nothing)

\* A failed incremental refresh is followed by a full one, a failed scan with
\* file stamps by one without, and after that the refresh itself fails.
GiveUp ==
  /\ IF mode = "dirty" THEN force' = TRUE ELSE UNCHANGED force
  /\ IF mode = "plain" THEN Idle ELSE FullScan(IF mode = "dirty" THEN "indexed" ELSE "plain")
  /\ UNCHANGED <<files, dirty, initialized, disabled, enabled, result>>

\* A file or directory changed while it was read, or could not be read.
ReadFails ==
  /\ mode # "idle" /\ left # {} /\ faults < MaxFaults /\ faults' = faults + 1
  /\ GiveUp

EndDirty ==
  /\ mode = "dirty" /\ left = {}
  /\ manifest' = entries /\ dirty' = {} /\ Idle
  /\ UNCHANGED <<files, entries, force, initialized, disabled, enabled, faults>>

\* Mutant of Publish: the passes agree when they have read the same files.
PublishSameFiles ==
  /\ mode \in {"indexed", "plain"} /\ left = {} /\ previous # None
  /\ \A f \in Files : found[f] = Absent <=> previous[f] = Absent
  /\ manifest' = found
  /\ entries' = IF mode = "indexed" THEN found ELSE Nothing
  /\ disabled' = (entries' = Nothing /\ found # Nothing)
  /\ initialized' = TRUE /\ force' = FALSE /\ dirty' = {} /\ Idle
  /\ UNCHANGED <<files, enabled, faults>>

\* Only the scan with stamps leaves entries to go on from.
Publish ==
  /\ mode \in {"indexed", "plain"} /\ left = {} /\ found = previous
  /\ manifest' = found
  /\ entries' = IF mode = "indexed" THEN found ELSE Nothing
  /\ disabled' = (entries' = Nothing /\ found # Nothing)
  /\ initialized' = TRUE /\ force' = FALSE /\ dirty' = {} /\ Idle
  /\ UNCHANGED <<files, enabled, faults>>

Rescan ==
  /\ mode \in {"indexed", "plain"} /\ left = {} /\ found # previous
  /\ IF previous # None /\ rescans = 0 THEN GiveUp
     ELSE /\ Pass(mode, Files) /\ previous' = found /\ Since(disk)
          /\ rescans' = IF previous = None THEN rescans ELSE rescans - 1
          /\ UNCHANGED <<files, marks, result>>
  /\ UNCHANGED faults

-----------------------------------------------------------------------------
Init ==
  /\ disk \in States /\ unreported = {} /\ changes = 0
  /\ dirty = {} /\ force = FALSE /\ initialized = FALSE /\ disabled = FALSE
  /\ enabled \in BOOLEAN
  /\ manifest = Nothing /\ entries = Nothing
  /\ mode = "idle" /\ left = {} /\ found = Nothing /\ previous = None /\ rescans = 0 /\ between = Nothing /\ returned = {}
  /\ faults = 0

Scanning == Refresh(TRUE) \/ Refresh(FALSE) \/ ReadFails \/ EndDirty \/ Publish \/ Rescan
              \/ \E f \in Files : Read(f)

Next ==
  \/ \E p \in Paths : \/ \E new \in [Under[p] -> Contents \union {Absent}] : Change(p, new)
                      \/ Mark(p, TRUE) \/ Mark(p, FALSE)
  \/ \E lost \in SUBSET unreported : Overflow(lost)
  \/ ChangeRoots
  \/ Scanning

Spec == Init /\ [][Next]_vars

-----------------------------------------------------------------------------
TypeOK ==
  /\ disk \in States /\ manifest \in States /\ entries \in States /\ found \in States
  /\ unreported \subseteq Paths /\ dirty \subseteq Paths /\ Cardinality(dirty) <= MaxDirty
  /\ between \in States /\ returned \subseteq Files
  /\ {force, initialized, disabled, enabled} \subseteq BOOLEAN
  /\ mode \in {"idle", "dirty", "indexed", "plain"}
  /\ left \subseteq Files /\ (mode = "idle" => left = {})
  /\ previous \in States \union {None} /\ rescans \in 0 .. MaxRescans

\* The index never forgets: what differs from the disk was not told yet, is
\* marked, or will be found by the full scan that comes next.
NeverForgets ==
  mode = "idle" /\ initialized /\ ~force /\ ~disabled /\ enabled =>
    \A f \in Files : manifest[f] # disk[f] => f \in Covered(dirty \union unreported)

\* What the index knows has its type and its limit, and misses nothing.
Inv == TypeOK /\ NeverForgets

\* What a full scan publishes was on disk together, when the first of the two
\* passes that agree ended, but for the files that got a content back meanwhile:
\* two hashes that are equal do not tell that nothing was written between them.
PublishedTogether ==
  [][(mode \in {"indexed", "plain"} /\ mode' = "idle" /\ manifest' # manifest) =>
       \A f \in Files \ returned : manifest'[f] = between[f]]_vars

=============================================================================
