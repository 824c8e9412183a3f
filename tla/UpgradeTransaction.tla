------------------------- MODULE UpgradeTransaction -------------------------
(***************************************************************************)
(* `gpui upgrade apply` and `gpui upgrade recover` on one project.         *)
(*                                                                         *)
(* An apply re-checks a saved plan under a lock file, writes a journal,    *)
(* backs the old bytes up, replaces the files one after the other and      *)
(* validates the result.  It undoes its work when a step fails.  A process *)
(* can die between any two durable writes; `recover` then undoes the work  *)
(* from the journal.  A user edits the project at the same time.           *)
(*                                                                         *)
(* Bytes stand for themselves: the code compares SHA-256 digests, the      *)
(* model the bytes.  The id of a transaction is the name of the apply that *)
(* created it, since each apply draws one fresh id.                        *)
(***************************************************************************)
EXTENDS Naturals, FiniteSets

CONSTANTS
  NumFiles,    \* managed files 1..NumFiles, in the order of the plan
  Versions,    \* embedded template versions (and the bytes of their manifests)
  Template,    \* Template[v][f]: bytes of managed file f in version v, or Absent
  Absent,      \* the "bytes" of a file that does not exist
  Edits,       \* bytes that only a user writes
  Appliers,    \* invocations of `gpui upgrade apply`
  Recoverers,  \* invocations of `gpui upgrade recover`
  Windows,     \* TRUE where replacing a file removes it first
  MaxEdits, MaxCrashes, MaxFaults   \* bounds on the environment

Managed  == 1 .. NumFiles
Manifest == NumFiles + 1
Files    == 1 .. NumFiles + 1
Procs    == Appliers \union Recoverers

TemplateBytes == UNION {{Template[v][f] : f \in Managed} : v \in Versions}
Bytes == Versions \union Edits \union TemplateBytes \union {Absent}

ASSUME ConstantsAssumption ==
  /\ NumFiles \in Nat
  /\ Template \in [Versions -> [Managed -> TemplateBytes]]
  /\ Absent \notin Versions \union Edits \union Appliers
  /\ Appliers # {} /\ Appliers \intersect Recoverers = {}
  /\ Windows \in BOOLEAN
  /\ MaxEdits \in Nat /\ MaxCrashes \in Nat /\ MaxFaults \in Nat

VARIABLES
  disk,      \* bytes of every project file
  lock,      \* the lock file: NoLock, or who created it and whether it names them
  plan,      \* the plan each apply was given
  old, new,  \* the digests the journal of a transaction records, per file
  jstate,    \* durable journal: state of the transaction, "none" without journal
  jfile,     \* durable journal: state of each file, "none" when not in it
  backup,    \* bytes in the backup directory of a transaction
  mstate,    \* in memory: the journal a process works on
  mfile,
  pc, idx,   \* where each process is
  txof,      \* the transaction a process works on
  edits, crashes, faults,
  touched,   \* history: files of a transaction that anyone else wrote since its journal
  stale      \* history: files someone else wrote since this process last compared them

project == <<disk, touched, stale>>
journal == <<old, new, jstate, jfile>>
memory  == <<mstate, mfile>>
budget  == <<edits, crashes, faults>>
vars == <<project, lock, plan, journal, backup, memory, pc, idx, txof, budget>>

TransactionState == {"prepared", "writing", "validating", "committed",
                     "rolled_back", "recovery_required"}
FileState == {"planned", "backed_up", "replaced", "restored",
              "user_modified", "recovery_required"}
Finished == {"committed", "rolled_back"}
Actions == {"no_change", "add", "replace", "delete", "keep_local", "conflict"}

NoLock == [by |-> Absent, named |-> FALSE]
NoPlan == [to |-> Absent]

-----------------------------------------------------------------------------
(* Planning: three-way comparison of base, local and target.               *)

Target(v, f) == IF f = Manifest THEN v ELSE Template[v][f]

\* The base of a plan.  Without a manifest the target itself is the base, and
\* only when every file of it is in place; a manifest with other bytes than an
\* embedded one is no base.
BaseOf(d, v) ==
  IF d[Manifest] \in Versions THEN d[Manifest]
  ELSE IF /\ d[Manifest] = Absent
          /\ \A f \in Managed : Template[v][f] # Absent => d[f] = Template[v][f]
       THEN v ELSE Absent

Classify(base, local, target) ==
  CASE local = target -> "no_change"
    [] local # target /\ base = Absent /\ local = Absent -> "add"
    [] local # target /\ base = Absent /\ local # Absent ->
         IF target # Absent THEN "conflict" ELSE "keep_local"
    [] local # target /\ base # Absent /\ local = base ->
         IF target # Absent THEN "replace" ELSE "delete"
    [] local # target /\ base # Absent /\ local # base /\ target = base -> "keep_local"
    [] OTHER -> "conflict"

\* The identity of a plan: its digest covers the version, the base and the
\* local bytes of every file the base or the target has.
PlanOf(d, v) ==
  LET b == BaseOf(d, v)
      known(f) == b # Absent /\ (Template[b][f] # Absent \/ Template[v][f] # Absent)
  IN  [ to     |-> v,
        base   |-> d[Manifest],
        local  |-> [f \in Managed |-> IF known(f) THEN d[f] ELSE Absent],
        action |-> [f \in Managed |-> IF known(f)
                      THEN Classify(Template[b][f], d[f], Template[v][f])
                      ELSE "no_change"],
        ready  |-> /\ b # Absent
                   /\ \A f \in Managed : known(f) =>
                        Classify(Template[b][f], d[f], Template[v][f]) # "conflict" ]

-----------------------------------------------------------------------------
(* Steps shared by apply and recover.  `idx` is the loop index of a process;  *)
(* the manifest is always the last file of a journal.                         *)

Go(p, to) == pc' = [pc EXCEPT ![p] = to]
Next1(p)  == idx' = [idx EXCEPT ![p] = @ + 1]
\* Mutant of Restart: the loop starts one early.
RestartAtZero(p) == idx' = [idx EXCEPT ![p] = 0]
Restart(p) == idx' = [idx EXCEPT ![p] = 1]
Stay(p)   == UNCHANGED idx

File(p)   == idx[p]
InLoop(p) == idx[p] \in Files
Member(p) == mfile[p][File(p)] # "none"
Old(p)    == old[txof[p]][File(p)]
New(p)    == new[txof[p]][File(p)]
Now(p)    == disk[File(p)]

\* An operating-system call fails: no space, no permission.
Fault == faults < MaxFaults /\ faults' = faults + 1 /\ UNCHANGED <<edits, crashes>>

\* Process p leaves bytes b in file f: news to everybody else.
WriteFile(p, f, b) ==
  /\ disk' = [disk EXCEPT ![f] = b]
  /\ touched' = [t \in Appliers |->
       IF t = txof[p] THEN touched[t] ELSE touched[t] \union {f}]
  /\ stale' = [q \in Procs |-> IF q = p THEN stale[q] ELSE stale[q] \union {f}]

\* Process p has compared file f with its journal.
Compared(p, f) ==
  stale' = [stale EXCEPT ![p] = @ \ {f}] /\ UNCHANGED <<disk, touched>>

Mark(p, s)    == mfile' = [mfile EXCEPT ![p][File(p)] = s]
Remember(p, s) == mstate' = [mstate EXCEPT ![p] = s]

\* The journal file is rewritten from the memory of p: all of it or, when the
\* call fails, none of it.  Where a replacement removes the file first, a
\* failure between the two calls leaves no journal.
JournalWritten(p) ==
  /\ jstate' = [jstate EXCEPT ![txof[p]] = mstate'[p]]
  /\ jfile' = [jfile EXCEPT ![txof[p]] = mfile'[p]]
  /\ UNCHANGED <<old, new, budget>>
JournalInterrupted(p) ==
  /\ \/ UNCHANGED jstate
     \/ Windows /\ jstate' = [jstate EXCEPT ![txof[p]] = "none"]
  /\ UNCHANGED <<old, new, jfile>>
JournalFails(p) == Fault /\ JournalInterrupted(p)

\* A replacement that removes the file before it renames the new bytes to it.
RemovedFirst(p, b) == Windows /\ Now(p) # Absent /\ b # Absent

-----------------------------------------------------------------------------
(* gpui upgrade apply: lock, re-check, journal                                *)

Plan(a, v) ==
  /\ pc[a] = "idle"
  /\ PlanOf(disk, v).ready
  /\ plan' = [plan EXCEPT ![a] = PlanOf(disk, v)]
  /\ Go(a, "planned") /\ Stay(a)
  /\ UNCHANGED <<project, lock, journal, backup, memory, txof, budget>>

\* Mutant of CreateLock: opens the lock file that is there.
OpenLock(a) ==
  /\ pc[a] = "planned"
  /\ lock' = [by |-> a, named |-> FALSE]
  /\ Go(a, "stamp") /\ Stay(a)
  /\ UNCHANGED <<project, plan, journal, backup, memory, txof, budget>>

CreateLock(a) ==
  /\ pc[a] = "planned"
  /\ lock = NoLock
  /\ lock' = [by |-> a, named |-> FALSE]
  /\ Go(a, "stamp") /\ Stay(a)
  /\ UNCHANGED <<project, plan, journal, backup, memory, txof, budget>>

Busy(a) ==
  /\ pc[a] = "planned"
  /\ lock # NoLock
  /\ Go(a, "done") /\ Stay(a)
  /\ UNCHANGED <<project, lock, plan, journal, backup, memory, txof, budget>>

\* The owner is written into the file that was created.  A failure returns
\* before the guard that would remove the file exists.
StampLock(a) ==
  /\ pc[a] = "stamp"
  /\ \/ /\ lock' = IF lock.by = a THEN [by |-> a, named |-> TRUE] ELSE lock
        /\ Go(a, "locked")
        /\ UNCHANGED budget
     \/ Fault /\ Go(a, "done") /\ UNCHANGED lock
  /\ Stay(a)
  /\ UNCHANGED <<project, plan, journal, backup, memory, txof>>

Recheck(a) ==
  /\ pc[a] = "locked"
  /\ \/ /\ PlanOf(disk, plan[a].to) = plan[a]
        /\ Go(a, "checked")
        /\ touched' = [touched EXCEPT ![a] = {}]
     \/ /\ PlanOf(disk, plan[a].to) # plan[a]
        /\ Go(a, "release")
        /\ UNCHANGED touched
  /\ Stay(a)
  /\ UNCHANGED <<disk, stale, lock, plan, journal, backup, memory, txof, budget>>

\* Rendering the target, reading it, or creating the journal fails.
PrepareFails(a) ==
  /\ pc[a] \in {"locked", "checked"}
  /\ Fault
  /\ Go(a, "release") /\ Stay(a)
  /\ UNCHANGED <<project, lock, plan, journal, backup, memory, txof>>

\* The manifest is read again here and takes part when it is not the target's.
TakesPart(a, f) ==
  IF f = Manifest THEN disk[f] # plan[a].to
  ELSE plan[a].action[f] \in {"add", "replace", "delete"}

CreateJournal(a) ==
  /\ pc[a] = "checked"
  /\ old' = [old EXCEPT ![a] =
       [f \in Files |-> IF f = Manifest THEN disk[f] ELSE plan[a].local[f]]]
  /\ new' = [new EXCEPT ![a] = [f \in Files |-> Target(plan[a].to, f)]]
  /\ mfile' = [mfile EXCEPT ![a] =
       [f \in Files |-> IF TakesPart(a, f) THEN "planned" ELSE "none"]]
  /\ Remember(a, "prepared")
  /\ jstate' = [jstate EXCEPT ![a] = "prepared"]
  /\ jfile' = [jfile EXCEPT ![a] = mfile'[a]]
  /\ Restart(a) /\ Go(a, "backup")
  /\ UNCHANGED <<project, lock, plan, backup, txof, budget>>

-----------------------------------------------------------------------------
(* gpui upgrade apply: backups                                                *)

SkipBackup(a) ==
  /\ pc[a] = "backup" /\ InLoop(a)
  /\ ~Member(a) \/ Old(a) = Absent
  /\ Next1(a)
  /\ UNCHANGED <<project, lock, plan, journal, backup, memory, pc, txof, budget>>

\* Mutant of BackUp: backs up whatever is there.
BackUpUnchecked(a) ==
  /\ pc[a] = "backup" /\ InLoop(a)
  /\ Member(a) /\ Old(a) # Absent
  /\ backup' = [backup EXCEPT ![a][File(a)] = Now(a)]
  /\ Go(a, "backup_mark") /\ Stay(a)
  /\ UNCHANGED <<project, lock, plan, journal, memory, txof, budget>>

\* The bytes written are the bytes whose digest was compared.
BackUp(a) ==
  /\ pc[a] = "backup" /\ InLoop(a)
  /\ Member(a) /\ Old(a) # Absent
  /\ \/ /\ Now(a) = Old(a)
        /\ backup' = [backup EXCEPT ![a][File(a)] = Now(a)]
        /\ Go(a, "backup_mark")
        /\ UNCHANGED budget
     \/ /\ (Now(a) # Old(a) /\ UNCHANGED budget) \/ Fault
        /\ Go(a, "abort")
        /\ UNCHANGED backup
  /\ Stay(a)
  /\ UNCHANGED <<project, lock, plan, journal, memory, txof>>

MarkBackedUp(a) ==
  /\ pc[a] = "backup_mark"
  /\ Mark(a, "backed_up") /\ UNCHANGED mstate
  /\ \/ JournalWritten(a) /\ Next1(a) /\ Go(a, "backup")
     \/ JournalFails(a) /\ Stay(a) /\ Go(a, "abort")
  /\ UNCHANGED <<project, lock, plan, backup, txof>>

\* A failed write of the journal returns without the rollback.
BeginWriting(a) ==
  /\ pc[a] = "backup" /\ ~InLoop(a)
  /\ Remember(a, "writing") /\ UNCHANGED mfile
  /\ \/ JournalWritten(a) /\ Go(a, "write")
     \/ JournalFails(a) /\ Go(a, "release")
  /\ Restart(a)
  /\ UNCHANGED <<project, lock, plan, backup, txof>>

-----------------------------------------------------------------------------
(* gpui upgrade apply: replacement, validation, commit                        *)

\* Mutant of SkipWrite: passes over new files, as the backup loop does.
SkipWriteOfNew(a) ==
  /\ pc[a] = "write" /\ InLoop(a)
  /\ ~Member(a) \/ Old(a) = Absent
  /\ Next1(a)
  /\ UNCHANGED <<project, lock, plan, journal, backup, memory, pc, txof, budget>>

SkipWrite(a) ==
  /\ pc[a] = "write" /\ InLoop(a)
  /\ ~Member(a)
  /\ Next1(a)
  /\ UNCHANGED <<project, lock, plan, journal, backup, memory, pc, txof, budget>>

CheckOld(a) ==
  /\ pc[a] = "write" /\ InLoop(a)
  /\ Member(a)
  /\ \/ Now(a) = Old(a) /\ Compared(a, File(a)) /\ Go(a, "mark") /\ UNCHANGED budget
     \/ /\ (Now(a) # Old(a) /\ UNCHANGED budget) \/ Fault
        /\ Go(a, "abort")
        /\ UNCHANGED project
  /\ Stay(a)
  /\ UNCHANGED <<lock, plan, journal, backup, memory, txof>>

\* Mutant of MarkReplaced: the mark stays in memory.
MarkInMemory(a) ==
  /\ pc[a] = "mark"
  /\ Mark(a, "replaced")
  /\ Go(a, "replace") /\ Stay(a)
  /\ UNCHANGED <<project, lock, plan, journal, backup, mstate, txof, budget>>

\* The journal says "replaced" before the file is.
MarkReplaced(a) ==
  /\ pc[a] = "mark"
  /\ Mark(a, "replaced") /\ UNCHANGED mstate
  /\ \/ JournalWritten(a) /\ Go(a, "replace")
     \/ JournalFails(a) /\ Go(a, "abort")
  /\ Stay(a)
  /\ UNCHANGED <<project, lock, plan, backup, txof>>

Replace(a) ==
  /\ pc[a] = "replace"
  /\ \/ /\ RemovedFirst(a, New(a))
        /\ WriteFile(a, File(a), Absent) /\ Go(a, "rename") /\ UNCHANGED budget
     \/ /\ ~RemovedFirst(a, New(a))
        /\ WriteFile(a, File(a), New(a)) /\ Go(a, "confirm") /\ UNCHANGED budget
     \/ Fault /\ Go(a, "abort") /\ UNCHANGED project
  /\ Stay(a)
  /\ UNCHANGED <<lock, plan, journal, backup, memory, txof>>

Rename(a) ==
  /\ pc[a] = "rename"
  /\ \/ WriteFile(a, File(a), New(a)) /\ Go(a, "confirm") /\ UNCHANGED budget
     \/ Fault /\ Go(a, "abort") /\ UNCHANGED project
  /\ Stay(a)
  /\ UNCHANGED <<lock, plan, journal, backup, memory, txof>>

Confirm(a) ==
  /\ pc[a] = "confirm"
  /\ \/ Now(a) = New(a) /\ Next1(a) /\ Go(a, "write") /\ UNCHANGED budget
     \/ /\ (Now(a) # New(a) /\ UNCHANGED budget) \/ Fault
        /\ Stay(a) /\ Go(a, "abort")
  /\ UNCHANGED <<project, lock, plan, journal, backup, memory, txof>>

Verify(a) ==
  /\ pc[a] = "write" /\ ~InLoop(a)
  /\ \/ /\ \A f \in Files : mfile[a][f] = "replaced" => disk[f] = new[a][f]
        /\ Go(a, "begin_validate")
     \/ /\ \E f \in Files : mfile[a][f] = "replaced" /\ disk[f] # new[a][f]
        /\ Go(a, "abort")
  /\ Stay(a)
  /\ UNCHANGED <<project, lock, plan, journal, backup, memory, txof, budget>>

BeginValidating(a) ==
  /\ pc[a] = "begin_validate"
  /\ Remember(a, "validating") /\ UNCHANGED mfile
  /\ \/ JournalWritten(a) /\ Go(a, "validate")
     \/ JournalFails(a) /\ Go(a, "release")
  /\ Stay(a)
  /\ UNCHANGED <<project, lock, plan, backup, txof>>

\* The manifest must be the target's; the checks of the toolchain may say no.
Validate(a) ==
  /\ pc[a] = "validate"
  /\ \/ disk[Manifest] = plan[a].to /\ Go(a, "commit")
     \/ Go(a, "abort")
  /\ Stay(a)
  /\ UNCHANGED <<project, lock, plan, journal, backup, memory, txof, budget>>

Commit(a) ==
  /\ pc[a] = "commit"
  /\ Remember(a, "committed") /\ UNCHANGED mfile
  /\ JournalWritten(a) \/ JournalFails(a)
  /\ Go(a, "release") /\ Stay(a)
  /\ UNCHANGED <<project, lock, plan, backup, txof>>

\* A failed write of the journal is noted and the rollback runs all the same.
Abort(a) ==
  /\ pc[a] = "abort"
  /\ Remember(a, "recovery_required") /\ UNCHANGED mfile
  /\ JournalWritten(a) \/ JournalFails(a)
  /\ Go(a, "load") /\ Stay(a)
  /\ UNCHANGED <<project, lock, plan, backup, txof>>

\* The guard goes out of scope: the lock file is removed, whoever wrote it.
Release(a) ==
  /\ pc[a] = "release"
  /\ lock' = NoLock
  /\ Go(a, "done") /\ Stay(a)
  /\ UNCHANGED <<project, plan, journal, backup, memory, txof, budget>>

-----------------------------------------------------------------------------
(* Recovery: run by an apply that failed and by `gpui upgrade recover`        *)

Failed(p)  == IF p \in Appliers THEN "release" ELSE "done"
\* Mutant of Closing: recover leaves the lock file.
ClosingKeepsLock(p) == IF p \in Appliers THEN "release" ELSE "done"
Closing(p) == IF p \in Appliers THEN "release" ELSE "read_owner"

\* The user recovers transactions whose process is gone.
StartRecover(r, t) ==
  /\ pc[r] \in {"idle", "done", "crashed"}
  /\ pc[t] \in {"done", "crashed"}
  /\ txof' = [txof EXCEPT ![r] = t]
  /\ Go(r, "load") /\ Stay(r)
  /\ UNCHANGED <<project, lock, plan, journal, backup, memory, budget>>

Load(p) ==
  /\ pc[p] = "load"
  /\ \/ jstate[txof[p]] = "none" /\ Go(p, Failed(p)) /\ UNCHANGED memory
     \/ jstate[txof[p]] \in Finished /\ Go(p, Closing(p)) /\ UNCHANGED memory
     \/ /\ jstate[txof[p]] \notin Finished \union {"none"}
        /\ mstate' = [mstate EXCEPT ![p] = jstate[txof[p]]]
        /\ mfile' = [mfile EXCEPT ![p] = jfile[txof[p]]]
        /\ Go(p, "restore")
  /\ Restart(p)
  /\ UNCHANGED <<project, lock, plan, journal, backup, txof, budget>>

\* Mutant of SkipRestore: a file that could not be restored is not tried again.
SkipUnrestored(p) ==
  /\ pc[p] = "restore" /\ InLoop(p)
  /\ mfile[p][File(p)] # "replaced"
  /\ Next1(p)
  /\ UNCHANGED <<project, lock, plan, journal, backup, memory, pc, txof, budget>>

SkipRestore(p) ==
  /\ pc[p] = "restore" /\ InLoop(p)
  /\ mfile[p][File(p)] \notin {"replaced", "recovery_required"}
  /\ Next1(p)
  /\ UNCHANGED <<project, lock, plan, journal, backup, memory, pc, txof, budget>>

NoGoodBackup(p) == Old(p) # Absent /\ backup[txof[p]][File(p)] # Old(p)

\* Mutant of Settle: asks for foreign bytes before it asks for the old ones.
SettleForeignFirst(p) ==
  /\ pc[p] = "restore" /\ InLoop(p)
  /\ mfile[p][File(p)] \in {"replaced", "recovery_required"}
  /\ Now(p) # New(p)
  /\ Mark(p, "user_modified")
  /\ Next1(p)
  /\ UNCHANGED <<project, lock, plan, journal, backup, mstate, pc, txof, budget>>

\* Mutant of Settle: a file that is not there needs no restoring.
SettleMissing(p) ==
  /\ pc[p] = "restore" /\ InLoop(p)
  /\ mfile[p][File(p)] \in {"replaced", "recovery_required"}
  /\ Now(p) \in {Old(p), Absent}
  /\ Mark(p, "restored")
  /\ Next1(p)
  /\ UNCHANGED <<project, lock, plan, journal, backup, mstate, pc, txof, budget>>

\* A file whose bytes decide its fate without another write.
Settle(p) ==
  /\ pc[p] = "restore" /\ InLoop(p)
  /\ mfile[p][File(p)] \in {"replaced", "recovery_required"}
  /\ \/ Now(p) = Old(p) /\ Mark(p, "restored") /\ UNCHANGED budget
     \/ Now(p) \notin {Old(p), New(p)} /\ Mark(p, "user_modified") /\ UNCHANGED budget
     \/ /\ Now(p) # Old(p) /\ Now(p) = New(p) /\ NoGoodBackup(p)
        /\ Mark(p, "recovery_required") /\ UNCHANGED budget
     \/ Fault /\ Mark(p, "recovery_required")
  /\ Next1(p)
  /\ UNCHANGED <<project, lock, plan, journal, backup, mstate, pc, txof>>

\* Mutant of ChooseRestore: restores whatever the file holds now.
RestoreAnything(p) ==
  /\ pc[p] = "restore" /\ InLoop(p)
  /\ mfile[p][File(p)] \in {"replaced", "recovery_required"}
  /\ Now(p) # Old(p) /\ ~NoGoodBackup(p)
  /\ Compared(p, File(p))
  /\ Go(p, "put_back") /\ Stay(p)
  /\ UNCHANGED <<lock, plan, journal, backup, memory, txof, budget>>

ChooseRestore(p) ==
  /\ pc[p] = "restore" /\ InLoop(p)
  /\ mfile[p][File(p)] \in {"replaced", "recovery_required"}
  /\ Now(p) # Old(p) /\ Now(p) = New(p) /\ ~NoGoodBackup(p)
  /\ Compared(p, File(p))
  /\ Go(p, "put_back") /\ Stay(p)
  /\ UNCHANGED <<lock, plan, journal, backup, memory, txof, budget>>

PutBack(p) ==
  /\ pc[p] = "put_back"
  /\ \/ /\ RemovedFirst(p, Old(p))
        /\ WriteFile(p, File(p), Absent)
        /\ Go(p, "put_rename") /\ Stay(p) /\ UNCHANGED <<mfile, budget>>
     \/ /\ ~RemovedFirst(p, Old(p))
        /\ WriteFile(p, File(p), Old(p)) /\ Mark(p, "restored")
        /\ Go(p, "restore") /\ Next1(p) /\ UNCHANGED budget
     \/ /\ Fault /\ Mark(p, "recovery_required")
        /\ Go(p, "restore") /\ Next1(p) /\ UNCHANGED project
  /\ UNCHANGED <<lock, plan, journal, backup, mstate, txof>>

PutRename(p) ==
  /\ pc[p] = "put_rename"
  /\ \/ WriteFile(p, File(p), Old(p)) /\ Mark(p, "restored") /\ UNCHANGED budget
     \/ Fault /\ Mark(p, "recovery_required") /\ UNCHANGED project
  /\ Go(p, "restore") /\ Next1(p)
  /\ UNCHANGED <<lock, plan, journal, backup, mstate, txof>>

Outcome(p) ==
  IF \A f \in Files : mfile[p][f] \notin {"user_modified", "recovery_required"}
  THEN "rolled_back" ELSE "recovery_required"

Conclude(p) ==
  /\ pc[p] = "restore" /\ ~InLoop(p)
  /\ Remember(p, Outcome(p)) /\ UNCHANGED mfile
  /\ \/ JournalWritten(p) /\ Go(p, Closing(p))
     \/ JournalFails(p) /\ Go(p, Failed(p))
  /\ Stay(p)
  /\ UNCHANGED <<project, lock, plan, backup, txof>>

\* The owner is compared here; the file is removed by its name, a step later.
ReadOwner(r) ==
  /\ pc[r] = "read_owner"
  /\ Go(r, IF lock = [by |-> txof[r], named |-> TRUE] THEN "unlink" ELSE "done")
  /\ Stay(r)
  /\ UNCHANGED <<project, lock, plan, journal, backup, memory, txof, budget>>

Unlink(r) ==
  /\ pc[r] = "unlink"
  /\ lock' = NoLock
  /\ Go(r, "done") /\ Stay(r)
  /\ UNCHANGED <<project, plan, journal, backup, memory, txof, budget>>

-----------------------------------------------------------------------------
(* The environment                                                            *)

JournalWriters == {"backup_mark", "mark", "begin_validate", "commit", "abort"}
RewritesJournal(p) ==
  pc[p] \in JournalWriters \/ (pc[p] \in {"backup", "restore"} /\ ~InLoop(p))

Crash(p) ==
  /\ pc[p] \notin {"idle", "planned", "done", "crashed"}
  /\ crashes < MaxCrashes
  /\ crashes' = crashes + 1 /\ UNCHANGED <<edits, faults>>
  /\ Go(p, "crashed") /\ Stay(p)
  /\ IF RewritesJournal(p) THEN JournalInterrupted(p) ELSE UNCHANGED journal
  /\ UNCHANGED <<project, lock, plan, backup, memory, txof>>

\* The user writes, restores or removes a file of the project.
Edit(f, b) ==
  /\ edits < MaxEdits
  /\ edits' = edits + 1 /\ UNCHANGED <<crashes, faults>>
  /\ b # disk[f]
  /\ disk' = [disk EXCEPT ![f] = b]
  /\ touched' = [t \in Appliers |-> touched[t] \union {f}]
  /\ stale' = [q \in Procs |-> stale[q] \union {f}]
  /\ UNCHANGED <<lock, plan, journal, backup, memory, pc, idx, txof>>

-----------------------------------------------------------------------------
\* A project as a version of the template leaves it, with or without manifest.
Init ==
  /\ \E v \in Versions, m \in BOOLEAN :
       disk = [f \in Files |-> IF f = Manifest /\ ~m THEN Absent ELSE Target(v, f)]
  /\ lock = NoLock
  /\ plan = [a \in Appliers |-> NoPlan]
  /\ old = [a \in Appliers |-> [f \in Files |-> Absent]]
  /\ new = old
  /\ backup = old
  /\ jstate = [a \in Appliers |-> "none"]
  /\ jfile = [a \in Appliers |-> [f \in Files |-> "none"]]
  /\ mstate = [p \in Procs |-> "none"]
  /\ mfile = [p \in Procs |-> [f \in Files |-> "none"]]
  /\ pc = [p \in Procs |-> "idle"]
  /\ idx = [p \in Procs |-> 1]
  /\ txof = [p \in Procs |-> IF p \in Appliers THEN p ELSE CHOOSE a \in Appliers : TRUE]
  /\ edits = 0 /\ crashes = 0 /\ faults = 0
  /\ touched = [a \in Appliers |-> {}]
  /\ stale = [p \in Procs |-> {}]

ApplyStep(a) ==
  \/ CreateLock(a) \/ Busy(a) \/ StampLock(a)
  \/ Recheck(a) \/ PrepareFails(a) \/ CreateJournal(a)
  \/ SkipBackup(a) \/ BackUp(a) \/ MarkBackedUp(a) \/ BeginWriting(a)
  \/ SkipWrite(a) \/ CheckOld(a) \/ MarkReplaced(a)
  \/ Replace(a) \/ Rename(a) \/ Confirm(a) \/ Verify(a)
  \/ BeginValidating(a) \/ Validate(a) \/ Commit(a) \/ Abort(a) \/ Release(a)

RestoreStep(p) ==
  \/ Load(p) \/ SkipRestore(p) \/ Settle(p) \/ ChooseRestore(p)
  \/ PutBack(p) \/ PutRename(p) \/ Conclude(p)

RecoverStep(r) == RestoreStep(r) \/ ReadOwner(r) \/ Unlink(r)

Next ==
  \/ \E a \in Appliers, v \in Versions : Plan(a, v)
  \/ \E a \in Appliers : ApplyStep(a)
  \/ \E p \in Procs : RestoreStep(p)
  \/ \E r \in Recoverers : ReadOwner(r) \/ Unlink(r)
  \/ \E r \in Recoverers, t \in Appliers : StartRecover(r, t)
  \/ \E p \in Procs : Crash(p)
  \/ \E f \in Files, b \in Bytes : Edit(f, b)

Spec == Init /\ [][Next]_vars

\* A running process takes its next step unless it dies, and the user runs
\* `recover` on what a dead process left.
Fairness ==
  /\ \A a \in Appliers : WF_vars(ApplyStep(a) \/ RestoreStep(a))
  /\ \A r \in Recoverers : WF_vars(RecoverStep(r))
  /\ \A t \in Appliers : SF_vars(\E r \in Recoverers : StartRecover(r, t))

FairSpec == Spec /\ Fairness

-----------------------------------------------------------------------------
(* Properties                                                                 *)

ApplyPc == {"planned", "stamp", "locked", "checked", "backup", "backup_mark", "write",
            "mark", "replace", "rename", "confirm", "begin_validate", "validate",
            "commit", "abort", "release"}
RestorePc == {"load", "restore", "put_back", "put_rename"}
RecoverPc == {"read_owner", "unlink"}
LoopPc == {"backup_mark", "mark", "replace", "rename", "confirm", "put_back", "put_rename"}

Plans == [to : Versions, base : Bytes, local : [Managed -> Bytes],
          action : [Managed -> Actions], ready : BOOLEAN]

ProjectOK ==
  /\ disk \in [Files -> Bytes]
  /\ touched \in [Appliers -> SUBSET Files]
  /\ stale \in [Procs -> SUBSET Files]
LockOK == lock \in [by : Appliers, named : BOOLEAN] \union {NoLock}
PlanOK ==
  /\ plan \in [Appliers -> Plans \union {NoPlan}]
  /\ \A a \in Appliers : pc[a] # "idle" => plan[a] \in Plans
JournalOK ==
  /\ old \in [Appliers -> [Files -> Bytes]]
  /\ new \in [Appliers -> [Files -> Bytes]]
  /\ jstate \in [Appliers -> TransactionState \union {"none"}]
  /\ jfile \in [Appliers -> [Files -> FileState \union {"none"}]]
BackupOK == backup \in [Appliers -> [Files -> Bytes]]
MemoryOK ==
  /\ mstate \in [Procs -> TransactionState \union {"none"}]
  /\ mfile \in [Procs -> [Files -> FileState \union {"none"}]]
PcOK ==
  /\ pc \in [Procs -> {"idle", "done", "crashed"} \union ApplyPc \union RestorePc \union RecoverPc]
  /\ \A r \in Recoverers : pc[r] \notin ApplyPc
  /\ \A a \in Appliers : pc[a] \notin RecoverPc
IndexOK ==
  /\ idx \in [Procs -> 1 .. NumFiles + 2]
  /\ \A p \in Procs : pc[p] \in LoopPc => InLoop(p)
OwnerOK ==
  /\ txof \in [Procs -> Appliers]
  /\ \A a \in Appliers : txof[a] = a
BudgetOK == edits \in Nat /\ crashes \in Nat /\ faults \in Nat

\* Every variable keeps its type; an apply that has started has a plan, and a
\* step that works on a file has one.
TypeOK == /\ ProjectOK /\ LockOK /\ PlanOK /\ JournalOK /\ BackupOK /\ MemoryOK
          /\ PcOK /\ IndexOK /\ OwnerOK /\ BudgetOK

\* Nothing is replaced before the exact bytes that were there are safe: a file
\* whose journal entry says it was, or may have been, replaced and that existed
\* before has those bytes in the backup directory, whatever crashed or failed.
BackupCoversReplaced ==
  \A t \in Appliers, f \in Files :
    /\ jfile[t][f] \in {"backed_up", "replaced", "restored", "recovery_required"}
    /\ old[t][f] # Absent
    => backup[t][f] = old[t][f]

\* Recovery does not blame the user: a file is reported as changed by the user
\* only when someone outside the transaction wrote it.
UserModifiedIsReal ==
  \A t \in Appliers, f \in Files :
    jfile[t][f] = "user_modified" => f \in touched[t]

\* A transaction that says it was rolled back left no file of its own behind:
\* every file it was to change and nobody else wrote has its old bytes.
RollbackRestores ==
  \A t \in Appliers, f \in Files :
    /\ jstate[t] = "rolled_back"
    /\ jfile[t][f] # "none"
    /\ f \notin touched[t]
    => disk[f] = old[t][f]

\* A committed transaction wrote every file it was to change.
CommitMeansWritten ==
  \A t \in Appliers, f \in Files :
    /\ jstate[t] = "committed"
    /\ jfile[t][f] # "none"
    /\ f \notin touched[t]
    => disk[f] = new[t][f]

\* What the journal says of a transaction that ended, and of the files it left
\* alone, is true of the disk.
VerdictIsTrue == RollbackRestores /\ CommitMeansWritten /\ UserModifiedIsReal

\* Of two applies only one is between its lock and its end.
InsideLock == {"locked", "checked", "backup", "backup_mark", "write", "mark", "replace",
               "rename", "confirm", "begin_validate", "validate", "commit", "abort",
               "load", "restore", "put_back", "put_rename", "release"}
MutualExclusion ==
  \A a, b \in Appliers : pc[a] \in InsideLock /\ pc[b] \in InsideLock => a = b

\* Apply and rollback lose no bytes that someone else wrote: what a step of a
\* process overwrites is the transaction's own output, is in its backup, or was
\* written after that process compared the file for the last time.
Steps(p) == <<pc[p], idx[p]>>' # <<pc[p], idx[p]>>
NoWriteLost(p) ==
  \A f \in Files :
    disk'[f] # disk[f] =>
      \/ disk[f] \in {Absent, new[txof[p]][f], backup[txof[p]][f]}
      \/ f \in stale[p]
EditsPreserved == [][\A p \in Procs : Steps(p) => NoWriteLost(p)]_vars

\* A lock whose dead owner left a journal goes away.
JournaledLockRemoved ==
  \A t \in Appliers :
    (pc[t] = "crashed" /\ lock = [by |-> t, named |-> TRUE] /\ jstate[t] # "none")
      ~> (lock.by # t)

\* Recovery converges: run again after crashes and failed calls, it brings every
\* transaction that nobody else wrote over to an end.
RecoveryConverges ==
  \A t \in Appliers :
    jstate[t] # "none" ~> (jstate[t] \in Finished \/ touched[t] # {})

\* Recovery comes to an end, and leaves no lock of its transaction behind.
RecoveryEnds == RecoveryConverges /\ JournaledLockRemoved

=============================================================================
