---------------------- MODULE UpgradeTransactionProofs ----------------------
(***************************************************************************)
(* Proofs about UpgradeTransaction: its type invariant; that no file is    *)
(* replaced before its bytes are in the backup directory; that one apply   *)
(* holds the lock; that no write of anybody is lost; and that what the     *)
(* journal says of a transaction that ended is true.                       *)
(***************************************************************************)
EXTENDS UpgradeTransaction, TLAPS

\* Planning any project for any version gives a plan, with an action from the
\* table of PlanOf for every managed file.
LEMMA PlanType ==
  ASSUME NEW d \in [Files -> Bytes], NEW v \in Versions
  PROVE  PlanOf(d, v) \in Plans
<1>1. \A base, local, target : Classify(base, local, target) \in Actions
  BY DEF Classify, Actions
<1>2. \A f \in Managed : f \in Files
  BY ConstantsAssumption DEF Managed, Files
<1>3. Manifest \in Files
  BY ConstantsAssumption DEF Manifest, Files
<1>4. Absent \in Bytes
  BY DEF Bytes
<1> DEFINE b == BaseOf(d, v)
           known(f) == b # Absent /\ (Template[b][f] # Absent \/ Template[v][f] # Absent)
           act(f) == Classify(Template[b][f], d[f], Template[v][f])
<1>5. [f \in Managed |-> IF known(f) THEN d[f] ELSE Absent] \in [Managed -> Bytes]
  BY <1>2, <1>4
<1>6. [f \in Managed |-> IF known(f) THEN act(f) ELSE "no_change"] \in [Managed -> Actions]
  <2>1. \A f \in Managed : act(f) \in Actions
    BY <1>1
  <2>2. "no_change" \in Actions
    BY DEF Actions
  <2> QED BY <2>1, <2>2
<1>7. (b # Absent /\ \A f \in Managed : known(f) => act(f) # "conflict") \in BOOLEAN
  OBVIOUS
<1>8. d[Manifest] \in Bytes
  BY <1>3
<1>9. PlanOf(d, v) =
        [ to     |-> v,
          base   |-> d[Manifest],
          local  |-> [f \in Managed |-> IF known(f) THEN d[f] ELSE Absent],
          action |-> [f \in Managed |-> IF known(f) THEN act(f) ELSE "no_change"],
          ready  |-> b # Absent /\ \A f \in Managed : known(f) => act(f) # "conflict" ]
  BY Zenon DEF PlanOf
<1> HIDE DEF b, known, act
<1> QED BY <1>5, <1>6, <1>7, <1>8, <1>9 DEF Plans

\* The type invariant holds initially.
LEMMA TypeInit == Init => TypeOK
<1> SUFFICES ASSUME Init PROVE TypeOK
  OBVIOUS
<1> USE ConstantsAssumption DEF Init
<1>1. ProjectOK
  <2>1. disk \in [Files -> Bytes]
    BY DEF Files, Managed, Manifest, Target, Bytes
  <2> QED BY <2>1 DEF ProjectOK
<1>2. LockOK /\ PlanOK /\ BudgetOK
  BY DEF LockOK, PlanOK, BudgetOK, Procs
<1>3. JournalOK /\ BackupOK
  BY DEF JournalOK, BackupOK, Bytes
<1>4. MemoryOK /\ OwnerOK
  BY DEF MemoryOK, OwnerOK, Procs
<1>5. PcOK /\ IndexOK
  BY DEF PcOK, IndexOK, InLoop, Procs, LoopPc, ApplyPc, RecoverPc, RestorePc
<1> QED
  BY <1>1, <1>2, <1>3, <1>4, <1>5 DEF TypeOK

\* Writing bytes to a file of the project keeps the types of the project.
LEMMA WriteFileType ==
  ASSUME ProjectOK, OwnerOK, NEW p \in Procs, NEW f \in Files, NEW b \in Bytes,
         WriteFile(p, f, b)
  PROVE  ProjectOK'
<1>1. disk' \in [Files -> Bytes]
  BY DEF ProjectOK, WriteFile
<1>2. touched' \in [Appliers -> SUBSET Files]
  BY DEF ProjectOK, WriteFile
<1>3. stale' \in [Procs -> SUBSET Files]
  BY DEF ProjectOK, WriteFile
<1> QED BY <1>1, <1>2, <1>3 DEF ProjectOK

\* So does comparing a file.
LEMMA ComparedType ==
  ASSUME ProjectOK, NEW p \in Procs, NEW f \in Files, Compared(p, f)
  PROVE  ProjectOK'
BY DEF ProjectOK, Compared

\* Rewriting the journal from a well-typed memory keeps its type; so does a
\* rewrite that is cut short.
LEMMA JournalType ==
  ASSUME JournalOK, OwnerOK, MemoryOK', NEW p \in Procs,
         JournalWritten(p) \/ JournalInterrupted(p)
  PROVE  JournalOK'
<1>1. txof[p] \in Appliers
  BY DEF OwnerOK
<1>2. CASE JournalWritten(p)
  BY <1>1, <1>2 DEF JournalOK, MemoryOK, JournalWritten
<1>3. CASE JournalInterrupted(p)
  BY <1>1, <1>3 DEF JournalOK, JournalInterrupted
<1> QED BY <1>2, <1>3

\* Marking a file of the journal in memory, and setting its state.
LEMMA MarkType ==
  ASSUME MemoryOK, NEW p \in Procs, InLoop(p), NEW s \in FileState, Mark(p, s),
         UNCHANGED mstate
  PROVE  MemoryOK'
BY DEF MemoryOK, Mark, File, InLoop

LEMMA RememberType ==
  ASSUME MemoryOK, NEW p \in Procs, NEW s \in TransactionState, Remember(p, s),
         UNCHANGED mfile
  PROVE  MemoryOK'
BY DEF MemoryOK, Remember

LEMMA OldNewType ==
  ASSUME JournalOK, OwnerOK, NEW p \in Procs, InLoop(p)
  PROVE  Old(p) \in Bytes /\ New(p) \in Bytes /\ Absent \in Bytes
BY DEF JournalOK, OwnerOK, Old, New, File, InLoop, Bytes

\* Every step keeps the types.
LEMMA TypeStep == TypeOK /\ [Next]_vars => TypeOK'
<1> SUFFICES ASSUME TypeOK, [Next]_vars PROVE TypeOK'
  OBVIOUS
<1> USE DEF TypeOK, Procs, Go, Stay, Next1, Restart, project, journal, memory, budget
<1>1. ASSUME NEW a \in Appliers, CreateLock(a) PROVE TypeOK'
  <2> USE <1>1 DEF CreateLock
  <2>1. LockOK'
    BY DEF LockOK
  <2>2. (PlanOK /\ PcOK /\ IndexOK)'
    BY ConstantsAssumption DEF PlanOK, PcOK, IndexOK, ApplyPc, RestorePc, RecoverPc, LoopPc, InLoop, Files
  <2> QED BY <2>1, <2>2 DEF ProjectOK, BackupOK, JournalOK, MemoryOK, OwnerOK, BudgetOK
<1>2. ASSUME NEW a \in Appliers, Busy(a) PROVE TypeOK'
  <2> USE <1>2 DEF Busy
  <2>1. (PlanOK /\ PcOK /\ IndexOK)'
    BY ConstantsAssumption DEF PlanOK, PcOK, IndexOK, ApplyPc, RestorePc, RecoverPc, LoopPc, InLoop, Files
  <2> QED BY <2>1 DEF ProjectOK, LockOK, BackupOK, JournalOK, MemoryOK, OwnerOK, BudgetOK
<1>3. ASSUME NEW a \in Appliers, StampLock(a) PROVE TypeOK'
  <2> USE <1>3 DEF StampLock
  <2>1. lock' = lock \/ lock' = [by |-> a, named |-> TRUE]
    OBVIOUS
  <2>2. [by |-> a, named |-> TRUE] \in [by : Appliers, named : BOOLEAN]
    OBVIOUS
  <2>3. LockOK'
    BY <2>1, <2>2 DEF LockOK
  <2>4. (PlanOK /\ PcOK /\ IndexOK)'
    BY ConstantsAssumption DEF PlanOK, PcOK, IndexOK, ApplyPc, RestorePc, RecoverPc, LoopPc, InLoop, Files
  <2> QED BY <2>1, <2>2, <2>3, <2>4 DEF ProjectOK, BackupOK, JournalOK, MemoryOK, OwnerOK, BudgetOK, Fault, JournalWritten, JournalFails
<1>4. ASSUME NEW a \in Appliers, Recheck(a) PROVE TypeOK'
  <2> USE <1>4 DEF Recheck
  <2>1. ProjectOK'
    BY DEF ProjectOK
  <2>2. (PlanOK /\ PcOK /\ IndexOK)'
    BY ConstantsAssumption DEF PlanOK, PcOK, IndexOK, ApplyPc, RestorePc, RecoverPc, LoopPc, InLoop, Files
  <2> QED BY <2>1, <2>2 DEF LockOK, BackupOK, JournalOK, MemoryOK, OwnerOK, BudgetOK
<1>5. ASSUME NEW a \in Appliers, PrepareFails(a) PROVE TypeOK'
  <2> USE <1>5 DEF PrepareFails
  <2>1. (PlanOK /\ PcOK /\ IndexOK)'
    BY ConstantsAssumption DEF PlanOK, PcOK, IndexOK, ApplyPc, RestorePc, RecoverPc, LoopPc, InLoop, Files
  <2> QED BY <2>1 DEF ProjectOK, LockOK, BackupOK, JournalOK, MemoryOK, OwnerOK, BudgetOK, Fault, JournalWritten, JournalFails
<1>6. ASSUME NEW a \in Appliers, CreateJournal(a) PROVE TypeOK'
  <2> USE <1>6 DEF CreateJournal
  <2>1. MemoryOK'
    BY DEF MemoryOK, Remember, FileState, TransactionState
  <2>2. plan[a] \in Plans
    BY DEF PlanOK
  <2>3. \A f \in Files : f # Manifest => f \in Managed
    BY ConstantsAssumption DEF Files, Managed, Manifest
  <2>4. [f \in Files |-> IF f = Manifest THEN disk[f] ELSE plan[a].local[f]] \in [Files -> Bytes]
    BY <2>2, <2>3 DEF ProjectOK, Plans
  <2>5. \A f \in Files : Target(plan[a].to, f) \in Bytes
    BY <2>2, <2>3, ConstantsAssumption DEF Target, Bytes, Plans
  <2>6. old' \in [Appliers -> [Files -> Bytes]] /\ new' \in [Appliers -> [Files -> Bytes]]
    BY <2>4, <2>5 DEF JournalOK
  <2>7. JournalOK'
    BY <2>1, <2>6 DEF JournalOK, MemoryOK, TransactionState, FileState
  <2>8. (PlanOK /\ PcOK /\ IndexOK)'
    BY ConstantsAssumption DEF PlanOK, PcOK, IndexOK, ApplyPc, RestorePc, RecoverPc, LoopPc, InLoop, Files
  <2> QED BY <2>1, <2>2, <2>3, <2>4, <2>5, <2>6, <2>7, <2>8 DEF ProjectOK, LockOK, BackupOK, OwnerOK, BudgetOK
<1>7. ASSUME NEW a \in Appliers, SkipBackup(a) PROVE TypeOK'
  <2> USE <1>7 DEF SkipBackup
  <2>1. (PlanOK /\ PcOK /\ IndexOK)'
    BY ConstantsAssumption DEF PlanOK, PcOK, IndexOK, ApplyPc, RestorePc, RecoverPc, LoopPc, InLoop, Files
  <2> QED BY <2>1 DEF ProjectOK, LockOK, BackupOK, JournalOK, MemoryOK, OwnerOK, BudgetOK
<1>8. ASSUME NEW a \in Appliers, BackUp(a) PROVE TypeOK'
  <2> USE <1>8 DEF BackUp
  <2>1. UNCHANGED backup \/ backup' = [backup EXCEPT ![a][File(a)] = Old(a)]
    OBVIOUS
  <2>2. BackupOK'
    BY <2>1, OldNewType DEF BackupOK, File, InLoop
  <2>3. (PlanOK /\ PcOK /\ IndexOK)'
    BY ConstantsAssumption DEF PlanOK, PcOK, IndexOK, ApplyPc, RestorePc, RecoverPc, LoopPc, InLoop, Files
  <2> QED BY <2>1, <2>2, <2>3 DEF ProjectOK, LockOK, JournalOK, MemoryOK, OwnerOK, BudgetOK, Fault, JournalWritten, JournalFails
<1>9. ASSUME NEW a \in Appliers, MarkBackedUp(a) PROVE TypeOK'
  <2> USE <1>9 DEF MarkBackedUp
  <2>1. MemoryOK'
    BY MarkType DEF LoopPc, IndexOK, FileState
  <2>2. JournalOK'
    BY <2>1, JournalType DEF JournalFails, Fault
  <2>3. (PlanOK /\ PcOK /\ IndexOK)'
    BY ConstantsAssumption DEF PlanOK, PcOK, IndexOK, ApplyPc, RestorePc, RecoverPc, LoopPc, InLoop, Files
  <2> QED BY <2>1, <2>2, <2>3 DEF ProjectOK, LockOK, BackupOK, OwnerOK, BudgetOK, Fault, JournalWritten, JournalFails
<1>10. ASSUME NEW a \in Appliers, BeginWriting(a) PROVE TypeOK'
  <2> USE <1>10 DEF BeginWriting
  <2>1. MemoryOK'
    BY RememberType DEF TransactionState
  <2>2. JournalOK'
    BY <2>1, JournalType DEF JournalFails, Fault
  <2>3. (PlanOK /\ PcOK /\ IndexOK)'
    BY ConstantsAssumption DEF PlanOK, PcOK, IndexOK, ApplyPc, RestorePc, RecoverPc, LoopPc, InLoop, Files
  <2> QED BY <2>1, <2>2, <2>3 DEF ProjectOK, LockOK, BackupOK, OwnerOK, BudgetOK, Fault, JournalWritten, JournalFails
<1>11. ASSUME NEW a \in Appliers, SkipWrite(a) PROVE TypeOK'
  <2> USE <1>11 DEF SkipWrite
  <2>1. (PlanOK /\ PcOK /\ IndexOK)'
    BY ConstantsAssumption DEF PlanOK, PcOK, IndexOK, ApplyPc, RestorePc, RecoverPc, LoopPc, InLoop, Files
  <2> QED BY <2>1 DEF ProjectOK, LockOK, BackupOK, JournalOK, MemoryOK, OwnerOK, BudgetOK
<1>12. ASSUME NEW a \in Appliers, CheckOld(a) PROVE TypeOK'
  <2> USE <1>12 DEF CheckOld
  <2>1. UNCHANGED project \/ Compared(a, File(a))
    OBVIOUS
  <2>2. ProjectOK'
    BY <2>1, ComparedType DEF ProjectOK, File, InLoop
  <2>3. (PlanOK /\ PcOK /\ IndexOK)'
    BY ConstantsAssumption DEF PlanOK, PcOK, IndexOK, ApplyPc, RestorePc, RecoverPc, LoopPc, InLoop, Files
  <2> QED BY <2>1, <2>2, <2>3 DEF LockOK, BackupOK, JournalOK, MemoryOK, OwnerOK, BudgetOK, Fault, JournalWritten, JournalFails
<1>13. ASSUME NEW a \in Appliers, MarkReplaced(a) PROVE TypeOK'
  <2> USE <1>13 DEF MarkReplaced
  <2>1. MemoryOK'
    BY MarkType DEF LoopPc, IndexOK, FileState
  <2>2. JournalOK'
    BY <2>1, JournalType DEF JournalFails, Fault
  <2>3. (PlanOK /\ PcOK /\ IndexOK)'
    BY ConstantsAssumption DEF PlanOK, PcOK, IndexOK, ApplyPc, RestorePc, RecoverPc, LoopPc, InLoop, Files
  <2> QED BY <2>1, <2>2, <2>3 DEF ProjectOK, LockOK, BackupOK, OwnerOK, BudgetOK, Fault, JournalWritten, JournalFails
<1>14. ASSUME NEW a \in Appliers, Replace(a) PROVE TypeOK'
  <2> USE <1>14 DEF Replace
  <2>1. InLoop(a)
    BY DEF LoopPc, IndexOK
  <2>2. UNCHANGED project \/ \E b \in Bytes : WriteFile(a, File(a), b)
    BY <2>1, OldNewType
  <2>3. ProjectOK'
    BY <2>1, <2>2, WriteFileType DEF ProjectOK, File, InLoop
  <2>4. (PlanOK /\ PcOK /\ IndexOK)'
    BY ConstantsAssumption DEF PlanOK, PcOK, IndexOK, ApplyPc, RestorePc, RecoverPc, LoopPc, InLoop, Files
  <2> QED BY <2>1, <2>2, <2>3, <2>4 DEF LockOK, BackupOK, JournalOK, MemoryOK, OwnerOK, BudgetOK, Fault, JournalWritten, JournalFails
<1>15. ASSUME NEW a \in Appliers, Rename(a) PROVE TypeOK'
  <2> USE <1>15 DEF Rename
  <2>1. InLoop(a)
    BY DEF LoopPc, IndexOK
  <2>2. UNCHANGED project \/ \E b \in Bytes : WriteFile(a, File(a), b)
    BY <2>1, OldNewType
  <2>3. ProjectOK'
    BY <2>1, <2>2, WriteFileType DEF ProjectOK, File, InLoop
  <2>4. (PlanOK /\ PcOK /\ IndexOK)'
    BY ConstantsAssumption DEF PlanOK, PcOK, IndexOK, ApplyPc, RestorePc, RecoverPc, LoopPc, InLoop, Files
  <2> QED BY <2>1, <2>2, <2>3, <2>4 DEF LockOK, BackupOK, JournalOK, MemoryOK, OwnerOK, BudgetOK, Fault, JournalWritten, JournalFails
<1>16. ASSUME NEW a \in Appliers, Confirm(a) PROVE TypeOK'
  <2> USE <1>16 DEF Confirm
  <2>1. (PlanOK /\ PcOK /\ IndexOK)'
    BY ConstantsAssumption DEF PlanOK, PcOK, IndexOK, ApplyPc, RestorePc, RecoverPc, LoopPc, InLoop, Files
  <2> QED BY <2>1 DEF ProjectOK, LockOK, BackupOK, JournalOK, MemoryOK, OwnerOK, BudgetOK, Fault, JournalWritten, JournalFails
<1>17. ASSUME NEW a \in Appliers, Verify(a) PROVE TypeOK'
  <2> USE <1>17 DEF Verify
  <2>1. (PlanOK /\ PcOK /\ IndexOK)'
    BY ConstantsAssumption DEF PlanOK, PcOK, IndexOK, ApplyPc, RestorePc, RecoverPc, LoopPc, InLoop, Files
  <2> QED BY <2>1 DEF ProjectOK, LockOK, BackupOK, JournalOK, MemoryOK, OwnerOK, BudgetOK
<1>18. ASSUME NEW a \in Appliers, BeginValidating(a) PROVE TypeOK'
  <2> USE <1>18 DEF BeginValidating
  <2>1. MemoryOK'
    BY RememberType DEF TransactionState
  <2>2. JournalOK'
    BY <2>1, JournalType DEF JournalFails, Fault
  <2>3. (PlanOK /\ PcOK /\ IndexOK)'
    BY ConstantsAssumption DEF PlanOK, PcOK, IndexOK, ApplyPc, RestorePc, RecoverPc, LoopPc, InLoop, Files
  <2> QED BY <2>1, <2>2, <2>3 DEF ProjectOK, LockOK, BackupOK, OwnerOK, BudgetOK, Fault, JournalWritten, JournalFails
<1>19. ASSUME NEW a \in Appliers, Validate(a) PROVE TypeOK'
  <2> USE <1>19 DEF Validate
  <2>1. (PlanOK /\ PcOK /\ IndexOK)'
    BY ConstantsAssumption DEF PlanOK, PcOK, IndexOK, ApplyPc, RestorePc, RecoverPc, LoopPc, InLoop, Files
  <2> QED BY <2>1 DEF ProjectOK, LockOK, BackupOK, JournalOK, MemoryOK, OwnerOK, BudgetOK
<1>20. ASSUME NEW a \in Appliers, Commit(a) PROVE TypeOK'
  <2> USE <1>20 DEF Commit
  <2>1. MemoryOK'
    BY RememberType DEF TransactionState
  <2>2. JournalOK'
    BY <2>1, JournalType DEF JournalFails, Fault
  <2>3. (PlanOK /\ PcOK /\ IndexOK)'
    BY ConstantsAssumption DEF PlanOK, PcOK, IndexOK, ApplyPc, RestorePc, RecoverPc, LoopPc, InLoop, Files
  <2> QED BY <2>1, <2>2, <2>3 DEF ProjectOK, LockOK, BackupOK, OwnerOK, BudgetOK, Fault, JournalWritten, JournalFails
<1>21. ASSUME NEW a \in Appliers, Abort(a) PROVE TypeOK'
  <2> USE <1>21 DEF Abort
  <2>1. MemoryOK'
    BY RememberType DEF TransactionState
  <2>2. JournalOK'
    BY <2>1, JournalType DEF JournalFails, Fault
  <2>3. (PlanOK /\ PcOK /\ IndexOK)'
    BY ConstantsAssumption DEF PlanOK, PcOK, IndexOK, ApplyPc, RestorePc, RecoverPc, LoopPc, InLoop, Files
  <2> QED BY <2>1, <2>2, <2>3 DEF ProjectOK, LockOK, BackupOK, OwnerOK, BudgetOK, Fault, JournalWritten, JournalFails
<1>22. ASSUME NEW a \in Appliers, Release(a) PROVE TypeOK'
  <2> USE <1>22 DEF Release
  <2>1. LockOK'
    BY DEF LockOK
  <2>2. (PlanOK /\ PcOK /\ IndexOK)'
    BY ConstantsAssumption DEF PlanOK, PcOK, IndexOK, ApplyPc, RestorePc, RecoverPc, LoopPc, InLoop, Files
  <2> QED BY <2>1, <2>2 DEF ProjectOK, BackupOK, JournalOK, MemoryOK, OwnerOK, BudgetOK
<1>23. ASSUME NEW p \in Procs, Load(p) PROVE TypeOK'
  <2> USE <1>23 DEF Load
  <2>1. jstate[txof[p]] \in TransactionState \union {"none"} /\ jfile[txof[p]] \in [Files -> FileState \union {"none"}]
    BY DEF JournalOK, OwnerOK
  <2>2. MemoryOK'
    BY <2>1 DEF MemoryOK
  <2>3. (PlanOK /\ PcOK /\ IndexOK)'
    BY ConstantsAssumption DEF PlanOK, PcOK, IndexOK, ApplyPc, RestorePc, RecoverPc, LoopPc, InLoop, Files, Failed, Closing
  <2> QED BY <2>1, <2>2, <2>3 DEF ProjectOK, LockOK, BackupOK, JournalOK, OwnerOK, BudgetOK
<1>24. ASSUME NEW p \in Procs, SkipRestore(p) PROVE TypeOK'
  <2> USE <1>24 DEF SkipRestore
  <2>1. (PlanOK /\ PcOK /\ IndexOK)'
    BY ConstantsAssumption DEF PlanOK, PcOK, IndexOK, ApplyPc, RestorePc, RecoverPc, LoopPc, InLoop, Files
  <2> QED BY <2>1 DEF ProjectOK, LockOK, BackupOK, JournalOK, MemoryOK, OwnerOK, BudgetOK
<1>25. ASSUME NEW p \in Procs, Settle(p) PROVE TypeOK'
  <2> USE <1>25 DEF Settle
  <2>1. MemoryOK'
    BY MarkType DEF FileState
  <2>2. (PlanOK /\ PcOK /\ IndexOK)'
    BY ConstantsAssumption DEF PlanOK, PcOK, IndexOK, ApplyPc, RestorePc, RecoverPc, LoopPc, InLoop, Files
  <2> QED BY <2>1, <2>2 DEF ProjectOK, LockOK, BackupOK, JournalOK, OwnerOK, BudgetOK, Fault, JournalWritten, JournalFails
<1>26. ASSUME NEW p \in Procs, ChooseRestore(p) PROVE TypeOK'
  <2> USE <1>26 DEF ChooseRestore
  <2>1. ProjectOK'
    BY ComparedType DEF File, InLoop
  <2>2. (PlanOK /\ PcOK /\ IndexOK)'
    BY ConstantsAssumption DEF PlanOK, PcOK, IndexOK, ApplyPc, RestorePc, RecoverPc, LoopPc, InLoop, Files
  <2> QED BY <2>1, <2>2 DEF LockOK, BackupOK, JournalOK, MemoryOK, OwnerOK, BudgetOK
<1>27. ASSUME NEW p \in Procs, PutBack(p) PROVE TypeOK'
  <2> USE <1>27 DEF PutBack
  <2>1. InLoop(p)
    BY DEF LoopPc, IndexOK
  <2>2. UNCHANGED project \/ \E b \in Bytes : WriteFile(p, File(p), b)
    BY <2>1, OldNewType
  <2>3. ProjectOK'
    BY <2>1, <2>2, WriteFileType DEF ProjectOK, File, InLoop
  <2>4. MemoryOK'
    BY MarkType DEF LoopPc, IndexOK, FileState, MemoryOK
  <2>5. (PlanOK /\ PcOK /\ IndexOK)'
    BY ConstantsAssumption DEF PlanOK, PcOK, IndexOK, ApplyPc, RestorePc, RecoverPc, LoopPc, InLoop, Files
  <2> QED BY <2>1, <2>2, <2>3, <2>4, <2>5 DEF LockOK, BackupOK, JournalOK, OwnerOK, BudgetOK, Fault, JournalWritten, JournalFails
<1>28. ASSUME NEW p \in Procs, PutRename(p) PROVE TypeOK'
  <2> USE <1>28 DEF PutRename
  <2>1. InLoop(p)
    BY DEF LoopPc, IndexOK
  <2>2. UNCHANGED project \/ \E b \in Bytes : WriteFile(p, File(p), b)
    BY <2>1, OldNewType
  <2>3. ProjectOK'
    BY <2>1, <2>2, WriteFileType DEF ProjectOK, File, InLoop
  <2>4. MemoryOK'
    BY MarkType DEF LoopPc, IndexOK, FileState
  <2>5. (PlanOK /\ PcOK /\ IndexOK)'
    BY ConstantsAssumption DEF PlanOK, PcOK, IndexOK, ApplyPc, RestorePc, RecoverPc, LoopPc, InLoop, Files
  <2> QED BY <2>1, <2>2, <2>3, <2>4, <2>5 DEF LockOK, BackupOK, JournalOK, OwnerOK, BudgetOK, Fault, JournalWritten, JournalFails
<1>29. ASSUME NEW p \in Procs, Conclude(p) PROVE TypeOK'
  <2> USE <1>29 DEF Conclude
  <2>1. MemoryOK'
    BY RememberType DEF TransactionState, Outcome
  <2>2. JournalOK'
    BY <2>1, JournalType DEF JournalFails, Fault
  <2>3. (PlanOK /\ PcOK /\ IndexOK)'
    BY ConstantsAssumption DEF PlanOK, PcOK, IndexOK, ApplyPc, RestorePc, RecoverPc, LoopPc, InLoop, Files, Failed, Closing
  <2> QED BY <2>1, <2>2, <2>3 DEF ProjectOK, LockOK, BackupOK, OwnerOK, BudgetOK, Fault, JournalWritten, JournalFails
<1>30. ASSUME NEW r \in Recoverers, ReadOwner(r) PROVE TypeOK'
  <2> USE <1>30 DEF ReadOwner
  <2>1. (PlanOK /\ PcOK /\ IndexOK)'
    BY ConstantsAssumption DEF PlanOK, PcOK, IndexOK, ApplyPc, RestorePc, RecoverPc, LoopPc, InLoop, Files
  <2> QED BY <2>1 DEF ProjectOK, LockOK, BackupOK, JournalOK, MemoryOK, OwnerOK, BudgetOK
<1>31. ASSUME NEW r \in Recoverers, Unlink(r) PROVE TypeOK'
  <2> USE <1>31 DEF Unlink
  <2>1. LockOK'
    BY DEF LockOK
  <2>2. (PlanOK /\ PcOK /\ IndexOK)'
    BY ConstantsAssumption DEF PlanOK, PcOK, IndexOK, ApplyPc, RestorePc, RecoverPc, LoopPc, InLoop, Files
  <2> QED BY <2>1, <2>2 DEF ProjectOK, BackupOK, JournalOK, MemoryOK, OwnerOK, BudgetOK
<1>32. ASSUME NEW a \in Appliers, NEW v \in Versions, Plan(a, v) PROVE TypeOK'
  <2> USE <1>32 DEF Plan
  <2>1. PlanOf(disk, v) \in Plans
    BY PlanType DEF ProjectOK
  <2>2. (PlanOK /\ PcOK /\ IndexOK)'
    BY <2>1, ConstantsAssumption DEF PlanOK, PcOK, IndexOK, ApplyPc, RestorePc, RecoverPc, LoopPc, InLoop
  <2> QED BY <2>2 DEF ProjectOK, LockOK, BackupOK, JournalOK, MemoryOK, OwnerOK, BudgetOK
<1>33. ASSUME NEW r \in Recoverers, NEW t \in Appliers, StartRecover(r, t) PROVE TypeOK'
  <2> USE <1>33 DEF StartRecover
  <2>1. OwnerOK'
    BY ConstantsAssumption DEF OwnerOK
  <2>2. (PlanOK /\ PcOK /\ IndexOK)'
    BY ConstantsAssumption DEF PlanOK, PcOK, IndexOK, ApplyPc, RestorePc, RecoverPc, LoopPc, InLoop
  <2> QED BY <2>1, <2>2 DEF ProjectOK, LockOK, BackupOK, JournalOK, MemoryOK, BudgetOK
<1>34. ASSUME NEW p \in Procs, Crash(p) PROVE TypeOK'
  <2> USE <1>34 DEF Crash
  <2>1. JournalInterrupted(p) \/ UNCHANGED journal
    OBVIOUS
  <2>2. JournalOK'
    BY <2>1, JournalType DEF JournalOK, MemoryOK
  <2>3. (PlanOK /\ PcOK /\ IndexOK)'
    BY ConstantsAssumption DEF PlanOK, PcOK, IndexOK, ApplyPc, RestorePc, RecoverPc, LoopPc, InLoop
  <2> QED BY <2>2, <2>3 DEF ProjectOK, LockOK, BackupOK, MemoryOK, OwnerOK, BudgetOK
<1>35. ASSUME NEW f \in Files, NEW b \in Bytes, Edit(f, b) PROVE TypeOK'
  <2> USE <1>35 DEF Edit
  <2>1. ProjectOK'
    BY DEF ProjectOK
  <2> QED BY <2>1 DEF LockOK, PlanOK, JournalOK, BackupOK, MemoryOK, PcOK, IndexOK, InLoop, OwnerOK, BudgetOK
<1>36. CASE UNCHANGED vars
  BY <1>36 DEF vars, ProjectOK, LockOK, PlanOK, JournalOK, BackupOK, MemoryOK, PcOK, IndexOK, InLoop, OwnerOK, BudgetOK
<1>37. ASSUME NEW a \in Appliers, ApplyStep(a) PROVE TypeOK'
  BY <1>37, <1>1, <1>2, <1>3, <1>4, <1>5, <1>6, <1>7, <1>8, <1>9, <1>10, <1>11,
     <1>12, <1>13, <1>14, <1>15, <1>16, <1>17, <1>18, <1>19, <1>20, <1>21, <1>22 DEF ApplyStep
<1>38. ASSUME NEW p \in Procs, RestoreStep(p) PROVE TypeOK'
  BY <1>38, <1>23, <1>24, <1>25, <1>26, <1>27, <1>28, <1>29 DEF RestoreStep
<1> QED
  BY <1>30, <1>31, <1>32, <1>33, <1>34, <1>35, <1>36, <1>37, <1>38 DEF Next

\* Types are kept for ever.
THEOREM TypeCorrect == Spec => []TypeOK
<1>1. Init => TypeOK
  BY TypeInit
<1>2. TypeOK /\ [Next]_vars => TypeOK'
  BY TypeStep
<1> QED
  BY <1>1, <1>2, PTL DEF Spec

-----------------------------------------------------------------------------
(* A replaced file has its backup                                             *)

Covered == {"backed_up", "replaced", "restored", "recovery_required"}
Safe(t, f) == old[t][f] # Absent => backup[t][f] = old[t][f]

\* Where the memory of a process is a journal that it may write.
Journaling == {"backup", "backup_mark", "write", "mark", "replace", "rename", "confirm",
               "begin_validate", "validate", "commit", "abort",
               "restore", "put_back", "put_rename"}
BackedUpPc == {"write", "mark", "replace", "rename", "confirm"}
MarkPc == {"backup_mark", "mark", "put_back", "put_rename"}

MemorySafe(p) == \A f \in Files : mfile[p][f] \in Covered => Safe(txof[p], f)
BackedUpTo(p, n) == \A f \in Files : f < n /\ mfile[p][f] # "none" => Safe(txof[p], f)

\* What a process knows of the backups, by its place in the program.
Knows(p) ==
  /\ pc[p] \in Journaling => MemorySafe(p)
  /\ pc[p] \in {"backup", "backup_mark"} => BackedUpTo(p, idx[p])
  /\ pc[p] \in MarkPc => Safe(txof[p], idx[p])
  /\ pc[p] \in BackedUpPc => BackedUpTo(p, NumFiles + 2)

\* A recovery works on the transaction of a process that is gone.
RecoverAlone ==
  \A r \in Recoverers :
    pc[r] \in Journaling \union {"load"} => pc[txof[r]] \in {"done", "crashed"}

\* BackupCoversReplaced speaks of the journal alone.  A step preserves it only
\* because the memory the journal is written from satisfies it too, and because
\* the backup loop has passed every file before the first replacement.
BackupInv ==
  /\ BackupCoversReplaced
  /\ \A p \in Procs : Knows(p)
  /\ RecoverAlone

\* A step of p leaves the place and the memory of every other process alone.
OnlyMoves(p) ==
  \A q \in Procs \ {p} :
    /\ pc'[q] = pc[q] /\ idx'[q] = idx[q] /\ txof'[q] = txof[q] /\ mfile'[q] = mfile[q]
BackupsKept == \A t \in Appliers, f \in Files : Safe(t, f) => Safe(t, f)'

\* What the others know stays true as long as no backup is lost.
LEMMA OthersKnow ==
  ASSUME OwnerOK, IndexOK, NEW p \in Procs, OnlyMoves(p), BackupsKept, \A q \in Procs : Knows(q)
  PROVE  \A q \in Procs \ {p} : Knows(q)'
<1> SUFFICES ASSUME NEW q \in Procs \ {p} PROVE Knows(q)'
  OBVIOUS
<1>1. pc'[q] = pc[q] /\ idx'[q] = idx[q] /\ txof'[q] = txof[q] /\ mfile'[q] = mfile[q]
  BY DEF OnlyMoves
<1>2. txof[q] \in Appliers
  BY DEF OwnerOK
<1>3. Knows(q)
  OBVIOUS
<1>4. \A f \in Files : Safe(txof[q], f) => Safe(txof[q], f)'
  BY <1>1, <1>2 DEF BackupsKept, Safe
<1>5. pc[q] \in MarkPc => idx[q] \in Files
  BY DEF IndexOK, LoopPc, InLoop, MarkPc
<1> QED
  BY <1>1, <1>3, <1>4, <1>5 DEF Knows, MemorySafe, BackedUpTo, Safe

\* A journal written from a safe memory is safe.
LEMMA JournalCovers ==
  ASSUME JournalOK, OwnerOK, MemoryOK', BackupCoversReplaced, NEW p \in Procs,
         JournalWritten(p) \/ JournalInterrupted(p), MemorySafe(p)',
         UNCHANGED <<txof, backup>>
  PROVE  BackupCoversReplaced'
<1>1. txof[p] \in Appliers
  BY DEF OwnerOK
<1>2. CASE JournalWritten(p)
  BY <1>1, <1>2 DEF JournalWritten, BackupCoversReplaced, MemorySafe, Safe, Covered, JournalOK, MemoryOK
<1>3. CASE JournalInterrupted(p)
  BY <1>3 DEF JournalInterrupted, BackupCoversReplaced
<1> QED BY <1>2, <1>3

\* A step of p that does not begin a recovery leaves every recovery alone.
LEMMA StaysAlone ==
  ASSUME RecoverAlone, OwnerOK, NEW p \in Procs, OnlyMoves(p),
         pc[p] \notin {"done", "crashed"}, txof'[p] = txof[p],
         p \in Recoverers /\ pc'[p] \in Journaling \union {"load"}
           => pc[p] \in Journaling \union {"load"}
  PROVE  RecoverAlone'
<1> SUFFICES ASSUME NEW r \in Recoverers, pc'[r] \in Journaling \union {"load"}
             PROVE  pc'[txof'[r]] \in {"done", "crashed"}
  BY DEF RecoverAlone
<1>1. pc[r] \in Journaling \union {"load"} /\ txof'[r] = txof[r]
  BY DEF OnlyMoves, Procs
<1>2. pc[txof[r]] \in {"done", "crashed"}
  BY <1>1 DEF RecoverAlone
<1>3. txof[r] \in Procs \ {p}
  BY <1>2 DEF OwnerOK, Procs
<1> QED BY <1>1, <1>2, <1>3 DEF OnlyMoves

\* Every step keeps the invariant.
LEMMA BackupStep == TypeOK /\ TypeOK' /\ BackupInv /\ [Next]_vars => BackupInv'
<1> SUFFICES ASSUME TypeOK, TypeOK', BackupInv, [Next]_vars PROVE BackupInv'
  OBVIOUS
<1> USE DEF TypeOK, Procs, Go, Stay, Next1, Restart, project, journal, memory, budget
<1>1. ASSUME NEW a \in Appliers, CreateLock(a) PROVE BackupInv'
  <2> USE <1>1 DEF CreateLock
  <2>1. BackupsKept
    BY DEF BackupsKept, Safe
  <2>2. OnlyMoves(a)
    BY DEF OnlyMoves, PcOK, IndexOK, OwnerOK, MemoryOK
  <2>3. pc[a] \in Journaling => MemorySafe(a)'
    BY <2>1 DEF BackupInv, Knows, MemorySafe, BackupsKept, Safe, Covered, MarkPc, Journaling, PcOK, MemoryOK, OwnerOK
  <2>4. Knows(a)'
    BY <2>1, <2>3, ConstantsAssumption DEF BackupInv, Knows, BackedUpTo, BackupsKept, Safe, Journaling, BackedUpPc, MarkPc, PcOK, IndexOK, OwnerOK, MemoryOK, InLoop, Files, Manifest, Member, File, LoopPc
  <2>5. RecoverAlone'
    BY <2>2, StaysAlone, ConstantsAssumption DEF BackupInv, Journaling, PcOK
  <2>6. BackupCoversReplaced'
    BY <2>1 DEF BackupInv, BackupCoversReplaced, BackupsKept, Safe
  <2> QED BY <2>1, <2>2, <2>4, <2>5, <2>6, OthersKnow DEF BackupInv
<1>2. ASSUME NEW a \in Appliers, Busy(a) PROVE BackupInv'
  <2> USE <1>2 DEF Busy
  <2>1. BackupsKept
    BY DEF BackupsKept, Safe
  <2>2. OnlyMoves(a)
    BY DEF OnlyMoves, PcOK, IndexOK, OwnerOK, MemoryOK
  <2>3. pc[a] \in Journaling => MemorySafe(a)'
    BY <2>1 DEF BackupInv, Knows, MemorySafe, BackupsKept, Safe, Covered, MarkPc, Journaling, PcOK, MemoryOK, OwnerOK
  <2>4. Knows(a)'
    BY <2>1, <2>3, ConstantsAssumption DEF BackupInv, Knows, BackedUpTo, BackupsKept, Safe, Journaling, BackedUpPc, MarkPc, PcOK, IndexOK, OwnerOK, MemoryOK, InLoop, Files, Manifest, Member, File, LoopPc
  <2>5. RecoverAlone'
    BY <2>2, StaysAlone, ConstantsAssumption DEF BackupInv, Journaling, PcOK
  <2>6. BackupCoversReplaced'
    BY <2>1 DEF BackupInv, BackupCoversReplaced, BackupsKept, Safe
  <2> QED BY <2>1, <2>2, <2>4, <2>5, <2>6, OthersKnow DEF BackupInv
<1>3. ASSUME NEW a \in Appliers, StampLock(a) PROVE BackupInv'
  <2> USE <1>3 DEF StampLock
  <2>1. BackupsKept
    BY DEF BackupsKept, Safe
  <2>2. OnlyMoves(a)
    BY DEF OnlyMoves, PcOK, IndexOK, OwnerOK, MemoryOK
  <2>3. pc[a] \in Journaling => MemorySafe(a)'
    BY <2>1 DEF BackupInv, Knows, MemorySafe, BackupsKept, Safe, Covered, MarkPc, Journaling, PcOK, MemoryOK, OwnerOK
  <2>4. Knows(a)'
    BY <2>1, <2>3, ConstantsAssumption DEF BackupInv, Knows, BackedUpTo, BackupsKept, Safe, Journaling, BackedUpPc, MarkPc, PcOK, IndexOK, OwnerOK, MemoryOK, InLoop, Files, Manifest, Member, File, LoopPc
  <2>5. RecoverAlone'
    BY <2>2, StaysAlone, ConstantsAssumption DEF BackupInv, Journaling, PcOK
  <2>6. BackupCoversReplaced'
    BY <2>1 DEF BackupInv, BackupCoversReplaced, BackupsKept, Safe
  <2> QED BY <2>1, <2>2, <2>4, <2>5, <2>6, OthersKnow DEF BackupInv
<1>4. ASSUME NEW a \in Appliers, Recheck(a) PROVE BackupInv'
  <2> USE <1>4 DEF Recheck
  <2>1. BackupsKept
    BY DEF BackupsKept, Safe
  <2>2. OnlyMoves(a)
    BY DEF OnlyMoves, PcOK, IndexOK, OwnerOK, MemoryOK
  <2>3. pc[a] \in Journaling => MemorySafe(a)'
    BY <2>1 DEF BackupInv, Knows, MemorySafe, BackupsKept, Safe, Covered, MarkPc, Journaling, PcOK, MemoryOK, OwnerOK
  <2>4. Knows(a)'
    BY <2>1, <2>3, ConstantsAssumption DEF BackupInv, Knows, BackedUpTo, BackupsKept, Safe, Journaling, BackedUpPc, MarkPc, PcOK, IndexOK, OwnerOK, MemoryOK, InLoop, Files, Manifest, Member, File, LoopPc
  <2>5. RecoverAlone'
    BY <2>2, StaysAlone, ConstantsAssumption DEF BackupInv, Journaling, PcOK
  <2>6. BackupCoversReplaced'
    BY <2>1 DEF BackupInv, BackupCoversReplaced, BackupsKept, Safe
  <2> QED BY <2>1, <2>2, <2>4, <2>5, <2>6, OthersKnow DEF BackupInv
<1>5. ASSUME NEW a \in Appliers, PrepareFails(a) PROVE BackupInv'
  <2> USE <1>5 DEF PrepareFails
  <2>1. BackupsKept
    BY DEF BackupsKept, Safe
  <2>2. OnlyMoves(a)
    BY DEF OnlyMoves, PcOK, IndexOK, OwnerOK, MemoryOK
  <2>3. pc[a] \in Journaling => MemorySafe(a)'
    BY <2>1 DEF BackupInv, Knows, MemorySafe, BackupsKept, Safe, Covered, MarkPc, Journaling, PcOK, MemoryOK, OwnerOK
  <2>4. Knows(a)'
    BY <2>1, <2>3, ConstantsAssumption DEF BackupInv, Knows, BackedUpTo, BackupsKept, Safe, Journaling, BackedUpPc, MarkPc, PcOK, IndexOK, OwnerOK, MemoryOK, InLoop, Files, Manifest, Member, File, LoopPc
  <2>5. RecoverAlone'
    BY <2>2, StaysAlone, ConstantsAssumption DEF BackupInv, Journaling, PcOK
  <2>6. BackupCoversReplaced'
    BY <2>1 DEF BackupInv, BackupCoversReplaced, BackupsKept, Safe
  <2> QED BY <2>1, <2>2, <2>4, <2>5, <2>6, OthersKnow DEF BackupInv
<1>6. ASSUME NEW a \in Appliers, CreateJournal(a) PROVE BackupInv'
  <2> USE <1>6 DEF CreateJournal
  <2>1. OnlyMoves(a)
    BY DEF OnlyMoves, PcOK, IndexOK, MemoryOK
  <2>2. \A q \in Recoverers : txof[q] = a => pc[q] \notin Journaling
    BY DEF BackupInv, RecoverAlone
  <2>3. ASSUME NEW q \in Procs \ {a} PROVE Knows(q)'
    <3>1. CASE txof[q] = a
      <4>1. q \in Recoverers
        BY <3>1 DEF OwnerOK
      <4> QED
        BY <2>1, <2>2, <3>1, <4>1 DEF OnlyMoves, Knows, Journaling, BackedUpPc, MarkPc
    <3>2. CASE txof[q] # a
      <4>1. \A f : Safe(txof[q], f)' <=> Safe(txof[q], f)
        BY <3>2, <2>1 DEF Safe, JournalOK, OwnerOK, OnlyMoves
      <4>2. Knows(q)
        BY DEF BackupInv
      <4> QED
        BY <2>1, <4>1, <4>2 DEF OnlyMoves, Knows, MemorySafe, BackedUpTo
    <3> QED BY <3>1, <3>2
  <2>4. \A f \in Files : mfile'[a][f] \in {"planned", "none"}
    BY DEF MemoryOK
  <2>5. idx'[a] = 1 /\ pc'[a] = "backup"
    BY DEF IndexOK, PcOK
  <2>6. Knows(a)'
    BY <2>4, <2>5 DEF Knows, MemorySafe, BackedUpTo, Covered, BackedUpPc, MarkPc, Files
  <2>7. RecoverAlone'
    BY DEF BackupInv, RecoverAlone, Journaling, PcOK, ApplyPc
  <2>8. BackupCoversReplaced'
    BY <2>4 DEF BackupInv, BackupCoversReplaced, JournalOK, MemoryOK
  <2> QED BY <2>3, <2>6, <2>7, <2>8 DEF BackupInv
<1>7. ASSUME NEW a \in Appliers, SkipBackup(a) PROVE BackupInv'
  <2> USE <1>7 DEF SkipBackup
  <2>1. BackupsKept
    BY DEF BackupsKept, Safe
  <2>2. OnlyMoves(a)
    BY DEF OnlyMoves, PcOK, IndexOK, OwnerOK, MemoryOK
  <2>3. pc[a] \in Journaling => MemorySafe(a)'
    BY <2>1 DEF BackupInv, Knows, MemorySafe, BackupsKept, Safe, Covered, MarkPc, Journaling, PcOK, MemoryOK, OwnerOK
  <2>4. Knows(a)'
    <3>1. \A f \in Files : f < idx'[a] => f < idx[a] \/ f = File(a)
      BY DEF IndexOK, Files, Manifest, File
    <3>2. mfile[a][File(a)] # "none" => Safe(a, File(a))
      BY DEF Member, Old, Safe, OwnerOK
    <3>3. BackedUpTo(a, idx[a])
      BY DEF BackupInv, Knows
    <3>4. BackedUpTo(a, idx[a])'
      BY <2>1, <3>1, <3>2, <3>3 DEF BackedUpTo, BackupsKept, OwnerOK, Safe
    <3> QED
      BY <2>3, <3>4 DEF Knows, BackedUpPc, MarkPc, Journaling
  <2>5. RecoverAlone'
    BY <2>2, StaysAlone, ConstantsAssumption DEF BackupInv, Journaling, PcOK
  <2>6. BackupCoversReplaced'
    BY <2>1 DEF BackupInv, BackupCoversReplaced, BackupsKept, Safe
  <2> QED BY <2>1, <2>2, <2>4, <2>5, <2>6, OthersKnow DEF BackupInv
<1>8. ASSUME NEW a \in Appliers, BackUp(a) PROVE BackupInv'
  <2> USE <1>8 DEF BackUp
  <2>1. BackupsKept
    BY DEF BackupsKept, Safe, BackupOK, OwnerOK, Old, Now, File
  <2>2. OnlyMoves(a)
    BY DEF OnlyMoves, PcOK, IndexOK, OwnerOK, MemoryOK
  <2>3. pc[a] \in Journaling => MemorySafe(a)'
    BY <2>1 DEF BackupInv, Knows, MemorySafe, BackupsKept, Safe, Covered, MarkPc, Journaling, PcOK, MemoryOK, OwnerOK
  <2>4. Knows(a)'
    <3>1. pc'[a] \in {"backup_mark", "abort"} /\ idx'[a] = idx[a]
      BY DEF PcOK, IndexOK
    <3>2. BackedUpTo(a, idx[a])
      BY DEF BackupInv, Knows
    <3>3. BackedUpTo(a, idx[a])'
      BY <2>1, <3>1, <3>2 DEF BackedUpTo, BackupsKept, OwnerOK, Safe
    <3>4. pc'[a] = "backup_mark" => Safe(a, File(a))'
      BY DEF Safe, Old, Now, BackupOK, OwnerOK, PcOK, File, InLoop, JournalOK
    <3> QED
      BY <2>3, <3>1, <3>3, <3>4 DEF Knows, BackedUpPc, MarkPc, Journaling, OwnerOK, File
  <2>5. RecoverAlone'
    BY <2>2, StaysAlone, ConstantsAssumption DEF BackupInv, Journaling, PcOK
  <2>6. BackupCoversReplaced'
    BY <2>1 DEF BackupInv, BackupCoversReplaced, BackupsKept, Safe
  <2> QED BY <2>1, <2>2, <2>4, <2>5, <2>6, OthersKnow DEF BackupInv
<1>9. ASSUME NEW a \in Appliers, MarkBackedUp(a) PROVE BackupInv'
  <2> USE <1>9 DEF MarkBackedUp
  <2>1. BackupsKept
    BY DEF BackupsKept, Safe, JournalWritten, JournalFails, JournalInterrupted
  <2>2. OnlyMoves(a)
    BY DEF OnlyMoves, PcOK, IndexOK, OwnerOK, MemoryOK, Mark
  <2>3. pc[a] \in Journaling => MemorySafe(a)'
    BY <2>1 DEF BackupInv, Knows, MemorySafe, BackupsKept, Safe, Covered, MarkPc, Journaling, PcOK, MemoryOK, OwnerOK, Mark, File, InLoop, IndexOK, LoopPc, Remember
  <2>4. Knows(a)'
    <3>1. \A f \in Files : f < idx'[a] => f < idx[a] \/ f = File(a)
      BY DEF IndexOK, Files, Manifest, File
    <3>2. Safe(a, File(a))
      BY DEF BackupInv, Knows, MarkPc, File, OwnerOK
    <3>3. BackedUpTo(a, idx[a])
      BY DEF BackupInv, Knows
    <3>4. \A f \in Files : mfile'[a][f] # "none" => mfile[a][f] # "none" \/ f = File(a)
      BY DEF Mark, MemoryOK
    <3>5. BackedUpTo(a, idx[a])'
      BY <2>1, <3>1, <3>2, <3>3, <3>4 DEF BackedUpTo, BackupsKept, OwnerOK, Safe
    <3>6. pc'[a] \in {"backup", "abort"}
      BY DEF PcOK
    <3> QED
      BY <2>3, <3>5, <3>6 DEF Knows, BackedUpPc, MarkPc, Journaling
  <2>5. RecoverAlone'
    BY <2>2, StaysAlone, ConstantsAssumption DEF BackupInv, Journaling, PcOK
  <2>6. BackupCoversReplaced'
    BY <2>3, JournalCovers DEF BackupInv, JournalFails, Journaling
  <2> QED BY <2>1, <2>2, <2>4, <2>5, <2>6, OthersKnow DEF BackupInv
<1>10. ASSUME NEW a \in Appliers, BeginWriting(a) PROVE BackupInv'
  <2> USE <1>10 DEF BeginWriting
  <2>1. BackupsKept
    BY DEF BackupsKept, Safe, JournalWritten, JournalFails, JournalInterrupted
  <2>2. OnlyMoves(a)
    BY DEF OnlyMoves, PcOK, IndexOK, OwnerOK, MemoryOK
  <2>3. pc[a] \in Journaling => MemorySafe(a)'
    BY <2>1 DEF BackupInv, Knows, MemorySafe, BackupsKept, Safe, Covered, MarkPc, Journaling, PcOK, MemoryOK, OwnerOK, Remember
  <2>4. Knows(a)'
    <3>1. idx[a] = NumFiles + 2
      BY ConstantsAssumption DEF IndexOK, InLoop, Files
    <3>2. BackedUpTo(a, NumFiles + 2)
      BY <3>1 DEF BackupInv, Knows
    <3>3. BackedUpTo(a, NumFiles + 2)'
      BY <2>1, <3>2 DEF BackedUpTo, BackupsKept, OwnerOK, Safe
    <3>4. pc'[a] \in {"write", "release"}
      BY DEF PcOK
    <3> QED
      BY <2>3, <3>3, <3>4 DEF Knows, BackedUpPc, MarkPc, Journaling
  <2>5. RecoverAlone'
    BY <2>2, StaysAlone, ConstantsAssumption DEF BackupInv, Journaling, PcOK
  <2>6. BackupCoversReplaced'
    BY <2>3, JournalCovers DEF BackupInv, JournalFails, Journaling
  <2> QED BY <2>1, <2>2, <2>4, <2>5, <2>6, OthersKnow DEF BackupInv
<1>11. ASSUME NEW a \in Appliers, SkipWrite(a) PROVE BackupInv'
  <2> USE <1>11 DEF SkipWrite
  <2>1. BackupsKept
    BY DEF BackupsKept, Safe
  <2>2. OnlyMoves(a)
    BY DEF OnlyMoves, PcOK, IndexOK, OwnerOK, MemoryOK
  <2>3. pc[a] \in Journaling => MemorySafe(a)'
    BY <2>1 DEF BackupInv, Knows, MemorySafe, BackupsKept, Safe, Covered, MarkPc, Journaling, PcOK, MemoryOK, OwnerOK
  <2>4. Knows(a)'
    <3>1. BackedUpTo(a, NumFiles + 2)
      BY DEF BackupInv, Knows, BackedUpPc
    <3>2. BackedUpTo(a, NumFiles + 2)'
      BY <2>1, <3>1 DEF BackedUpTo, BackupsKept, OwnerOK, Safe
    <3> QED
      BY <2>3, <3>2 DEF Knows, BackedUpPc, MarkPc, Journaling
  <2>5. RecoverAlone'
    BY <2>2, StaysAlone, ConstantsAssumption DEF BackupInv, Journaling, PcOK
  <2>6. BackupCoversReplaced'
    BY <2>1 DEF BackupInv, BackupCoversReplaced, BackupsKept, Safe
  <2> QED BY <2>1, <2>2, <2>4, <2>5, <2>6, OthersKnow DEF BackupInv
<1>12. ASSUME NEW a \in Appliers, CheckOld(a) PROVE BackupInv'
  <2> USE <1>12 DEF CheckOld
  <2>1. BackupsKept
    BY DEF BackupsKept, Safe
  <2>2. OnlyMoves(a)
    BY DEF OnlyMoves, PcOK, IndexOK, OwnerOK, MemoryOK
  <2>3. pc[a] \in Journaling => MemorySafe(a)'
    BY <2>1 DEF BackupInv, Knows, MemorySafe, BackupsKept, Safe, Covered, MarkPc, Journaling, PcOK, MemoryOK, OwnerOK
  <2>4. Knows(a)'
    BY <2>1, <2>3, ConstantsAssumption DEF BackupInv, Knows, BackedUpTo, BackupsKept, Safe, Journaling, BackedUpPc, MarkPc, PcOK, IndexOK, OwnerOK, MemoryOK, InLoop, Files, Manifest, Member, File, LoopPc
  <2>5. RecoverAlone'
    BY <2>2, StaysAlone, ConstantsAssumption DEF BackupInv, Journaling, PcOK
  <2>6. BackupCoversReplaced'
    BY <2>1 DEF BackupInv, BackupCoversReplaced, BackupsKept, Safe
  <2> QED BY <2>1, <2>2, <2>4, <2>5, <2>6, OthersKnow DEF BackupInv
<1>13. ASSUME NEW a \in Appliers, MarkReplaced(a) PROVE BackupInv'
  <2> USE <1>13 DEF MarkReplaced
  <2>1. BackupsKept
    BY DEF BackupsKept, Safe, JournalWritten, JournalFails, JournalInterrupted
  <2>2. OnlyMoves(a)
    BY DEF OnlyMoves, PcOK, IndexOK, OwnerOK, MemoryOK, Mark
  <2>3. pc[a] \in Journaling => MemorySafe(a)'
    BY <2>1 DEF BackupInv, Knows, MemorySafe, BackupsKept, Safe, Covered, MarkPc, Journaling, PcOK, MemoryOK, OwnerOK, Mark, File, InLoop, IndexOK, LoopPc, Remember
  <2>4. Knows(a)'
    <3>1. BackedUpTo(a, NumFiles + 2) /\ Safe(a, File(a))
      BY DEF BackupInv, Knows, BackedUpPc, MarkPc, File, OwnerOK
    <3>2. \A f \in Files : mfile'[a][f] # "none" => mfile[a][f] # "none" \/ f = File(a)
      BY DEF Mark, MemoryOK
    <3>3. BackedUpTo(a, NumFiles + 2)'
      BY <2>1, <3>1, <3>2 DEF BackedUpTo, BackupsKept, OwnerOK, Safe
    <3>4. pc'[a] \in {"replace", "abort"}
      BY DEF PcOK
    <3> QED
      BY <2>3, <3>3, <3>4 DEF Knows, BackedUpPc, MarkPc, Journaling
  <2>5. RecoverAlone'
    BY <2>2, StaysAlone, ConstantsAssumption DEF BackupInv, Journaling, PcOK
  <2>6. BackupCoversReplaced'
    BY <2>3, JournalCovers DEF BackupInv, JournalFails, Journaling
  <2> QED BY <2>1, <2>2, <2>4, <2>5, <2>6, OthersKnow DEF BackupInv
<1>14. ASSUME NEW a \in Appliers, Replace(a) PROVE BackupInv'
  <2> USE <1>14 DEF Replace
  <2>1. BackupsKept
    BY DEF BackupsKept, Safe
  <2>2. OnlyMoves(a)
    BY DEF OnlyMoves, PcOK, IndexOK, OwnerOK, MemoryOK
  <2>3. pc[a] \in Journaling => MemorySafe(a)'
    BY <2>1 DEF BackupInv, Knows, MemorySafe, BackupsKept, Safe, Covered, MarkPc, Journaling, PcOK, MemoryOK, OwnerOK
  <2>4. Knows(a)'
    BY <2>1, <2>3, ConstantsAssumption DEF BackupInv, Knows, BackedUpTo, BackupsKept, Safe, Journaling, BackedUpPc, MarkPc, PcOK, IndexOK, OwnerOK, MemoryOK, InLoop, Files, Manifest, Member, File, LoopPc
  <2>5. RecoverAlone'
    BY <2>2, StaysAlone, ConstantsAssumption DEF BackupInv, Journaling, PcOK
  <2>6. BackupCoversReplaced'
    BY <2>1 DEF BackupInv, BackupCoversReplaced, BackupsKept, Safe
  <2> QED BY <2>1, <2>2, <2>4, <2>5, <2>6, OthersKnow DEF BackupInv
<1>15. ASSUME NEW a \in Appliers, Rename(a) PROVE BackupInv'
  <2> USE <1>15 DEF Rename
  <2>1. BackupsKept
    BY DEF BackupsKept, Safe
  <2>2. OnlyMoves(a)
    BY DEF OnlyMoves, PcOK, IndexOK, OwnerOK, MemoryOK
  <2>3. pc[a] \in Journaling => MemorySafe(a)'
    BY <2>1 DEF BackupInv, Knows, MemorySafe, BackupsKept, Safe, Covered, MarkPc, Journaling, PcOK, MemoryOK, OwnerOK
  <2>4. Knows(a)'
    BY <2>1, <2>3, ConstantsAssumption DEF BackupInv, Knows, BackedUpTo, BackupsKept, Safe, Journaling, BackedUpPc, MarkPc, PcOK, IndexOK, OwnerOK, MemoryOK, InLoop, Files, Manifest, Member, File, LoopPc
  <2>5. RecoverAlone'
    BY <2>2, StaysAlone, ConstantsAssumption DEF BackupInv, Journaling, PcOK
  <2>6. BackupCoversReplaced'
    BY <2>1 DEF BackupInv, BackupCoversReplaced, BackupsKept, Safe
  <2> QED BY <2>1, <2>2, <2>4, <2>5, <2>6, OthersKnow DEF BackupInv
<1>16. ASSUME NEW a \in Appliers, Confirm(a) PROVE BackupInv'
  <2> USE <1>16 DEF Confirm
  <2>1. BackupsKept
    BY DEF BackupsKept, Safe
  <2>2. OnlyMoves(a)
    BY DEF OnlyMoves, PcOK, IndexOK, OwnerOK, MemoryOK
  <2>3. pc[a] \in Journaling => MemorySafe(a)'
    BY <2>1 DEF BackupInv, Knows, MemorySafe, BackupsKept, Safe, Covered, MarkPc, Journaling, PcOK, MemoryOK, OwnerOK
  <2>4. Knows(a)'
    BY <2>1, <2>3, ConstantsAssumption, SMTT(30) DEF BackupInv, Knows, BackedUpTo, BackupsKept, Safe, Journaling, BackedUpPc, MarkPc, PcOK, IndexOK, OwnerOK, MemoryOK, InLoop, Files, Manifest, Member, File, LoopPc
  <2>5. RecoverAlone'
    BY <2>2, StaysAlone, ConstantsAssumption DEF BackupInv, Journaling, PcOK
  <2>6. BackupCoversReplaced'
    BY <2>1 DEF BackupInv, BackupCoversReplaced, BackupsKept, Safe
  <2> QED BY <2>1, <2>2, <2>4, <2>5, <2>6, OthersKnow DEF BackupInv
<1>17. ASSUME NEW a \in Appliers, Verify(a) PROVE BackupInv'
  <2> USE <1>17 DEF Verify
  <2>1. BackupsKept
    BY DEF BackupsKept, Safe
  <2>2. OnlyMoves(a)
    BY DEF OnlyMoves, PcOK, IndexOK, OwnerOK, MemoryOK
  <2>3. pc[a] \in Journaling => MemorySafe(a)'
    BY <2>1 DEF BackupInv, Knows, MemorySafe, BackupsKept, Safe, Covered, MarkPc, Journaling, PcOK, MemoryOK, OwnerOK
  <2>4. Knows(a)'
    BY <2>1, <2>3, ConstantsAssumption DEF BackupInv, Knows, BackedUpTo, BackupsKept, Safe, Journaling, BackedUpPc, MarkPc, PcOK, IndexOK, OwnerOK, MemoryOK, InLoop, Files, Manifest, Member, File, LoopPc
  <2>5. RecoverAlone'
    BY <2>2, StaysAlone, ConstantsAssumption DEF BackupInv, Journaling, PcOK
  <2>6. BackupCoversReplaced'
    BY <2>1 DEF BackupInv, BackupCoversReplaced, BackupsKept, Safe
  <2> QED BY <2>1, <2>2, <2>4, <2>5, <2>6, OthersKnow DEF BackupInv
<1>18. ASSUME NEW a \in Appliers, BeginValidating(a) PROVE BackupInv'
  <2> USE <1>18 DEF BeginValidating
  <2>1. BackupsKept
    BY DEF BackupsKept, Safe, JournalWritten, JournalFails, JournalInterrupted
  <2>2. OnlyMoves(a)
    BY DEF OnlyMoves, PcOK, IndexOK, OwnerOK, MemoryOK
  <2>3. pc[a] \in Journaling => MemorySafe(a)'
    BY <2>1 DEF BackupInv, Knows, MemorySafe, BackupsKept, Safe, Covered, MarkPc, Journaling, PcOK, MemoryOK, OwnerOK, Remember
  <2>4. Knows(a)'
    BY <2>1, <2>3, ConstantsAssumption DEF BackupInv, Knows, BackedUpTo, BackupsKept, Safe, Journaling, BackedUpPc, MarkPc, PcOK, IndexOK, OwnerOK, MemoryOK, InLoop, Files, Manifest, Member, File, LoopPc
  <2>5. RecoverAlone'
    BY <2>2, StaysAlone, ConstantsAssumption DEF BackupInv, Journaling, PcOK
  <2>6. BackupCoversReplaced'
    BY <2>3, JournalCovers DEF BackupInv, JournalFails, Journaling
  <2> QED BY <2>1, <2>2, <2>4, <2>5, <2>6, OthersKnow DEF BackupInv
<1>19. ASSUME NEW a \in Appliers, Validate(a) PROVE BackupInv'
  <2> USE <1>19 DEF Validate
  <2>1. BackupsKept
    BY DEF BackupsKept, Safe
  <2>2. OnlyMoves(a)
    BY DEF OnlyMoves, PcOK, IndexOK, OwnerOK, MemoryOK
  <2>3. pc[a] \in Journaling => MemorySafe(a)'
    BY <2>1 DEF BackupInv, Knows, MemorySafe, BackupsKept, Safe, Covered, MarkPc, Journaling, PcOK, MemoryOK, OwnerOK
  <2>4. Knows(a)'
    BY <2>1, <2>3, ConstantsAssumption DEF BackupInv, Knows, BackedUpTo, BackupsKept, Safe, Journaling, BackedUpPc, MarkPc, PcOK, IndexOK, OwnerOK, MemoryOK, InLoop, Files, Manifest, Member, File, LoopPc
  <2>5. RecoverAlone'
    BY <2>2, StaysAlone, ConstantsAssumption DEF BackupInv, Journaling, PcOK
  <2>6. BackupCoversReplaced'
    BY <2>1 DEF BackupInv, BackupCoversReplaced, BackupsKept, Safe
  <2> QED BY <2>1, <2>2, <2>4, <2>5, <2>6, OthersKnow DEF BackupInv
<1>20. ASSUME NEW a \in Appliers, Commit(a) PROVE BackupInv'
  <2> USE <1>20 DEF Commit
  <2>1. BackupsKept
    BY DEF BackupsKept, Safe, JournalWritten, JournalFails, JournalInterrupted
  <2>2. OnlyMoves(a)
    BY DEF OnlyMoves, PcOK, IndexOK, OwnerOK, MemoryOK
  <2>3. pc[a] \in Journaling => MemorySafe(a)'
    BY <2>1 DEF BackupInv, Knows, MemorySafe, BackupsKept, Safe, Covered, MarkPc, Journaling, PcOK, MemoryOK, OwnerOK, Remember
  <2>4. Knows(a)'
    BY <2>1, <2>3, ConstantsAssumption DEF BackupInv, Knows, BackedUpTo, BackupsKept, Safe, Journaling, BackedUpPc, MarkPc, PcOK, IndexOK, OwnerOK, MemoryOK, InLoop, Files, Manifest, Member, File, LoopPc
  <2>5. RecoverAlone'
    BY <2>2, StaysAlone, ConstantsAssumption DEF BackupInv, Journaling, PcOK
  <2>6. BackupCoversReplaced'
    BY <2>3, JournalCovers DEF BackupInv, JournalFails, Journaling
  <2> QED BY <2>1, <2>2, <2>4, <2>5, <2>6, OthersKnow DEF BackupInv
<1>21. ASSUME NEW a \in Appliers, Abort(a) PROVE BackupInv'
  <2> USE <1>21 DEF Abort
  <2>1. BackupsKept
    BY DEF BackupsKept, Safe, JournalWritten, JournalFails, JournalInterrupted
  <2>2. OnlyMoves(a)
    BY DEF OnlyMoves, PcOK, IndexOK, OwnerOK, MemoryOK
  <2>3. pc[a] \in Journaling => MemorySafe(a)'
    BY <2>1 DEF BackupInv, Knows, MemorySafe, BackupsKept, Safe, Covered, MarkPc, Journaling, PcOK, MemoryOK, OwnerOK, Remember
  <2>4. Knows(a)'
    BY <2>1, <2>3, ConstantsAssumption DEF BackupInv, Knows, BackedUpTo, BackupsKept, Safe, Journaling, BackedUpPc, MarkPc, PcOK, IndexOK, OwnerOK, MemoryOK, InLoop, Files, Manifest, Member, File, LoopPc
  <2>5. RecoverAlone'
    BY <2>2, StaysAlone, ConstantsAssumption DEF BackupInv, Journaling, PcOK
  <2>6. BackupCoversReplaced'
    BY <2>3, JournalCovers DEF BackupInv, JournalFails, Journaling
  <2> QED BY <2>1, <2>2, <2>4, <2>5, <2>6, OthersKnow DEF BackupInv
<1>22. ASSUME NEW a \in Appliers, Release(a) PROVE BackupInv'
  <2> USE <1>22 DEF Release
  <2>1. BackupsKept
    BY DEF BackupsKept, Safe
  <2>2. OnlyMoves(a)
    BY DEF OnlyMoves, PcOK, IndexOK, OwnerOK, MemoryOK
  <2>3. pc[a] \in Journaling => MemorySafe(a)'
    BY <2>1 DEF BackupInv, Knows, MemorySafe, BackupsKept, Safe, Covered, MarkPc, Journaling, PcOK, MemoryOK, OwnerOK
  <2>4. Knows(a)'
    BY <2>1, <2>3, ConstantsAssumption DEF BackupInv, Knows, BackedUpTo, BackupsKept, Safe, Journaling, BackedUpPc, MarkPc, PcOK, IndexOK, OwnerOK, MemoryOK, InLoop, Files, Manifest, Member, File, LoopPc
  <2>5. RecoverAlone'
    BY <2>2, StaysAlone, ConstantsAssumption DEF BackupInv, Journaling, PcOK
  <2>6. BackupCoversReplaced'
    BY <2>1 DEF BackupInv, BackupCoversReplaced, BackupsKept, Safe
  <2> QED BY <2>1, <2>2, <2>4, <2>5, <2>6, OthersKnow DEF BackupInv
<1>23. ASSUME NEW p \in Procs, Load(p) PROVE BackupInv'
  <2> USE <1>23 DEF Load
  <2>1. BackupsKept
    BY DEF BackupsKept, Safe
  <2>2. OnlyMoves(p)
    BY DEF OnlyMoves, PcOK, IndexOK, OwnerOK, MemoryOK
  <2>3. pc'[p] \in Journaling => MemorySafe(p)'
    BY <2>1 DEF BackupInv, BackupCoversReplaced, MemorySafe, Safe, Covered, Journaling, PcOK, MemoryOK, OwnerOK, Failed, Closing
  <2>4. Knows(p)'
    BY <2>1, <2>3, ConstantsAssumption DEF BackupInv, Knows, BackedUpTo, BackupsKept, Safe, Journaling, BackedUpPc, MarkPc, PcOK, IndexOK, OwnerOK, MemoryOK, InLoop, Files, Manifest, Member, File, LoopPc, Failed, Closing
  <2>5. RecoverAlone'
    BY <2>2, StaysAlone, ConstantsAssumption DEF BackupInv, Journaling, PcOK, Failed, Closing
  <2>6. BackupCoversReplaced'
    BY <2>1 DEF BackupInv, BackupCoversReplaced, BackupsKept, Safe
  <2> QED BY <2>1, <2>2, <2>4, <2>5, <2>6, OthersKnow DEF BackupInv
<1>24. ASSUME NEW p \in Procs, SkipRestore(p) PROVE BackupInv'
  <2> USE <1>24 DEF SkipRestore
  <2>1. BackupsKept
    BY DEF BackupsKept, Safe
  <2>2. OnlyMoves(p)
    BY DEF OnlyMoves, PcOK, IndexOK, OwnerOK, MemoryOK
  <2>3. pc[p] \in Journaling => MemorySafe(p)'
    BY <2>1 DEF BackupInv, Knows, MemorySafe, BackupsKept, Safe, Covered, MarkPc, Journaling, PcOK, MemoryOK, OwnerOK
  <2>4. Knows(p)'
    BY <2>1, <2>3, ConstantsAssumption DEF BackupInv, Knows, BackedUpTo, BackupsKept, Safe, Journaling, BackedUpPc, MarkPc, PcOK, IndexOK, OwnerOK, MemoryOK, InLoop, Files, Manifest, Member, File, LoopPc
  <2>5. RecoverAlone'
    BY <2>2, StaysAlone, ConstantsAssumption DEF BackupInv, Journaling, PcOK
  <2>6. BackupCoversReplaced'
    BY <2>1 DEF BackupInv, BackupCoversReplaced, BackupsKept, Safe
  <2> QED BY <2>1, <2>2, <2>4, <2>5, <2>6, OthersKnow DEF BackupInv
<1>25. ASSUME NEW p \in Procs, Settle(p) PROVE BackupInv'
  <2> USE <1>25 DEF Settle
  <2>1. BackupsKept
    BY DEF BackupsKept, Safe
  <2>2. OnlyMoves(p)
    BY DEF OnlyMoves, PcOK, IndexOK, OwnerOK, MemoryOK, Mark
  <2>3. pc[p] \in Journaling => MemorySafe(p)'
    BY <2>1 DEF BackupInv, Knows, MemorySafe, BackupsKept, Safe, Covered, MarkPc, Journaling, PcOK, MemoryOK, OwnerOK, Mark, File, InLoop, IndexOK, LoopPc
  <2>4. Knows(p)'
    BY <2>1, <2>3, ConstantsAssumption DEF BackupInv, Knows, BackedUpTo, BackupsKept, Safe, Journaling, BackedUpPc, MarkPc, PcOK, IndexOK, OwnerOK, MemoryOK, InLoop, Files, Manifest, Member, File, LoopPc, Mark, MemorySafe, Covered
  <2>5. RecoverAlone'
    BY <2>2, StaysAlone, ConstantsAssumption DEF BackupInv, Journaling, PcOK
  <2>6. BackupCoversReplaced'
    BY <2>1 DEF BackupInv, BackupCoversReplaced, BackupsKept, Safe
  <2> QED BY <2>1, <2>2, <2>4, <2>5, <2>6, OthersKnow DEF BackupInv
<1>26. ASSUME NEW p \in Procs, ChooseRestore(p) PROVE BackupInv'
  <2> USE <1>26 DEF ChooseRestore
  <2>1. BackupsKept
    BY DEF BackupsKept, Safe
  <2>2. OnlyMoves(p)
    BY DEF OnlyMoves, PcOK, IndexOK, OwnerOK, MemoryOK
  <2>3. pc[p] \in Journaling => MemorySafe(p)'
    BY <2>1 DEF BackupInv, Knows, MemorySafe, BackupsKept, Safe, Covered, MarkPc, Journaling, PcOK, MemoryOK, OwnerOK
  <2>4. Knows(p)'
    BY <2>1, <2>3, ConstantsAssumption DEF BackupInv, Knows, BackedUpTo, BackupsKept, Safe, Journaling, BackedUpPc, MarkPc, PcOK, IndexOK, OwnerOK, MemoryOK, InLoop, Files, Manifest, Member, File, LoopPc, MemorySafe, Covered
  <2>5. RecoverAlone'
    BY <2>2, StaysAlone, ConstantsAssumption DEF BackupInv, Journaling, PcOK
  <2>6. BackupCoversReplaced'
    BY <2>1 DEF BackupInv, BackupCoversReplaced, BackupsKept, Safe
  <2> QED BY <2>1, <2>2, <2>4, <2>5, <2>6, OthersKnow DEF BackupInv
<1>27. ASSUME NEW p \in Procs, PutBack(p) PROVE BackupInv'
  <2> USE <1>27 DEF PutBack
  <2>1. BackupsKept
    BY DEF BackupsKept, Safe
  <2>2. OnlyMoves(p)
    BY DEF OnlyMoves, PcOK, IndexOK, OwnerOK, MemoryOK, Mark
  <2>3. pc[p] \in Journaling => MemorySafe(p)'
    BY <2>1 DEF BackupInv, Knows, MemorySafe, BackupsKept, Safe, Covered, MarkPc, Journaling, PcOK, MemoryOK, OwnerOK, Mark, File, InLoop, IndexOK, LoopPc
  <2>4. Knows(p)'
    <3>1. Safe(txof[p], idx[p])
      BY DEF BackupInv, Knows, MarkPc
    <3>2. (pc'[p] = "put_rename" /\ idx'[p] = idx[p]) \/ pc'[p] = "restore"
      BY DEF PcOK, IndexOK
    <3>3. pc'[p] = "put_rename" => Safe(txof[p], idx[p])'
      BY <3>1, <3>2 DEF Safe
    <3> QED
      BY <2>3, <3>2, <3>3 DEF Knows, BackedUpPc, MarkPc, Journaling, Safe
  <2>5. RecoverAlone'
    BY <2>2, StaysAlone, ConstantsAssumption DEF BackupInv, Journaling, PcOK
  <2>6. BackupCoversReplaced'
    BY <2>1 DEF BackupInv, BackupCoversReplaced, BackupsKept, Safe
  <2> QED BY <2>1, <2>2, <2>4, <2>5, <2>6, OthersKnow DEF BackupInv
<1>28. ASSUME NEW p \in Procs, PutRename(p) PROVE BackupInv'
  <2> USE <1>28 DEF PutRename
  <2>1. BackupsKept
    BY DEF BackupsKept, Safe
  <2>2. OnlyMoves(p)
    BY DEF OnlyMoves, PcOK, IndexOK, OwnerOK, MemoryOK, Mark
  <2>3. pc[p] \in Journaling => MemorySafe(p)'
    BY <2>1 DEF BackupInv, Knows, MemorySafe, BackupsKept, Safe, Covered, MarkPc, Journaling, PcOK, MemoryOK, OwnerOK, Mark, File, InLoop, IndexOK, LoopPc
  <2>4. Knows(p)'
    BY <2>1, <2>3, ConstantsAssumption DEF BackupInv, Knows, BackedUpTo, BackupsKept, Safe, Journaling, BackedUpPc, MarkPc, PcOK, IndexOK, OwnerOK, MemoryOK, InLoop, Files, Manifest, Member, File, LoopPc, Mark
  <2>5. RecoverAlone'
    BY <2>2, StaysAlone, ConstantsAssumption DEF BackupInv, Journaling, PcOK
  <2>6. BackupCoversReplaced'
    BY <2>1 DEF BackupInv, BackupCoversReplaced, BackupsKept, Safe
  <2> QED BY <2>1, <2>2, <2>4, <2>5, <2>6, OthersKnow DEF BackupInv
<1>29. ASSUME NEW p \in Procs, Conclude(p) PROVE BackupInv'
  <2> USE <1>29 DEF Conclude
  <2>1. BackupsKept
    BY DEF BackupsKept, Safe, JournalWritten, JournalFails, JournalInterrupted
  <2>2. OnlyMoves(p)
    BY DEF OnlyMoves, PcOK, IndexOK, OwnerOK, MemoryOK
  <2>3. pc[p] \in Journaling => MemorySafe(p)'
    BY <2>1 DEF BackupInv, Knows, MemorySafe, BackupsKept, Safe, Covered, MarkPc, Journaling, PcOK, MemoryOK, OwnerOK, Failed, Closing, Remember
  <2>4. Knows(p)'
    BY <2>1, <2>3, ConstantsAssumption DEF BackupInv, Knows, BackedUpTo, BackupsKept, Safe, Journaling, BackedUpPc, MarkPc, PcOK, IndexOK, OwnerOK, MemoryOK, InLoop, Files, Manifest, Member, File, LoopPc, Failed, Closing
  <2>5. RecoverAlone'
    BY <2>2, StaysAlone, ConstantsAssumption DEF BackupInv, Journaling, PcOK, Failed, Closing
  <2>6. BackupCoversReplaced'
    BY <2>3, JournalCovers DEF BackupInv, JournalFails, Journaling
  <2> QED BY <2>1, <2>2, <2>4, <2>5, <2>6, OthersKnow DEF BackupInv
<1>30. ASSUME NEW r \in Recoverers, ReadOwner(r) PROVE BackupInv'
  <2> USE <1>30 DEF ReadOwner
  <2>1. BackupsKept
    BY DEF BackupsKept, Safe
  <2>2. OnlyMoves(r)
    BY DEF OnlyMoves, PcOK, IndexOK, OwnerOK, MemoryOK
  <2>3. pc[r] \in Journaling => MemorySafe(r)'
    BY <2>1 DEF BackupInv, Knows, MemorySafe, BackupsKept, Safe, Covered, MarkPc, Journaling, PcOK, MemoryOK, OwnerOK
  <2>4. Knows(r)'
    BY <2>1, <2>3, ConstantsAssumption DEF BackupInv, Knows, BackedUpTo, BackupsKept, Safe, Journaling, BackedUpPc, MarkPc, PcOK, IndexOK, OwnerOK, MemoryOK, InLoop, Files, Manifest, Member, File, LoopPc
  <2>5. RecoverAlone'
    BY <2>2, StaysAlone, ConstantsAssumption DEF BackupInv, Journaling, PcOK
  <2>6. BackupCoversReplaced'
    BY <2>1 DEF BackupInv, BackupCoversReplaced, BackupsKept, Safe
  <2> QED BY <2>1, <2>2, <2>4, <2>5, <2>6, OthersKnow DEF BackupInv
<1>31. ASSUME NEW r \in Recoverers, Unlink(r) PROVE BackupInv'
  <2> USE <1>31 DEF Unlink
  <2>1. BackupsKept
    BY DEF BackupsKept, Safe
  <2>2. OnlyMoves(r)
    BY DEF OnlyMoves, PcOK, IndexOK, OwnerOK, MemoryOK
  <2>3. pc[r] \in Journaling => MemorySafe(r)'
    BY <2>1 DEF BackupInv, Knows, MemorySafe, BackupsKept, Safe, Covered, MarkPc, Journaling, PcOK, MemoryOK, OwnerOK
  <2>4. Knows(r)'
    BY <2>1, <2>3, ConstantsAssumption DEF BackupInv, Knows, BackedUpTo, BackupsKept, Safe, Journaling, BackedUpPc, MarkPc, PcOK, IndexOK, OwnerOK, MemoryOK, InLoop, Files, Manifest, Member, File, LoopPc
  <2>5. RecoverAlone'
    BY <2>2, StaysAlone, ConstantsAssumption DEF BackupInv, Journaling, PcOK
  <2>6. BackupCoversReplaced'
    BY <2>1 DEF BackupInv, BackupCoversReplaced, BackupsKept, Safe
  <2> QED BY <2>1, <2>2, <2>4, <2>5, <2>6, OthersKnow DEF BackupInv
<1>32. ASSUME NEW a \in Appliers, NEW v \in Versions, Plan(a, v) PROVE BackupInv'
  <2> USE <1>32 DEF Plan
  <2>1. BackupsKept /\ OnlyMoves(a)
    BY DEF BackupsKept, Safe, OnlyMoves, PcOK
  <2>2. Knows(a)'
    BY DEF Knows, Journaling, BackedUpPc, MarkPc, PcOK
  <2>3. RecoverAlone'
    BY <2>1, StaysAlone, ConstantsAssumption DEF BackupInv
  <2>4. BackupCoversReplaced'
    BY DEF BackupInv, BackupCoversReplaced
  <2> QED BY <2>1, <2>2, <2>3, <2>4, OthersKnow DEF BackupInv
<1>33. ASSUME NEW r \in Recoverers, NEW t \in Appliers, StartRecover(r, t) PROVE BackupInv'
  <2> USE <1>33 DEF StartRecover
  <2>1. BackupsKept /\ OnlyMoves(r)
    BY DEF BackupsKept, Safe, OnlyMoves, PcOK, OwnerOK
  <2>2. Knows(r)'
    BY DEF Knows, Journaling, BackedUpPc, MarkPc, PcOK
  <2>3. RecoverAlone'
    BY ConstantsAssumption DEF BackupInv, RecoverAlone, PcOK, OwnerOK
  <2>4. BackupCoversReplaced'
    BY DEF BackupInv, BackupCoversReplaced
  <2> QED BY <2>1, <2>2, <2>3, <2>4, OthersKnow DEF BackupInv
<1>34. ASSUME NEW p \in Procs, Crash(p) PROVE BackupInv'
  <2> USE <1>34 DEF Crash
  <2>1. UNCHANGED <<old, jfile, backup, txof>>
    BY DEF JournalInterrupted
  <2>2. BackupsKept /\ OnlyMoves(p)
    BY <2>1 DEF BackupsKept, Safe, OnlyMoves, PcOK
  <2>3. Knows(p)'
    BY DEF Knows, Journaling, BackedUpPc, MarkPc, PcOK
  <2>4. RecoverAlone'
    BY <2>1, <2>2, StaysAlone DEF BackupInv, Journaling, PcOK
  <2>5. BackupCoversReplaced'
    BY <2>1 DEF BackupInv, BackupCoversReplaced
  <2> QED BY <2>2, <2>3, <2>4, <2>5, OthersKnow DEF BackupInv
<1>35. ASSUME NEW f \in Files, NEW b \in Bytes, Edit(f, b) PROVE BackupInv'
  BY <1>35 DEF Edit, BackupInv, BackupCoversReplaced, RecoverAlone, Knows, MemorySafe, BackedUpTo, Safe
<1>36. CASE UNCHANGED vars
  BY <1>36 DEF vars, BackupInv, BackupCoversReplaced, RecoverAlone, Knows, MemorySafe, BackedUpTo, Safe
<1>37. ASSUME NEW a \in Appliers, ApplyStep(a) PROVE BackupInv'
  BY <1>37, <1>1, <1>2, <1>3, <1>4, <1>5, <1>6, <1>7, <1>8, <1>9, <1>10, <1>11,
     <1>12, <1>13, <1>14, <1>15, <1>16, <1>17, <1>18, <1>19, <1>20, <1>21, <1>22 DEF ApplyStep
<1>38. ASSUME NEW p \in Procs, RestoreStep(p) PROVE BackupInv'
  BY <1>38, <1>23, <1>24, <1>25, <1>26, <1>27, <1>28, <1>29 DEF RestoreStep
<1> QED
  BY <1>30, <1>31, <1>32, <1>33, <1>34, <1>35, <1>36, <1>37, <1>38 DEF Next

\* The backup invariant holds for ever.
LEMMA BackupInvHolds == Spec => []BackupInv
<1>1. Init => BackupInv
  BY DEF Init, BackupInv, BackupCoversReplaced, Knows, RecoverAlone, Journaling,
         BackedUpPc, MarkPc, Procs
<1>2. TypeOK /\ TypeOK' /\ BackupInv /\ [Next]_vars => BackupInv'
  BY BackupStep
<1> QED
  BY <1>1, <1>2, TypeCorrect, PTL DEF Spec

\* No file is replaced before its bytes are safe, whatever crashes, whichever
\* call fails and whatever the user writes (backup_files and write_files of
\* apply.rs, recover_transaction of transaction.rs).
THEOREM BackupsCorrect == Spec => []BackupCoversReplaced
<1>1. BackupInv => BackupCoversReplaced
  BY DEF BackupInv
<1> QED
  BY <1>1, BackupInvHolds, PTL

-----------------------------------------------------------------------------
\* One run of `gpui upgrade recover` at a time.  Nothing in the code sees to it:
\* two of them read the owner of the lock one after the other, and the second
\* can remove a lock that an apply took in between.
OneRecovery == \A r, s \in Recoverers : r = s

-----------------------------------------------------------------------------
(* Whose step it is, and what it leaves alone                                 *)

\* A step of process p.
ProcStep(p) ==
  \/ p \in Appliers /\ (ApplyStep(p) \/ \E v \in Versions : Plan(p, v))
  \/ RestoreStep(p)
  \/ p \in Recoverers /\ (ReadOwner(p) \/ Unlink(p) \/ \E t \in Appliers : StartRecover(p, t))
  \/ Crash(p)

\* Every other process stays where it is.
Alone(p) ==
  \A q \in Procs \ {p} :
    /\ pc'[q] = pc[q] /\ idx'[q] = idx[q] /\ txof'[q] = txof[q]
    /\ mfile'[q] = mfile[q] /\ mstate'[q] = mstate[q] /\ plan'[q] = plan[q]

\* Every other process and transaction learns of a write.
Announced(p) ==
  /\ \A q \in Procs \ {p} :
       /\ stale[q] \subseteq stale'[q]
       /\ \A f \in Files : disk'[f] # disk[f] => f \in stale'[q]
  /\ \A t \in Appliers \ {txof[p]} :
       /\ touched[t] \subseteq touched'[t]
       /\ \A f \in Files : disk'[f] # disk[f] => f \in touched'[t]

\* The journal of every other transaction stays as it is, and so do the digests
\* of a journal that was created.
Private(p) ==
  /\ \A t \in Appliers \ {txof[p]} :
       old'[t] = old[t] /\ new'[t] = new[t] /\ jstate'[t] = jstate[t] /\ jfile'[t] = jfile[t]
  /\ pc[p] = "checked" \/ UNCHANGED <<old, new>>

\* Where a process writes to the files or the journal of its transaction.
WritingPc == Journaling \union {"locked", "checked"}
ReadsOnly == UNCHANGED <<disk, touched, journal>>

Frame(p) ==
  /\ Alone(p) /\ Announced(p) /\ Private(p)
  /\ pc[p] \in WritingPc \/ ReadsOnly

\* Every step is a step of one process or an edit of the user.
LEMMA WhoSteps ==
  ASSUME Next
  PROVE  (\E p \in Procs : ProcStep(p)) \/ (\E f \in Files, b \in Bytes : Edit(f, b))
BY DEF Next, ProcStep, Procs

\* The helpers that touch the files and the journal keep to their own transaction.
LEMMA WriteFileFrame ==
  ASSUME TypeOK, NEW p \in Procs, NEW f \in Files, NEW b, WriteFile(p, f, b)
  PROVE  Announced(p)
BY DEF TypeOK, ProjectOK, Announced, WriteFile

LEMMA ComparedFrame ==
  ASSUME TypeOK, NEW p \in Procs, NEW f \in Files, Compared(p, f)
  PROVE  Announced(p) /\ UNCHANGED <<disk, touched>>
BY DEF TypeOK, ProjectOK, Announced, Compared

LEMMA JournalFrame ==
  ASSUME TypeOK, NEW p \in Procs, JournalWritten(p) \/ JournalFails(p)
  PROVE  Private(p)
BY DEF TypeOK, JournalOK, Private, JournalWritten, JournalFails, JournalInterrupted

LEMMA ProjectFrame ==
  ASSUME TypeOK, NEW p \in Procs, UNCHANGED project
  PROVE  Announced(p)
BY DEF TypeOK, ProjectOK, Announced, project

LEMMA UntouchedJournal ==
  ASSUME NEW p \in Procs, UNCHANGED journal
  PROVE  Private(p)
BY DEF Private, journal

-----------------------------------------------------------------------------
\* Every step keeps to its own process and its own transaction: it tells the
\* others of what it writes, and writes only where it works on a transaction.
LEMMA FrameStep == ASSUME TypeOK, NEW q \in Procs, ProcStep(q) PROVE Frame(q)
<1> USE DEF Procs, Go, Stay, Next1, Restart, Mark, Remember
<1>1. ASSUME NEW a \in Appliers, CreateLock(a) PROVE Frame(a)
  <2>1. Alone(a)
    BY <1>1 DEF CreateLock, Alone, TypeOK, PcOK, IndexOK, MemoryOK, OwnerOK, memory
  <2>3. Announced(a)
    BY <1>1, ProjectFrame DEF CreateLock
  <2>4. Private(a)
    BY <1>1, UntouchedJournal DEF CreateLock
  <2>5. pc[a] \in WritingPc \/ ReadsOnly
    BY <1>1 DEF CreateLock, WritingPc, Journaling, ReadsOnly, project, journal
  <2> QED BY <2>1, <2>3, <2>4, <2>5 DEF Frame
<1>2. ASSUME NEW a \in Appliers, Busy(a) PROVE Frame(a)
  <2>1. Alone(a)
    BY <1>2 DEF Busy, Alone, TypeOK, PcOK, IndexOK, MemoryOK, OwnerOK, memory
  <2>3. Announced(a)
    BY <1>2, ProjectFrame DEF Busy
  <2>4. Private(a)
    BY <1>2, UntouchedJournal DEF Busy
  <2>5. pc[a] \in WritingPc \/ ReadsOnly
    BY <1>2 DEF Busy, WritingPc, Journaling, ReadsOnly, project, journal
  <2> QED BY <2>1, <2>3, <2>4, <2>5 DEF Frame
<1>3. ASSUME NEW a \in Appliers, StampLock(a) PROVE Frame(a)
  <2>1. Alone(a)
    BY <1>3 DEF StampLock, Alone, TypeOK, PcOK, IndexOK, MemoryOK, OwnerOK, memory
  <2>3. Announced(a)
    BY <1>3, ProjectFrame DEF StampLock
  <2>4. Private(a)
    BY <1>3, UntouchedJournal DEF StampLock
  <2>5. pc[a] \in WritingPc \/ ReadsOnly
    BY <1>3 DEF StampLock, WritingPc, Journaling, ReadsOnly, project, journal
  <2> QED BY <2>1, <2>3, <2>4, <2>5 DEF Frame
<1>4. ASSUME NEW a \in Appliers, Recheck(a) PROVE Frame(a)
  <2>1. Alone(a)
    BY <1>4 DEF Recheck, Alone, TypeOK, PcOK, IndexOK, MemoryOK, OwnerOK, memory
  <2>3. Announced(a)
    BY <1>4 DEF Recheck, Announced, TypeOK, ProjectOK, OwnerOK
  <2>4. Private(a)
    BY <1>4, UntouchedJournal DEF Recheck
  <2>5. pc[a] \in WritingPc \/ ReadsOnly
    BY <1>4 DEF Recheck, WritingPc, Journaling, ReadsOnly, project, journal
  <2> QED BY <2>1, <2>3, <2>4, <2>5 DEF Frame
<1>5. ASSUME NEW a \in Appliers, PrepareFails(a) PROVE Frame(a)
  <2>1. Alone(a)
    BY <1>5 DEF PrepareFails, Alone, TypeOK, PcOK, IndexOK, MemoryOK, OwnerOK, memory
  <2>3. Announced(a)
    BY <1>5, ProjectFrame DEF PrepareFails
  <2>4. Private(a)
    BY <1>5, UntouchedJournal DEF PrepareFails
  <2>5. pc[a] \in WritingPc \/ ReadsOnly
    BY <1>5 DEF PrepareFails, WritingPc, Journaling, ReadsOnly, project, journal
  <2> QED BY <2>1, <2>3, <2>4, <2>5 DEF Frame
<1>6. ASSUME NEW a \in Appliers, CreateJournal(a) PROVE Frame(a)
  <2>1. Alone(a)
    BY <1>6 DEF CreateJournal, Alone, TypeOK, PcOK, IndexOK, MemoryOK, OwnerOK, memory
  <2>3. Announced(a)
    BY <1>6, ProjectFrame DEF CreateJournal
  <2>4. Private(a)
    BY <1>6 DEF CreateJournal, Private, TypeOK, JournalOK, OwnerOK
  <2>5. pc[a] \in WritingPc \/ ReadsOnly
    BY <1>6 DEF CreateJournal, WritingPc, Journaling, ReadsOnly, project, journal
  <2> QED BY <2>1, <2>3, <2>4, <2>5 DEF Frame
<1>7. ASSUME NEW a \in Appliers, SkipBackup(a) PROVE Frame(a)
  <2>1. Alone(a)
    BY <1>7 DEF SkipBackup, Alone, TypeOK, PcOK, IndexOK, MemoryOK, OwnerOK, memory
  <2>3. Announced(a)
    BY <1>7, ProjectFrame DEF SkipBackup
  <2>4. Private(a)
    BY <1>7, UntouchedJournal DEF SkipBackup
  <2>5. pc[a] \in WritingPc \/ ReadsOnly
    BY <1>7 DEF SkipBackup, WritingPc, Journaling, ReadsOnly, project, journal
  <2> QED BY <2>1, <2>3, <2>4, <2>5 DEF Frame
<1>8. ASSUME NEW a \in Appliers, BackUp(a) PROVE Frame(a)
  <2>1. Alone(a)
    BY <1>8 DEF BackUp, Alone, TypeOK, PcOK, IndexOK, MemoryOK, OwnerOK, memory
  <2>3. Announced(a)
    BY <1>8, ProjectFrame DEF BackUp
  <2>4. Private(a)
    BY <1>8, UntouchedJournal DEF BackUp
  <2>5. pc[a] \in WritingPc \/ ReadsOnly
    BY <1>8 DEF BackUp, WritingPc, Journaling, ReadsOnly, project, journal
  <2> QED BY <2>1, <2>3, <2>4, <2>5 DEF Frame
<1>9. ASSUME NEW a \in Appliers, MarkBackedUp(a) PROVE Frame(a)
  <2>1. Alone(a)
    BY <1>9 DEF MarkBackedUp, Alone, TypeOK, PcOK, IndexOK, MemoryOK, OwnerOK, memory
  <2>3. Announced(a)
    BY <1>9, ProjectFrame DEF MarkBackedUp
  <2>4. Private(a)
    BY <1>9, JournalFrame DEF MarkBackedUp
  <2>5. pc[a] \in WritingPc \/ ReadsOnly
    BY <1>9 DEF MarkBackedUp, WritingPc, Journaling, ReadsOnly, project, journal
  <2> QED BY <2>1, <2>3, <2>4, <2>5 DEF Frame
<1>10. ASSUME NEW a \in Appliers, BeginWriting(a) PROVE Frame(a)
  <2>1. Alone(a)
    BY <1>10 DEF BeginWriting, Alone, TypeOK, PcOK, IndexOK, MemoryOK, OwnerOK, memory
  <2>3. Announced(a)
    BY <1>10, ProjectFrame DEF BeginWriting
  <2>4. Private(a)
    BY <1>10, JournalFrame DEF BeginWriting
  <2>5. pc[a] \in WritingPc \/ ReadsOnly
    BY <1>10 DEF BeginWriting, WritingPc, Journaling, ReadsOnly, project, journal
  <2> QED BY <2>1, <2>3, <2>4, <2>5 DEF Frame
<1>11. ASSUME NEW a \in Appliers, SkipWrite(a) PROVE Frame(a)
  <2>1. Alone(a)
    BY <1>11 DEF SkipWrite, Alone, TypeOK, PcOK, IndexOK, MemoryOK, OwnerOK, memory
  <2>3. Announced(a)
    BY <1>11, ProjectFrame DEF SkipWrite
  <2>4. Private(a)
    BY <1>11, UntouchedJournal DEF SkipWrite
  <2>5. pc[a] \in WritingPc \/ ReadsOnly
    BY <1>11 DEF SkipWrite, WritingPc, Journaling, ReadsOnly, project, journal
  <2> QED BY <2>1, <2>3, <2>4, <2>5 DEF Frame
<1>12. ASSUME NEW a \in Appliers, CheckOld(a) PROVE Frame(a)
  <2>1. Alone(a)
    BY <1>12 DEF CheckOld, Alone, TypeOK, PcOK, IndexOK, MemoryOK, OwnerOK, memory
  <2>2. InLoop(a)
    BY <1>12 DEF CheckOld, TypeOK, IndexOK, LoopPc
  <2>3. Announced(a)
    BY <1>12, <2>2, ProjectFrame, ComparedFrame DEF CheckOld, File, InLoop
  <2>4. Private(a)
    BY <1>12, UntouchedJournal DEF CheckOld
  <2>5. pc[a] \in WritingPc \/ ReadsOnly
    BY <1>12 DEF CheckOld, WritingPc, Journaling, ReadsOnly, project, journal
  <2> QED BY <2>1, <2>3, <2>4, <2>5 DEF Frame
<1>13. ASSUME NEW a \in Appliers, MarkReplaced(a) PROVE Frame(a)
  <2>1. Alone(a)
    BY <1>13 DEF MarkReplaced, Alone, TypeOK, PcOK, IndexOK, MemoryOK, OwnerOK, memory
  <2>3. Announced(a)
    BY <1>13, ProjectFrame DEF MarkReplaced
  <2>4. Private(a)
    BY <1>13, JournalFrame DEF MarkReplaced
  <2>5. pc[a] \in WritingPc \/ ReadsOnly
    BY <1>13 DEF MarkReplaced, WritingPc, Journaling, ReadsOnly, project, journal
  <2> QED BY <2>1, <2>3, <2>4, <2>5 DEF Frame
<1>14. ASSUME NEW a \in Appliers, Replace(a) PROVE Frame(a)
  <2>1. Alone(a)
    BY <1>14 DEF Replace, Alone, TypeOK, PcOK, IndexOK, MemoryOK, OwnerOK, memory
  <2>2. InLoop(a)
    BY <1>14 DEF Replace, TypeOK, IndexOK, LoopPc
  <2>3. Announced(a)
    BY <1>14, <2>2, ProjectFrame, WriteFileFrame DEF Replace, File, InLoop
  <2>4. Private(a)
    BY <1>14, UntouchedJournal DEF Replace
  <2>5. pc[a] \in WritingPc \/ ReadsOnly
    BY <1>14 DEF Replace, WritingPc, Journaling, ReadsOnly, project, journal
  <2> QED BY <2>1, <2>3, <2>4, <2>5 DEF Frame
<1>15. ASSUME NEW a \in Appliers, Rename(a) PROVE Frame(a)
  <2>1. Alone(a)
    BY <1>15 DEF Rename, Alone, TypeOK, PcOK, IndexOK, MemoryOK, OwnerOK, memory
  <2>2. InLoop(a)
    BY <1>15 DEF Rename, TypeOK, IndexOK, LoopPc
  <2>3. Announced(a)
    BY <1>15, <2>2, ProjectFrame, WriteFileFrame DEF Rename, File, InLoop
  <2>4. Private(a)
    BY <1>15, UntouchedJournal DEF Rename
  <2>5. pc[a] \in WritingPc \/ ReadsOnly
    BY <1>15 DEF Rename, WritingPc, Journaling, ReadsOnly, project, journal
  <2> QED BY <2>1, <2>3, <2>4, <2>5 DEF Frame
<1>16. ASSUME NEW a \in Appliers, Confirm(a) PROVE Frame(a)
  <2>1. Alone(a)
    BY <1>16 DEF Confirm, Alone, TypeOK, PcOK, IndexOK, MemoryOK, OwnerOK, memory
  <2>3. Announced(a)
    BY <1>16, ProjectFrame DEF Confirm
  <2>4. Private(a)
    BY <1>16, UntouchedJournal DEF Confirm
  <2>5. pc[a] \in WritingPc \/ ReadsOnly
    BY <1>16 DEF Confirm, WritingPc, Journaling, ReadsOnly, project, journal
  <2> QED BY <2>1, <2>3, <2>4, <2>5 DEF Frame
<1>17. ASSUME NEW a \in Appliers, Verify(a) PROVE Frame(a)
  <2>1. Alone(a)
    BY <1>17 DEF Verify, Alone, TypeOK, PcOK, IndexOK, MemoryOK, OwnerOK, memory
  <2>3. Announced(a)
    BY <1>17, ProjectFrame DEF Verify
  <2>4. Private(a)
    BY <1>17, UntouchedJournal DEF Verify
  <2>5. pc[a] \in WritingPc \/ ReadsOnly
    BY <1>17 DEF Verify, WritingPc, Journaling, ReadsOnly, project, journal
  <2> QED BY <2>1, <2>3, <2>4, <2>5 DEF Frame
<1>18. ASSUME NEW a \in Appliers, BeginValidating(a) PROVE Frame(a)
  <2>1. Alone(a)
    BY <1>18 DEF BeginValidating, Alone, TypeOK, PcOK, IndexOK, MemoryOK, OwnerOK, memory
  <2>3. Announced(a)
    BY <1>18, ProjectFrame DEF BeginValidating
  <2>4. Private(a)
    BY <1>18, JournalFrame DEF BeginValidating
  <2>5. pc[a] \in WritingPc \/ ReadsOnly
    BY <1>18 DEF BeginValidating, WritingPc, Journaling, ReadsOnly, project, journal
  <2> QED BY <2>1, <2>3, <2>4, <2>5 DEF Frame
<1>19. ASSUME NEW a \in Appliers, Validate(a) PROVE Frame(a)
  <2>1. Alone(a)
    BY <1>19 DEF Validate, Alone, TypeOK, PcOK, IndexOK, MemoryOK, OwnerOK, memory
  <2>3. Announced(a)
    BY <1>19, ProjectFrame DEF Validate
  <2>4. Private(a)
    BY <1>19, UntouchedJournal DEF Validate
  <2>5. pc[a] \in WritingPc \/ ReadsOnly
    BY <1>19 DEF Validate, WritingPc, Journaling, ReadsOnly, project, journal
  <2> QED BY <2>1, <2>3, <2>4, <2>5 DEF Frame
<1>20. ASSUME NEW a \in Appliers, Commit(a) PROVE Frame(a)
  <2>1. Alone(a)
    BY <1>20 DEF Commit, Alone, TypeOK, PcOK, IndexOK, MemoryOK, OwnerOK, memory
  <2>3. Announced(a)
    BY <1>20, ProjectFrame DEF Commit
  <2>4. Private(a)
    BY <1>20, JournalFrame DEF Commit
  <2>5. pc[a] \in WritingPc \/ ReadsOnly
    BY <1>20 DEF Commit, WritingPc, Journaling, ReadsOnly, project, journal
  <2> QED BY <2>1, <2>3, <2>4, <2>5 DEF Frame
<1>21. ASSUME NEW a \in Appliers, Abort(a) PROVE Frame(a)
  <2>1. Alone(a)
    BY <1>21 DEF Abort, Alone, TypeOK, PcOK, IndexOK, MemoryOK, OwnerOK, memory
  <2>3. Announced(a)
    BY <1>21, ProjectFrame DEF Abort
  <2>4. Private(a)
    BY <1>21, JournalFrame DEF Abort
  <2>5. pc[a] \in WritingPc \/ ReadsOnly
    BY <1>21 DEF Abort, WritingPc, Journaling, ReadsOnly, project, journal
  <2> QED BY <2>1, <2>3, <2>4, <2>5 DEF Frame
<1>22. ASSUME NEW a \in Appliers, Release(a) PROVE Frame(a)
  <2>1. Alone(a)
    BY <1>22 DEF Release, Alone, TypeOK, PcOK, IndexOK, MemoryOK, OwnerOK, memory
  <2>3. Announced(a)
    BY <1>22, ProjectFrame DEF Release
  <2>4. Private(a)
    BY <1>22, UntouchedJournal DEF Release
  <2>5. pc[a] \in WritingPc \/ ReadsOnly
    BY <1>22 DEF Release, WritingPc, Journaling, ReadsOnly, project, journal
  <2> QED BY <2>1, <2>3, <2>4, <2>5 DEF Frame
<1>23. ASSUME NEW p \in Procs, Load(p) PROVE Frame(p)
  <2>1. Alone(p)
    BY <1>23 DEF Load, Alone, TypeOK, PcOK, IndexOK, MemoryOK, OwnerOK, memory
  <2>3. Announced(p)
    BY <1>23, ProjectFrame DEF Load
  <2>4. Private(p)
    BY <1>23, UntouchedJournal DEF Load
  <2>5. pc[p] \in WritingPc \/ ReadsOnly
    BY <1>23 DEF Load, WritingPc, Journaling, ReadsOnly, project, journal
  <2> QED BY <2>1, <2>3, <2>4, <2>5 DEF Frame
<1>24. ASSUME NEW p \in Procs, SkipRestore(p) PROVE Frame(p)
  <2>1. Alone(p)
    BY <1>24 DEF SkipRestore, Alone, TypeOK, PcOK, IndexOK, MemoryOK, OwnerOK, memory
  <2>3. Announced(p)
    BY <1>24, ProjectFrame DEF SkipRestore
  <2>4. Private(p)
    BY <1>24, UntouchedJournal DEF SkipRestore
  <2>5. pc[p] \in WritingPc \/ ReadsOnly
    BY <1>24 DEF SkipRestore, WritingPc, Journaling, ReadsOnly, project, journal
  <2> QED BY <2>1, <2>3, <2>4, <2>5 DEF Frame
<1>25. ASSUME NEW p \in Procs, Settle(p) PROVE Frame(p)
  <2>1. Alone(p)
    BY <1>25 DEF Settle, Alone, TypeOK, PcOK, IndexOK, MemoryOK, OwnerOK, memory
  <2>3. Announced(p)
    BY <1>25, ProjectFrame DEF Settle
  <2>4. Private(p)
    BY <1>25, UntouchedJournal DEF Settle
  <2>5. pc[p] \in WritingPc \/ ReadsOnly
    BY <1>25 DEF Settle, WritingPc, Journaling, ReadsOnly, project, journal
  <2> QED BY <2>1, <2>3, <2>4, <2>5 DEF Frame
<1>26. ASSUME NEW p \in Procs, ChooseRestore(p) PROVE Frame(p)
  <2>1. Alone(p)
    BY <1>26 DEF ChooseRestore, Alone, TypeOK, PcOK, IndexOK, MemoryOK, OwnerOK, memory
  <2>2. InLoop(p)
    BY <1>26 DEF ChooseRestore, TypeOK, IndexOK, LoopPc
  <2>3. Announced(p)
    BY <1>26, <2>2, ProjectFrame, ComparedFrame DEF ChooseRestore, File, InLoop
  <2>4. Private(p)
    BY <1>26, UntouchedJournal DEF ChooseRestore
  <2>5. pc[p] \in WritingPc \/ ReadsOnly
    BY <1>26 DEF ChooseRestore, WritingPc, Journaling, ReadsOnly, project, journal
  <2> QED BY <2>1, <2>3, <2>4, <2>5 DEF Frame
<1>27. ASSUME NEW p \in Procs, PutBack(p) PROVE Frame(p)
  <2>1. Alone(p)
    BY <1>27 DEF PutBack, Alone, TypeOK, PcOK, IndexOK, MemoryOK, OwnerOK, memory
  <2>2. InLoop(p)
    BY <1>27 DEF PutBack, TypeOK, IndexOK, LoopPc
  <2>3. Announced(p)
    BY <1>27, <2>2, ProjectFrame, WriteFileFrame DEF PutBack, File, InLoop
  <2>4. Private(p)
    BY <1>27, UntouchedJournal DEF PutBack
  <2>5. pc[p] \in WritingPc \/ ReadsOnly
    BY <1>27 DEF PutBack, WritingPc, Journaling, ReadsOnly, project, journal
  <2> QED BY <2>1, <2>3, <2>4, <2>5 DEF Frame
<1>28. ASSUME NEW p \in Procs, PutRename(p) PROVE Frame(p)
  <2>1. Alone(p)
    BY <1>28 DEF PutRename, Alone, TypeOK, PcOK, IndexOK, MemoryOK, OwnerOK, memory
  <2>2. InLoop(p)
    BY <1>28 DEF PutRename, TypeOK, IndexOK, LoopPc
  <2>3. Announced(p)
    BY <1>28, <2>2, ProjectFrame, WriteFileFrame DEF PutRename, File, InLoop
  <2>4. Private(p)
    BY <1>28, UntouchedJournal DEF PutRename
  <2>5. pc[p] \in WritingPc \/ ReadsOnly
    BY <1>28 DEF PutRename, WritingPc, Journaling, ReadsOnly, project, journal
  <2> QED BY <2>1, <2>3, <2>4, <2>5 DEF Frame
<1>29. ASSUME NEW p \in Procs, Conclude(p) PROVE Frame(p)
  <2>1. Alone(p)
    BY <1>29 DEF Conclude, Alone, TypeOK, PcOK, IndexOK, MemoryOK, OwnerOK, memory
  <2>3. Announced(p)
    BY <1>29, ProjectFrame DEF Conclude
  <2>4. Private(p)
    BY <1>29, JournalFrame DEF Conclude
  <2>5. pc[p] \in WritingPc \/ ReadsOnly
    BY <1>29 DEF Conclude, WritingPc, Journaling, ReadsOnly, project, journal
  <2> QED BY <2>1, <2>3, <2>4, <2>5 DEF Frame
<1>30. ASSUME NEW r \in Recoverers, ReadOwner(r) PROVE Frame(r)
  <2>1. Alone(r)
    BY <1>30 DEF ReadOwner, Alone, TypeOK, PcOK, IndexOK, MemoryOK, OwnerOK, memory
  <2>3. Announced(r)
    BY <1>30, ProjectFrame DEF ReadOwner
  <2>4. Private(r)
    BY <1>30, UntouchedJournal DEF ReadOwner
  <2>5. pc[r] \in WritingPc \/ ReadsOnly
    BY <1>30 DEF ReadOwner, WritingPc, Journaling, ReadsOnly, project, journal
  <2> QED BY <2>1, <2>3, <2>4, <2>5 DEF Frame
<1>31. ASSUME NEW r \in Recoverers, Unlink(r) PROVE Frame(r)
  <2>1. Alone(r)
    BY <1>31 DEF Unlink, Alone, TypeOK, PcOK, IndexOK, MemoryOK, OwnerOK, memory
  <2>3. Announced(r)
    BY <1>31, ProjectFrame DEF Unlink
  <2>4. Private(r)
    BY <1>31, UntouchedJournal DEF Unlink
  <2>5. pc[r] \in WritingPc \/ ReadsOnly
    BY <1>31 DEF Unlink, WritingPc, Journaling, ReadsOnly, project, journal
  <2> QED BY <2>1, <2>3, <2>4, <2>5 DEF Frame
<1>32. ASSUME NEW a \in Appliers, NEW v \in Versions, Plan(a, v) PROVE Frame(a)
  <2>1. Alone(a)
    BY <1>32 DEF Plan, Alone, TypeOK, PcOK, PlanOK, memory
  <2>2. Announced(a) /\ Private(a) /\ ReadsOnly
    BY <1>32, ProjectFrame, UntouchedJournal DEF Plan, ReadsOnly, project
  <2> QED BY <2>1, <2>2 DEF Frame
<1>33. ASSUME NEW r \in Recoverers, NEW t \in Appliers, StartRecover(r, t) PROVE Frame(r)
  <2>1. Alone(r)
    BY <1>33 DEF StartRecover, Alone, TypeOK, PcOK, OwnerOK, memory
  <2>2. Announced(r) /\ Private(r) /\ ReadsOnly
    BY <1>33, ProjectFrame, UntouchedJournal DEF StartRecover, ReadsOnly, project
  <2> QED BY <2>1, <2>2 DEF Frame
<1>34. ASSUME Crash(q) PROVE Frame(q)
  <2>1. Alone(q)
    BY <1>34 DEF Crash, Alone, TypeOK, PcOK, memory
  <2>2. Announced(q)
    BY <1>34, ProjectFrame DEF Crash
  <2>3. Private(q)
    BY <1>34, UntouchedJournal DEF Crash, Private, JournalInterrupted, TypeOK, JournalOK
  <2>4. pc[q] \in WritingPc \/ ReadsOnly
    BY <1>34 DEF Crash, RewritesJournal, JournalWriters, WritingPc, Journaling, ReadsOnly, project
  <2> QED BY <2>1, <2>2, <2>3, <2>4 DEF Frame
<1>35. ASSUME ApplyStep(q), q \in Appliers PROVE Frame(q)
  BY <1>35, <1>1, <1>2, <1>3, <1>4, <1>5, <1>6, <1>7, <1>8, <1>9, <1>10, <1>11,
     <1>12, <1>13, <1>14, <1>15, <1>16, <1>17, <1>18, <1>19, <1>20, <1>21, <1>22 DEF ApplyStep
<1>36. ASSUME RestoreStep(q) PROVE Frame(q)
  BY <1>36, <1>23, <1>24, <1>25, <1>26, <1>27, <1>28, <1>29 DEF RestoreStep
<1> QED
  BY <1>30, <1>31, <1>32, <1>33, <1>34, <1>35, <1>36 DEF ProcStep

-----------------------------------------------------------------------------
(* One apply holds the lock                                                   *)
\* A recovery works on the transaction of a process that is gone.
RecoveredIsGone ==
  \A r \in Recoverers :
    pc[r] \in RestorePc \union RecoverPc => pc[txof[r]] \in {"done", "crashed"}

\* MutualExclusion speaks of places in the program.  What keeps it is the lock
\* file: whoever is inside created it, and a recovery that is about to remove
\* it has found the name of its own transaction, whose process is gone.
LockInv ==
  /\ \A a \in Appliers : pc[a] \in InsideLock \union {"stamp"} => lock.by = a
  /\ RecoveredIsGone
  /\ \A r \in Recoverers : pc[r] = "unlink" => lock.by = txof[r]

\* A step that neither takes the lock, nor gives it back, nor goes inside.
Quiet(p) ==
  /\ lock' = lock
  /\ txof'[p] = txof[p]
  /\ pc[p] \notin {"done", "crashed"}
  /\ pc'[p] \notin {"stamp", "unlink"}
  /\ pc'[p] \in InsideLock => pc[p] \in InsideLock
  /\ p \in Recoverers /\ pc'[p] \in RestorePc \union RecoverPc
       => pc[p] \in RestorePc \union RecoverPc

\* Most steps are quiet.
LEMMA ApplyIsQuiet ==
  ASSUME TypeOK, NEW a \in Appliers, ApplyStep(a), ~CreateLock(a), ~StampLock(a), ~Release(a)
  PROVE  Quiet(a)
<1> USE ConstantsAssumption DEF TypeOK, PcOK, OwnerOK, Procs, Go, Quiet, InsideLock
<1>1. CASE Busy(a)
  BY <1>1 DEF Busy
<1>2. CASE Recheck(a)
  BY <1>2 DEF Recheck
<1>3. CASE PrepareFails(a)
  BY <1>3 DEF PrepareFails
<1>4. CASE CreateJournal(a)
  BY <1>4 DEF CreateJournal
<1>5. CASE SkipBackup(a)
  BY <1>5 DEF SkipBackup
<1>6. CASE BackUp(a)
  BY <1>6 DEF BackUp
<1>7. CASE MarkBackedUp(a)
  BY <1>7 DEF MarkBackedUp
<1>8. CASE BeginWriting(a)
  BY <1>8 DEF BeginWriting
<1>9. CASE SkipWrite(a)
  BY <1>9 DEF SkipWrite
<1>10. CASE CheckOld(a)
  BY <1>10 DEF CheckOld
<1>11. CASE MarkReplaced(a)
  BY <1>11 DEF MarkReplaced
<1>12. CASE Replace(a)
  BY <1>12 DEF Replace
<1>13. CASE Rename(a)
  BY <1>13 DEF Rename
<1>14. CASE Confirm(a)
  BY <1>14 DEF Confirm
<1>15. CASE Verify(a)
  BY <1>15 DEF Verify
<1>16. CASE BeginValidating(a)
  BY <1>16 DEF BeginValidating
<1>17. CASE Validate(a)
  BY <1>17 DEF Validate
<1>18. CASE Commit(a)
  BY <1>18 DEF Commit
<1>19. CASE Abort(a)
  BY <1>19 DEF Abort
<1> QED
  BY <1>1, <1>2, <1>3, <1>4, <1>5, <1>6, <1>7, <1>8, <1>9, <1>10, <1>11, <1>12, <1>13, <1>14, <1>15, <1>16, <1>17, <1>18, <1>19 DEF ApplyStep

LEMMA RestoreIsQuiet ==
  ASSUME TypeOK, NEW p \in Procs, RestoreStep(p)
  PROVE  Quiet(p)
<1> USE ConstantsAssumption DEF TypeOK, PcOK, OwnerOK, Procs, Go, Quiet, InsideLock, RestorePc, RecoverPc
<1>1. CASE Load(p)
  BY <1>1 DEF Load, Failed, Closing
<1>2. CASE SkipRestore(p)
  BY <1>2 DEF SkipRestore
<1>3. CASE Settle(p)
  BY <1>3 DEF Settle
<1>4. CASE ChooseRestore(p)
  BY <1>4 DEF ChooseRestore
<1>5. CASE PutBack(p)
  BY <1>5 DEF PutBack
<1>6. CASE PutRename(p)
  BY <1>6 DEF PutRename
<1>7. CASE Conclude(p)
  BY <1>7 DEF Conclude, Failed, Closing
<1> QED
  BY <1>1, <1>2, <1>3, <1>4, <1>5, <1>6, <1>7 DEF RestoreStep

LEMMA CrashIsQuiet == ASSUME TypeOK, NEW p \in Procs, Crash(p) PROVE Quiet(p)
BY DEF TypeOK, PcOK, OwnerOK, Procs, Go, Quiet, InsideLock, RestorePc, RecoverPc, Crash

\* Only the process that is gone stays recovered: no step of another brings it back.
LEMMA GoneStays ==
  ASSUME TypeOK, RecoveredIsGone, NEW p \in Procs, Alone(p), txof'[p] = txof[p],
         pc[p] \notin {"done", "crashed"},
         p \in Recoverers /\ pc'[p] \in RestorePc \union RecoverPc
           => pc[p] \in RestorePc \union RecoverPc
  PROVE  RecoveredIsGone'
<1> SUFFICES ASSUME NEW r \in Recoverers, pc'[r] \in RestorePc \union RecoverPc
             PROVE  pc'[txof'[r]] \in {"done", "crashed"}
  BY DEF RecoveredIsGone
<1>1. pc[r] \in RestorePc \union RecoverPc /\ txof'[r] = txof[r]
  BY DEF Alone, Procs
<1>2. pc[txof[r]] \in {"done", "crashed"}
  BY <1>1 DEF RecoveredIsGone
<1>3. txof[r] \in Procs \ {p}
  BY <1>2 DEF TypeOK, OwnerOK, Procs
<1> QED BY <1>1, <1>2, <1>3 DEF Alone

\* A quiet step keeps the lock where it is.
LEMMA QuietKeepsLock ==
  ASSUME TypeOK, LockInv, NEW p \in Procs, Alone(p), Quiet(p)
  PROVE  LockInv'
<1>1. RecoveredIsGone'
  BY GoneStays DEF LockInv, Quiet
<1>2. ASSUME NEW a \in Appliers, pc'[a] \in InsideLock \union {"stamp"} PROVE lock'.by = a
  <2>1. pc[a] \in InsideLock \union {"stamp"}
    BY <1>2 DEF Alone, Quiet, Procs
  <2> QED BY <2>1 DEF LockInv, Quiet
<1>3. ASSUME NEW r \in Recoverers, pc'[r] = "unlink" PROVE lock'.by = txof'[r]
  <2>1. r # p /\ pc[r] = "unlink" /\ txof'[r] = txof[r]
    BY <1>3 DEF Alone, Quiet, Procs
  <2> QED BY <2>1 DEF LockInv, Quiet
<1> QED BY <1>1, <1>2, <1>3 DEF LockInv

\* Every step keeps the lock invariant, if there is one recovery at a time: a
\* second one could be about to remove the lock that the first removes.
LEMMA LockStep ==
  ASSUME OneRecovery, TypeOK, TypeOK', LockInv, [Next]_vars
  PROVE  LockInv'
<1> USE ConstantsAssumption DEF Procs
<1> DEFINE Gone == {"done", "crashed"}
<1>1. ASSUME NEW a \in Appliers, CreateLock(a) PROVE LockInv'
  <2>1. Alone(a)
    BY <1>1, FrameStep DEF ProcStep, ApplyStep, Frame
  <2>2. lock.by = Absent /\ lock'.by = a /\ pc[a] = "planned" /\ pc'[a] = "stamp" /\ UNCHANGED txof
    BY <1>1 DEF CreateLock, NoLock, Go, TypeOK, PcOK
  <2>3. RecoveredIsGone'
    BY <2>1, <2>2, GoneStays DEF LockInv, RestorePc, RecoverPc
  <2>4. \A b \in Appliers : pc[b] \notin InsideLock \union {"stamp"}
    BY <2>2 DEF LockInv
  <2>5. \A b \in Appliers : pc'[b] \in InsideLock \union {"stamp"} => b = a
    BY <2>1, <2>4 DEF Alone
  <2>6. \A r \in Recoverers : pc'[r] # "unlink"
    BY <2>1, <2>2 DEF Alone, LockInv, TypeOK, OwnerOK
  <2> QED BY <2>2, <2>3, <2>5, <2>6 DEF LockInv
<1>2. ASSUME NEW a \in Appliers, StampLock(a) PROVE LockInv'
  <2>1. Alone(a)
    BY <1>2, FrameStep DEF ProcStep, ApplyStep, Frame
  <2>2. pc[a] = "stamp" /\ pc'[a] \in {"locked", "done"} /\ UNCHANGED txof
    BY <1>2 DEF StampLock, Go, TypeOK, PcOK
  <2>3. lock'.by = lock.by
    BY <1>2 DEF StampLock
  <2>4. RecoveredIsGone'
    BY <2>1, <2>2, GoneStays DEF LockInv, RestorePc, RecoverPc
  <2>5. \A b \in Appliers : pc'[b] \in InsideLock \union {"stamp"} => pc[b] \in InsideLock \union {"stamp"}
    BY <2>1, <2>2 DEF Alone
  <2>6. \A r \in Recoverers : pc'[r] = "unlink" => pc[r] = "unlink"
    BY <2>1 DEF Alone
  <2> QED BY <2>2, <2>3, <2>4, <2>5, <2>6 DEF LockInv
<1>3. ASSUME NEW a \in Appliers, Release(a) PROVE LockInv'
  <2>1. Alone(a)
    BY <1>3, FrameStep DEF ProcStep, ApplyStep, Frame
  <2>2. pc[a] = "release" /\ pc'[a] = "done" /\ UNCHANGED txof /\ lock.by = a
    BY <1>3 DEF Release, Go, TypeOK, PcOK, LockInv, InsideLock
  <2>3. RecoveredIsGone'
    BY <2>1, <2>2, GoneStays DEF LockInv, RestorePc, RecoverPc
  <2>4. \A b \in Appliers : pc'[b] \notin InsideLock \union {"stamp"}
    BY <2>1, <2>2 DEF Alone, LockInv, InsideLock
  <2>5. \A r \in Recoverers : pc'[r] # "unlink"
    <3> SUFFICES ASSUME NEW r \in Recoverers, pc[r] = "unlink" PROVE FALSE
      BY <2>1 DEF Alone
    <3>1. txof[r] = a
      BY <2>2 DEF LockInv
    <3>2. pc[txof[r]] \in Gone
      BY DEF LockInv, RecoveredIsGone, RecoverPc
    <3> QED BY <2>2, <3>1, <3>2
  <2> QED BY <2>3, <2>4, <2>5 DEF LockInv
<1>4. ASSUME NEW r \in Recoverers, Unlink(r) PROVE LockInv'
  <2>1. Alone(r)
    BY <1>4, FrameStep DEF ProcStep, Frame
  <2>2. pc[r] = "unlink" /\ pc'[r] = "done" /\ UNCHANGED txof /\ lock.by = txof[r]
    BY <1>4 DEF Unlink, Go, TypeOK, PcOK, LockInv
  <2>3. RecoveredIsGone'
    BY <2>1, <2>2, GoneStays DEF LockInv, RestorePc, RecoverPc
  <2>4. pc[txof[r]] \in Gone
    BY <2>2 DEF LockInv, RecoveredIsGone, RecoverPc
  <2>5. \A b \in Appliers : pc[b] \notin InsideLock \union {"stamp"}
    BY <2>2, <2>4 DEF LockInv, InsideLock
  <2>6. \A b \in Appliers : pc'[b] \notin InsideLock \union {"stamp"}
    BY <2>1, <2>5 DEF Alone
  <2>7. \A s \in Recoverers : pc'[s] # "unlink"
    BY <2>2 DEF OneRecovery
  <2> QED BY <2>3, <2>6, <2>7 DEF LockInv
<1>5. ASSUME NEW r \in Recoverers, ReadOwner(r) PROVE LockInv'
  <2>1. Alone(r)
    BY <1>5, FrameStep DEF ProcStep, Frame
  <2>2. pc[r] = "read_owner" /\ pc'[r] \in {"unlink", "done"} /\ UNCHANGED <<txof, lock>>
    BY <1>5 DEF ReadOwner, Go, TypeOK, PcOK
  <2>3. RecoveredIsGone'
    BY <2>1, <2>2, GoneStays DEF LockInv, RestorePc, RecoverPc
  <2>4. \A b \in Appliers : pc'[b] = pc[b]
    BY <2>1 DEF Alone
  <2>5. pc'[r] = "unlink" => lock.by = txof[r]
    BY <1>5 DEF ReadOwner, Go, TypeOK, PcOK
  <2>6. \A s \in Recoverers : s # r => pc'[s] = pc[s]
    BY <2>1 DEF Alone
  <2> QED BY <2>2, <2>3, <2>4, <2>5, <2>6 DEF LockInv
<1>6. ASSUME NEW r \in Recoverers, NEW t \in Appliers, StartRecover(r, t) PROVE LockInv'
  <2>1. Alone(r)
    BY <1>6, FrameStep DEF ProcStep, Frame
  <2>2. pc'[r] = "load" /\ txof'[r] = t /\ lock' = lock /\ pc[t] \in Gone /\ r # t
    BY <1>6 DEF StartRecover, Go, TypeOK, PcOK, OwnerOK
  <2>3. RecoveredIsGone'
    <3> SUFFICES ASSUME NEW s \in Recoverers, pc'[s] \in RestorePc \union RecoverPc
                 PROVE  pc'[txof'[s]] \in Gone
      BY DEF RecoveredIsGone
    <3>1. CASE s = r
      BY <2>1, <2>2, <3>1 DEF Alone
    <3>2. CASE s # r
      BY <2>1, <3>2 DEF Alone, LockInv, RecoveredIsGone, TypeOK, OwnerOK
    <3> QED BY <3>1, <3>2
  <2>4. \A b \in Appliers : pc'[b] = pc[b]
    BY <2>1 DEF Alone
  <2>5. \A s \in Recoverers : pc'[s] = "unlink" => pc[s] = "unlink" /\ txof'[s] = txof[s]
    BY <2>1, <2>2 DEF Alone
  <2> QED BY <2>2, <2>3, <2>4, <2>5 DEF LockInv
<1>7. ASSUME NEW a \in Appliers, NEW v \in Versions, Plan(a, v) PROVE LockInv'
  <2>1. Alone(a)
    BY <1>7, FrameStep DEF ProcStep, Frame
  <2>2. Quiet(a)
    BY <1>7 DEF Plan, Go, Stay, Quiet, InsideLock, RestorePc, RecoverPc, TypeOK, PcOK
  <2> QED BY <2>1, <2>2, QuietKeepsLock
<1>8. ASSUME NEW a \in Appliers, ApplyStep(a), ~CreateLock(a), ~StampLock(a), ~Release(a) PROVE LockInv'
  BY <1>8, ApplyIsQuiet, QuietKeepsLock, FrameStep DEF ProcStep, Frame
<1>9. ASSUME NEW p \in Procs, RestoreStep(p) PROVE LockInv'
  BY <1>9, RestoreIsQuiet, QuietKeepsLock, FrameStep DEF ProcStep, Frame
<1>10. ASSUME NEW p \in Procs, Crash(p) PROVE LockInv'
  BY <1>10, CrashIsQuiet, QuietKeepsLock, FrameStep DEF ProcStep, Frame
<1>11. ASSUME NEW f \in Files, NEW b \in Bytes, Edit(f, b) PROVE LockInv'
  BY <1>11 DEF Edit, LockInv, RecoveredIsGone
<1>12. CASE UNCHANGED vars
  BY <1>12 DEF vars, LockInv, RecoveredIsGone
<1> QED
  BY <1>1, <1>2, <1>3, <1>4, <1>5, <1>6, <1>7, <1>8, <1>9, <1>10, <1>11, <1>12 DEF Next

LEMMA LockInit == Init => LockInv
BY DEF Init, LockInv, RecoveredIsGone, Procs, InsideLock, RestorePc, RecoverPc

\* The lock invariant holds for ever.
LEMMA LockCorrect == ASSUME OneRecovery PROVE Spec => []LockInv
<1>1. TypeOK /\ TypeOK' /\ LockInv /\ [Next]_vars => LockInv'
  BY LockStep
<1> QED
  BY <1>1, LockInit, TypeCorrect, PTL DEF Spec

\* Of two applies only one is between its lock and its end, whatever crashes and
\* whichever call fails, as long as one recovery runs at a time (UpgradeLock of
\* lock.rs, apply_plan of apply.rs, recover_transaction of transaction.rs).
THEOREM OneApplyInside == ASSUME OneRecovery PROVE Spec => []MutualExclusion
<1>1. LockInv => MutualExclusion
  BY DEF LockInv, MutualExclusion
<1> QED
  BY <1>1, LockCorrect, PTL

-----------------------------------------------------------------------------
(* No write is lost                                                           *)

\* What a process that compared a file found in it, by its place in the program.
Found(p) == CASE pc[p] \in {"mark", "replace"} -> old[txof[p]][idx[p]]
              [] pc[p] = "put_back" -> new[txof[p]][idx[p]]
              [] OTHER -> Absent

\* A process that is about to write a file knows what it overwrites, unless
\* somebody wrote the file since.
ComparedPc == {"mark", "replace", "rename", "put_back", "put_rename"}
Fresh(p) ==
  /\ pc[p] \in ComparedPc /\ idx[p] \notin stale[p] => disk[idx[p]] = Found(p)
  /\ pc[p] = "replace" => mfile[p][idx[p]] = "replaced"
FreshInv == \A p \in Procs : Fresh(p)

\* A step of another process makes the file stale or leaves it alone.
LEMMA OthersFresh ==
  ASSUME TypeOK, BackupInv, FreshInv, NEW p \in Procs, Frame(p)
  PROVE  \A q \in Procs \ {p} : Fresh(q)'
<1> SUFFICES ASSUME NEW q \in Procs \ {p} PROVE Fresh(q)'
  OBVIOUS
<1>1. pc'[q] = pc[q] /\ idx'[q] = idx[q] /\ txof'[q] = txof[q] /\ mfile'[q] = mfile[q]
  BY DEF Frame, Alone
<1>2. Fresh(q)
  BY DEF FreshInv
<1>3. CASE pc[q] \notin ComparedPc
  BY <1>1, <1>3 DEF Fresh, ComparedPc
<1>4. CASE pc[q] \in ComparedPc
  <2>1. idx[q] \in Files
    BY <1>4 DEF TypeOK, IndexOK, LoopPc, InLoop, ComparedPc
  <2>2. old'[txof[q]] = old[txof[q]] /\ new'[txof[q]] = new[txof[q]]
    <3>1. CASE pc[p] = "checked"
      <4>1. p \in Appliers /\ txof[p] = p
        BY <3>1 DEF TypeOK, PcOK, OwnerOK, ApplyPc, Procs
      <4>2. txof[q] # p
        BY <1>4, <3>1, <4>1 DEF BackupInv, RecoverAlone, Journaling, ComparedPc, TypeOK, OwnerOK, Procs
      <4>3. txof[q] \in Appliers \ {txof[p]}
        BY <4>1, <4>2 DEF TypeOK, OwnerOK
      <4> QED BY <4>3 DEF Frame, Private
    <3>2. CASE pc[p] # "checked"
      BY <3>2 DEF Frame, Private
    <3> QED BY <3>1, <3>2
  <2>3. idx[q] \notin stale'[q] => idx[q] \notin stale[q] /\ disk'[idx[q]] = disk[idx[q]]
    BY <2>1 DEF Frame, Announced
  <2>4. Found(q)' = Found(q)
    BY <1>1, <2>2 DEF Found
  <2> QED BY <1>1, <1>2, <2>3, <2>4 DEF Fresh
<1> QED BY <1>3, <1>4

\* What a step of p overwrites is the output of its transaction, is in the
\* backup, or was written after p compared the file; and p knows afterwards what
\* it is about to overwrite.
Careful(p) == Fresh(p)' /\ NoWriteLost(p)

\* A step that compares no file and writes none.
LEMMA Uninvolved ==
  ASSUME NEW p \in Procs, UNCHANGED disk, pc'[p] \notin ComparedPc
  PROVE  Careful(p)
BY DEF Careful, Fresh, NoWriteLost, ComparedPc

LEMMA ApplyIsCareful ==
  ASSUME TypeOK, BackupInv, FreshInv, NEW a \in Appliers, ApplyStep(a)
  PROVE  Careful(a)
<1> USE DEF Procs, Go, ComparedPc
<1>0. a \in Procs /\ txof[a] = a
  BY DEF TypeOK, OwnerOK
<1>1. CASE CreateLock(a)
  BY <1>0, <1>1, Uninvolved DEF CreateLock, project, TypeOK, PcOK
<1>2. CASE Busy(a)
  BY <1>0, <1>2, Uninvolved DEF Busy, project, TypeOK, PcOK
<1>3. CASE StampLock(a)
  BY <1>0, <1>3, Uninvolved DEF StampLock, project, TypeOK, PcOK
<1>4. CASE Recheck(a)
  BY <1>0, <1>4, Uninvolved DEF Recheck, project, TypeOK, PcOK
<1>5. CASE PrepareFails(a)
  BY <1>0, <1>5, Uninvolved DEF PrepareFails, project, TypeOK, PcOK
<1>6. CASE CreateJournal(a)
  BY <1>0, <1>6, Uninvolved DEF CreateJournal, project, TypeOK, PcOK
<1>7. CASE SkipBackup(a)
  BY <1>0, <1>7, Uninvolved DEF SkipBackup, project, TypeOK, PcOK
<1>8. CASE BackUp(a)
  BY <1>0, <1>8, Uninvolved DEF BackUp, project, TypeOK, PcOK
<1>9. CASE MarkBackedUp(a)
  BY <1>0, <1>9, Uninvolved DEF MarkBackedUp, project, TypeOK, PcOK
<1>10. CASE BeginWriting(a)
  BY <1>0, <1>10, Uninvolved DEF BeginWriting, project, TypeOK, PcOK
<1>11. CASE SkipWrite(a)
  BY <1>0, <1>11, Uninvolved DEF SkipWrite, project, TypeOK, PcOK
<1>12. CASE CheckOld(a)
  <2>1. InLoop(a) /\ idx'[a] = idx[a] /\ UNCHANGED <<disk, old, txof>>
    BY <1>0, <1>12 DEF CheckOld, Compared, Stay, journal, project
  <2>2. CASE pc'[a] = "mark"
    <3>1. pc'[a] # "replace" /\ disk[idx[a]] = old[txof[a]][idx[a]]
      BY <1>12, <2>2 DEF CheckOld, Now, Old, File, TypeOK, PcOK
    <3>2. Found(a)' = old[txof[a]][idx[a]]
      BY <2>1, <2>2 DEF Found
    <3> QED BY <2>1, <3>1, <3>2 DEF Careful, Fresh, NoWriteLost
  <2>3. CASE pc'[a] # "mark"
    <3>1. pc'[a] \notin ComparedPc
      BY <1>12, <2>3 DEF CheckOld, TypeOK, PcOK
    <3> QED BY <1>0, <2>1, <3>1, Uninvolved
  <2> QED BY <2>2, <2>3
<1>13. CASE MarkReplaced(a)
  <2>1. pc[a] = "mark" /\ idx'[a] = idx[a] /\ UNCHANGED <<disk, stale, old, txof>>
    BY <1>13 DEF MarkReplaced, Stay, project, JournalWritten, JournalFails, JournalInterrupted
  <2>2. CASE pc'[a] = "replace"
    <3>1. mfile'[a][idx[a]] = "replaced"
      BY <1>0, <1>13, <2>1 DEF MarkReplaced, Mark, File, TypeOK, MemoryOK, IndexOK, InLoop, LoopPc
    <3>2. Found(a)' = Found(a)
      BY <2>1, <2>2 DEF Found
    <3>3. Fresh(a)
      BY <1>0 DEF FreshInv
    <3> QED BY <2>1, <2>2, <3>1, <3>2, <3>3 DEF Careful, Fresh, NoWriteLost
  <2>3. CASE pc'[a] # "replace"
    <3>1. pc'[a] \notin ComparedPc
      BY <1>13, <2>3 DEF MarkReplaced, TypeOK, PcOK
    <3> QED BY <1>0, <2>1, <3>1, Uninvolved
  <2> QED BY <2>2, <2>3
<1>14. CASE Replace(a)
  <2>1. pc[a] = "replace" /\ idx'[a] = idx[a] /\ idx[a] \in Files /\ UNCHANGED <<old, new, backup, txof>>
    BY <1>14 DEF Replace, Stay, journal, TypeOK, IndexOK, InLoop, LoopPc
  <2>2. Fresh(a)
    BY <1>0 DEF FreshInv
  <2>3. idx[a] \notin stale[a] => disk[idx[a]] \in {Absent, backup[txof[a]][idx[a]]}
    <3>1. Safe(txof[a], idx[a])
      BY <1>0, <2>1, <2>2 DEF Fresh, BackupInv, Knows, MemorySafe, Covered, Journaling
    <3> QED BY <2>1, <2>2, <3>1 DEF Fresh, Found, Safe
  <2>4. \A f \in Files : disk'[f] # disk[f] => f = idx[a]
    BY <1>14, <2>1 DEF Replace, WriteFile, File, project, TypeOK, ProjectOK
  <2>5. NoWriteLost(a)
    BY <2>3, <2>4 DEF NoWriteLost
  <2>6. CASE pc'[a] = "rename"
    <3>1. disk'[idx[a]] = Absent
      BY <1>14, <2>1, <2>6 DEF Replace, WriteFile, File, TypeOK, ProjectOK, PcOK
    <3>2. Found(a)' = Absent
      BY <2>6 DEF Found
    <3> QED BY <2>1, <2>5, <2>6, <3>1, <3>2 DEF Careful, Fresh
  <2>7. CASE pc'[a] # "rename"
    <3>1. pc'[a] \notin ComparedPc
      BY <1>14, <2>7 DEF Replace, TypeOK, PcOK
    <3> QED BY <2>5, <3>1 DEF Careful, Fresh
  <2> QED BY <2>6, <2>7
<1>15. CASE Rename(a)
  <2>1. pc[a] = "rename" /\ idx'[a] = idx[a] /\ idx[a] \in Files /\ UNCHANGED <<old, new, backup, txof>>
    BY <1>15 DEF Rename, Stay, journal, TypeOK, IndexOK, InLoop, LoopPc
  <2>2. Fresh(a)
    BY <1>0 DEF FreshInv
  <2>3. idx[a] \notin stale[a] => disk[idx[a]] \in {Absent, backup[txof[a]][idx[a]]}
    BY <2>1, <2>2 DEF Fresh, Found
  <2>4. \A f \in Files : disk'[f] # disk[f] => f = idx[a]
    BY <1>15, <2>1 DEF Rename, WriteFile, File, project, TypeOK, ProjectOK
  <2>5. NoWriteLost(a)
    BY <2>3, <2>4 DEF NoWriteLost
  <2>6. pc'[a] \notin ComparedPc
    BY <1>15 DEF Rename, TypeOK, PcOK
  <2> QED BY <2>5, <2>6 DEF Careful, Fresh
<1>16. CASE Confirm(a)
  BY <1>0, <1>16, Uninvolved DEF Confirm, project, TypeOK, PcOK
<1>17. CASE Verify(a)
  BY <1>0, <1>17, Uninvolved DEF Verify, project, TypeOK, PcOK
<1>18. CASE BeginValidating(a)
  BY <1>0, <1>18, Uninvolved DEF BeginValidating, project, TypeOK, PcOK
<1>19. CASE Validate(a)
  BY <1>0, <1>19, Uninvolved DEF Validate, project, TypeOK, PcOK
<1>20. CASE Commit(a)
  BY <1>0, <1>20, Uninvolved DEF Commit, project, TypeOK, PcOK
<1>21. CASE Abort(a)
  BY <1>0, <1>21, Uninvolved DEF Abort, project, TypeOK, PcOK
<1>22. CASE Release(a)
  BY <1>0, <1>22, Uninvolved DEF Release, project, TypeOK, PcOK
<1> QED
  BY <1>1, <1>2, <1>3, <1>4, <1>5, <1>6, <1>7, <1>8, <1>9, <1>10, <1>11, <1>12, <1>13, <1>14, <1>15, <1>16, <1>17, <1>18, <1>19, <1>20, <1>21, <1>22 DEF ApplyStep

LEMMA RestoreIsCareful ==
  ASSUME TypeOK, BackupInv, FreshInv, NEW p \in Procs, RestoreStep(p)
  PROVE  Careful(p)
<1> USE DEF Go, ComparedPc
<1>1. CASE Load(p)
  BY <1>1, ConstantsAssumption, Uninvolved DEF Load, project, TypeOK, PcOK, Failed, Closing
<1>2. CASE SkipRestore(p)
  BY <1>2, Uninvolved DEF SkipRestore, project, TypeOK, PcOK
<1>3. CASE Settle(p)
  BY <1>3, Uninvolved DEF Settle, project, TypeOK, PcOK
<1>4. CASE ChooseRestore(p)
  <2>1. pc'[p] = "put_back" /\ idx'[p] = idx[p] /\ UNCHANGED <<disk, new, txof>>
    BY <1>4 DEF ChooseRestore, Compared, Stay, journal, TypeOK, PcOK
  <2>2. disk[idx[p]] = new[txof[p]][idx[p]]
    BY <1>4 DEF ChooseRestore, Now, New, File
  <2>3. Found(p)' = new[txof[p]][idx[p]]
    BY <2>1 DEF Found
  <2> QED BY <2>1, <2>2, <2>3 DEF Careful, Fresh, NoWriteLost
<1>5. CASE PutBack(p)
  <2>1. pc[p] = "put_back" /\ idx[p] \in Files /\ UNCHANGED <<old, new, backup, txof>>
    BY <1>5 DEF PutBack, journal, TypeOK, IndexOK, InLoop, LoopPc
  <2>2. Fresh(p)
    BY DEF FreshInv
  <2>3. idx[p] \notin stale[p] => disk[idx[p]] = new[txof[p]][idx[p]]
    BY <2>1, <2>2 DEF Fresh, Found
  <2>4. \A f \in Files : disk'[f] # disk[f] => f = idx[p]
    BY <1>5, <2>1 DEF PutBack, WriteFile, File, project, TypeOK, ProjectOK
  <2>5. NoWriteLost(p)
    BY <2>3, <2>4 DEF NoWriteLost
  <2>6. CASE pc'[p] = "put_rename"
    <3>1. disk'[idx[p]] = Absent /\ idx'[p] = idx[p]
      BY <1>5, <2>1, <2>6 DEF PutBack, WriteFile, File, Stay, TypeOK, ProjectOK, PcOK
    <3>2. Found(p)' = Absent
      BY <2>6 DEF Found
    <3> QED BY <2>1, <2>5, <2>6, <3>1, <3>2 DEF Careful, Fresh
  <2>7. CASE pc'[p] # "put_rename"
    <3>1. pc'[p] \notin ComparedPc
      BY <1>5, <2>7 DEF PutBack, TypeOK, PcOK
    <3> QED BY <2>5, <3>1 DEF Careful, Fresh
  <2> QED BY <2>6, <2>7
<1>6. CASE PutRename(p)
  <2>1. pc[p] = "put_rename" /\ idx[p] \in Files
    BY <1>6 DEF PutRename, TypeOK, IndexOK, InLoop, LoopPc
  <2>2. Fresh(p)
    BY DEF FreshInv
  <2>3. idx[p] \notin stale[p] => disk[idx[p]] = Absent
    BY <2>1, <2>2 DEF Fresh, Found
  <2>4. \A f \in Files : disk'[f] # disk[f] => f = idx[p]
    BY <1>6, <2>1 DEF PutRename, WriteFile, File, project, TypeOK, ProjectOK
  <2>5. pc'[p] \notin ComparedPc
    BY <1>6 DEF PutRename, TypeOK, PcOK
  <2> QED BY <2>3, <2>4, <2>5 DEF Careful, Fresh, NoWriteLost
<1>7. CASE Conclude(p)
  BY <1>7, ConstantsAssumption, Uninvolved DEF Conclude, project, TypeOK, PcOK, Failed, Closing
<1> QED
  BY <1>1, <1>2, <1>3, <1>4, <1>5, <1>6, <1>7 DEF RestoreStep

\* Every step of a process is careful.
LEMMA StepIsCareful ==
  ASSUME TypeOK, BackupInv, FreshInv, NEW q \in Procs, ProcStep(q)
  PROVE  Careful(q)
<1> USE DEF Go, ComparedPc
<1>1. ASSUME NEW r \in Recoverers, r \in Procs, ReadOwner(r) \/ Unlink(r) PROVE Careful(r)
  BY <1>1, Uninvolved DEF ReadOwner, Unlink, project, TypeOK, PcOK
<1>2. ASSUME NEW r \in Recoverers, r \in Procs, NEW t \in Appliers, StartRecover(r, t) PROVE Careful(r)
  BY <1>2, Uninvolved DEF StartRecover, project, TypeOK, PcOK
<1>3. ASSUME NEW a \in Appliers, a \in Procs, NEW v \in Versions, Plan(a, v) PROVE Careful(a)
  BY <1>3, Uninvolved DEF Plan, project, TypeOK, PcOK
<1>4. CASE Crash(q)
  BY <1>4, Uninvolved DEF Crash, project, TypeOK, PcOK
<1>5. CASE RestoreStep(q)
  BY <1>5, RestoreIsCareful
<1>6. CASE q \in Appliers /\ ApplyStep(q)
  BY <1>6, ApplyIsCareful
<1> QED
  BY <1>1, <1>2, <1>3, <1>4, <1>5, <1>6 DEF ProcStep

\* Every step keeps FreshInv, and no step loses a write.
LEMMA FreshStep ==
  TypeOK /\ BackupInv /\ FreshInv /\ [Next]_vars
    => FreshInv' /\ \A p \in Procs : Steps(p) => NoWriteLost(p)
<1> SUFFICES ASSUME TypeOK, BackupInv, FreshInv, [Next]_vars
             PROVE  FreshInv' /\ \A p \in Procs : Steps(p) => NoWriteLost(p)
  OBVIOUS
<1>1. ASSUME NEW q \in Procs, ProcStep(q)
      PROVE  FreshInv' /\ \A p \in Procs : Steps(p) => NoWriteLost(p)
  <2>1. Frame(q) /\ Careful(q)
    BY <1>1, FrameStep, StepIsCareful
  <2>2. FreshInv'
    BY <2>1, OthersFresh DEF FreshInv, Careful
  <2>3. \A p \in Procs : Steps(p) => p = q
    BY <2>1 DEF Frame, Alone, Steps
  <2> QED BY <2>1, <2>2, <2>3 DEF Careful
<1>2. ASSUME NEW f \in Files, NEW b \in Bytes, Edit(f, b)
      PROVE  FreshInv' /\ \A p \in Procs : Steps(p) => NoWriteLost(p)
  <2>1. UNCHANGED <<old, new, mfile, pc, idx, txof>>
    BY <1>2 DEF Edit, journal, memory
  <2>2. ASSUME NEW p \in Procs PROVE Fresh(p)'
    <3>1. Fresh(p) /\ Found(p)' = Found(p)
      BY <2>1 DEF FreshInv, Found
    <3>2. pc[p] \in ComparedPc => idx[p] \in Files
      BY DEF TypeOK, IndexOK, InLoop, LoopPc, ComparedPc
    <3>3. idx[p] \in Files /\ idx[p] \notin stale'[p] => idx[p] \notin stale[p] /\ disk'[idx[p]] = disk[idx[p]]
      BY <1>2 DEF Edit, TypeOK, ProjectOK
    <3> QED BY <2>1, <3>1, <3>2, <3>3 DEF Fresh
  <2>3. \A p \in Procs : ~Steps(p)
    BY <2>1 DEF Steps
  <2> QED BY <2>2, <2>3 DEF FreshInv
<1>3. CASE UNCHANGED vars
  BY <1>3 DEF vars, project, journal, memory, FreshInv, Fresh, Found, Steps
<1> QED
  BY <1>1, <1>2, <1>3, WhoSteps

LEMMA FreshInit == Init => FreshInv
BY DEF Init, FreshInv, Fresh, ComparedPc

\* Neither an apply nor a rollback loses bytes that somebody else wrote before the
\* process compared the file, however many recoveries run and whatever crashes
\* (write_files of apply.rs, recover_transaction of transaction.rs).
THEOREM WritesArePreserved == Spec => EditsPreserved
<1>1. TypeOK /\ BackupInv /\ FreshInv /\ [Next]_vars
        => FreshInv' /\ [\A p \in Procs : Steps(p) => NoWriteLost(p)]_vars
  BY FreshStep
<1> QED
  BY <1>1, FreshInit, BackupInvHolds, TypeCorrect, PTL DEF Spec, EditsPreserved

-----------------------------------------------------------------------------
(* The verdict of the journal is true                                         *)

AsBefore == {"planned", "backed_up", "restored"}
\* Nobody but transaction t wrote file f since the journal was created.
Ours(t, f) == f \notin touched[t]

\* No journal is there before the check of the plan is over.
BeforePc == {"idle", "planned", "stamp", "locked", "checked"}
NotBegun(a) ==
  pc[a] \in BeforePc => jstate[a] = "none" /\ \A f \in Files : jfile[a][f] = "none"

\* The check of the plan compared every file that will take part.
StillPlanned(a) ==
  pc[a] = "checked" =>
    \A f \in Managed :
      plan[a].action[f] \in {"add", "replace", "delete"} /\ Ours(a, f)
        => disk[f] = plan[a].local[f]

\* The journal speaks the truth about the files that nobody else wrote.
JournalTrue(t) ==
  /\ \A f \in Files : jfile[t][f] \in AsBefore /\ Ours(t, f) => disk[f] = old[t][f]
  /\ jstate[t] = "rolled_back" => \A f \in Files : jfile[t][f] \in AsBefore \union {"none"}
  /\ jstate[t] = "committed" =>
       \A f \in Files : jfile[t][f] # "none" /\ Ours(t, f) => disk[f] = new[t][f]

\* Nobody works on a transaction that ended.
JournalEnded(t) ==
  jstate[t] \in Finished => \A p \in Procs : txof[p] = t => pc[p] \notin Journaling

\* So does the memory that the journal will be written from.
MemoryTrue(p) ==
  /\ mstate[p] \notin Finished
  /\ \A f \in Files :
       mfile[p][f] \in AsBefore /\ Ours(txof[p], f) => disk[f] = old[txof[p]][f]

\* What the place of a process says of the files it has passed.
WriteLoop == {"write", "mark", "replace", "rename", "confirm"}
RestoreLoop == {"restore", "put_back", "put_rename"}
PlaceTrue(p) ==
  /\ pc[p] \in {"backup", "backup_mark"} =>
       \A f \in Files : mfile[p][f] \in {"none", "planned", "backed_up"}
  /\ pc[p] = "backup_mark" => mfile[p][idx[p]] # "none"
  /\ pc[p] \in {"replace", "rename", "confirm"} =>
       mfile[p][idx[p]] = "replaced" /\ jfile[txof[p]][idx[p]] = "replaced"
  /\ pc[p] \in WriteLoop => \A f \in Files : f < idx[p] => mfile[p][f] \in {"none", "replaced"}
  /\ pc[p] \in {"begin_validate", "validate", "commit"} =>
       \A f \in Files : mfile[p][f] # "none" /\ Ours(txof[p], f) => disk[f] = new[txof[p]][f]
  /\ pc[p] \in RestoreLoop =>
       \A f \in Files : IF f < idx[p] THEN mfile[p][f] # "replaced"
                                      ELSE mfile[p][f] = jfile[txof[p]][f]
  /\ pc[p] \in {"put_back", "put_rename"} =>
       mfile[p][idx[p]] \in {"replaced", "recovery_required"}

\* RollbackRestores and CommitMeansWritten speak of a transaction that ended.
\* They hold because journal and memory speak the truth at every step before.
VerdictInv ==
  /\ \A a \in Appliers : NotBegun(a) /\ StillPlanned(a) /\ JournalTrue(a) /\ JournalEnded(a)
  /\ \A p \in Procs : pc[p] \in Journaling => MemoryTrue(p) /\ PlaceTrue(p)

\* A step leaves transaction t alone, or tells it which file it wrote.
Kept(t) ==
  /\ old'[t] = old[t] /\ new'[t] = new[t] /\ jstate'[t] = jstate[t] /\ jfile'[t] = jfile[t]
  /\ \A f \in Files : Ours(t, f)' => Ours(t, f) /\ disk'[f] = disk[f]

LEMMA KeptByOthers ==
  ASSUME NEW p \in Procs, Frame(p), NEW t \in Appliers, t # txof[p] \/ ReadsOnly
  PROVE  Kept(t)
BY DEF Frame, Announced, Private, ReadsOnly, journal, Kept, Ours

LEMMA JournalKept ==
  ASSUME NEW t \in Appliers, Kept(t), JournalTrue(t)
  PROVE  JournalTrue(t)'
BY DEF Kept, JournalTrue, Ours

\* One process at a time works on a transaction.
LEMMA OneWorker ==
  ASSUME OneRecovery, TypeOK, RecoveredIsGone, NEW p \in Procs, NEW q \in Procs \ {p},
         txof[p] = txof[q], pc[q] \in Journaling
  PROVE  pc[p] \notin WritingPc
<1> SUFFICES ASSUME pc[p] \in WritingPc PROVE FALSE
  OBVIOUS
<1> USE DEF TypeOK, PcOK, OwnerOK, WritingPc, Journaling, ApplyPc, RestorePc, RecoverPc
<1>1. \A r \in Recoverers : pc[r] \in WritingPc => pc[r] \in RestorePc /\ pc[txof[r]] \in {"done", "crashed"}
  BY DEF RecoveredIsGone
<1>2. CASE p \in Recoverers /\ q \in Recoverers
  BY <1>2 DEF OneRecovery
<1>3. CASE p \in Recoverers /\ q \in Appliers
  BY <1>1, <1>3
<1>4. CASE p \in Appliers /\ q \in Recoverers
  BY <1>1, <1>4
<1>5. CASE p \in Appliers /\ q \in Appliers
  BY <1>5
<1> QED BY <1>2, <1>3, <1>4, <1>5 DEF Procs

\* What another process knows stays true.
LEMMA OthersTrue ==
  ASSUME OneRecovery, TypeOK, RecoveredIsGone, VerdictInv, NEW p \in Procs, Frame(p),
         NEW q \in Procs \ {p}, pc'[q] \in Journaling
  PROVE  MemoryTrue(q)' /\ PlaceTrue(q)'
<1>1. /\ pc'[q] = pc[q] /\ idx'[q] = idx[q] /\ txof'[q] = txof[q]
      /\ mfile'[q] = mfile[q] /\ mstate'[q] = mstate[q]
  BY DEF Frame, Alone
<1>2. PICK t \in Appliers : t = txof[q]
  BY DEF TypeOK, OwnerOK
<1>3. Kept(t)
  <2>1. txof[p] = t => ReadsOnly
    BY <1>1, <1>2, OneWorker DEF Frame
  <2> QED BY <2>1, KeptByOthers
<1>4. MemoryTrue(q) /\ PlaceTrue(q)
  BY <1>1 DEF VerdictInv
<1>5. \A f \in Files : Ours(t, f)' => Ours(t, f) /\ disk'[f] = disk[f] /\ old'[t][f] = old[t][f] /\ new'[t][f] = new[t][f]
  BY <1>3 DEF Kept
<1>6. MemoryTrue(q)'
  BY <1>1, <1>2, <1>4, <1>5 DEF MemoryTrue, Ours
<1>7. PlaceTrue(q)'
  BY <1>1, <1>2, <1>3, <1>4, <1>5 DEF PlaceTrue, Kept, Ours
<1> QED BY <1>6, <1>7

\* What a step of p leaves true of p itself and of its transaction.
Own(p) ==
  /\ pc'[p] \in Journaling => txof'[p] = txof[p] /\ MemoryTrue(p)' /\ PlaceTrue(p)'
  /\ \A t \in Appliers :
       t = txof[p] => JournalTrue(t)' /\ (pc'[p] \in Journaling => jstate'[t] \notin Finished)
  /\ p \in Appliers => NotBegun(p)' /\ StillPlanned(p)'

\* It is enough to look at p: the others learn of what it writes.
LEMMA OwnIsEnough ==
  ASSUME OneRecovery, TypeOK, RecoveredIsGone, VerdictInv, NEW p \in Procs, Frame(p), Own(p)
  PROVE  VerdictInv'
<1>1. ASSUME NEW q \in Procs, pc'[q] \in Journaling PROVE MemoryTrue(q)' /\ PlaceTrue(q)'
  <2>1. CASE q = p
    BY <1>1, <2>1 DEF Own
  <2>2. CASE q # p
    BY <1>1, <2>2, OthersTrue
  <2> QED BY <2>1, <2>2
<1>2. ASSUME NEW t \in Appliers PROVE JournalTrue(t)'
  <2>1. CASE t = txof[p]
    BY <2>1 DEF Own
  <2>2. CASE t # txof[p]
    BY <2>2, KeptByOthers, JournalKept DEF VerdictInv
  <2> QED BY <2>1, <2>2
<1>3. ASSUME NEW t \in Appliers PROVE NotBegun(t)' /\ StillPlanned(t)'
  <2>1. CASE t = p
    BY <2>1 DEF Own
  <2>2. CASE t # p
    <3>1. pc'[t] = pc[t] /\ plan'[t] = plan[t]
      BY <2>2 DEF Frame, Alone, Procs
    <3>2. CASE Kept(t)
      <4>1. \A f \in Managed : f \in Files
        BY ConstantsAssumption DEF Managed, Files
      <4>2. NotBegun(t) /\ StillPlanned(t)
        BY DEF VerdictInv
      <4> QED BY <3>1, <3>2, <4>1, <4>2 DEF NotBegun, StillPlanned, Kept
    <3>3. CASE ~Kept(t)
      <4>1. t = txof[p] /\ pc[p] \in WritingPc
        BY <3>3, KeptByOthers DEF Frame
      <4>2. p \in Recoverers
        BY <2>2, <4>1 DEF TypeOK, OwnerOK, Procs
      <4>3. pc[p] \in RestorePc
        BY <4>1, <4>2 DEF TypeOK, PcOK, WritingPc, Journaling, ApplyPc, RestorePc
      <4>4. pc[t] \in {"done", "crashed"}
        BY <4>1, <4>2, <4>3 DEF RecoveredIsGone
      <4> QED BY <3>1, <4>4 DEF NotBegun, StillPlanned, BeforePc
    <3> QED BY <3>2, <3>3
  <2> QED BY <2>1, <2>2
<1>4. ASSUME NEW t \in Appliers PROVE JournalEnded(t)'
  <2> SUFFICES ASSUME jstate'[t] \in Finished, NEW q \in Procs, txof'[q] = t, pc'[q] \in Journaling
               PROVE  FALSE
    BY DEF JournalEnded
  <2>1. q # p
    BY DEF Own
  <2>2. txof[q] = t /\ pc[q] \in Journaling
    BY <2>1 DEF Frame, Alone
  <2>3. jstate[t] \notin Finished
    BY <2>2 DEF VerdictInv, JournalEnded
  <2>4. t = txof[p] /\ pc[p] \in WritingPc
    BY <2>3, KeptByOthers DEF Frame, Kept
  <2> QED BY <2>1, <2>2, <2>4, OneWorker
<1> QED BY <1>1, <1>2, <1>3, <1>4 DEF VerdictInv

\* A process that works on a transaction: it has not ended.
LEMMA StillOpen ==
  ASSUME TypeOK, VerdictInv, NEW p \in Procs, pc[p] \in Journaling
  PROVE  txof[p] \in Appliers /\ jstate[txof[p]] \notin Finished
           /\ MemoryTrue(p) /\ PlaceTrue(p) /\ JournalTrue(txof[p])
BY DEF TypeOK, OwnerOK, VerdictInv, JournalEnded

\* A step that only looks at the files and moves on.
LEMMA Looks ==
  ASSUME TypeOK, VerdictInv, NEW p \in Procs, pc[p] \in Journaling, ReadsOnly,
         UNCHANGED txof, mfile'[p] = mfile[p], mstate'[p] = mstate[p],
         pc'[p] \notin BeforePc, pc'[p] \in Journaling => PlaceTrue(p)'
  PROVE  Own(p)
<1>1. UNCHANGED <<disk, touched, old, new, jstate, jfile>>
  BY DEF ReadsOnly, journal
<1>2. MemoryTrue(p) /\ jstate[txof[p]] \notin Finished
  BY StillOpen
<1>3. MemoryTrue(p)'
  BY <1>1, <1>2 DEF MemoryTrue, Ours
<1>4. \A t \in Appliers : JournalTrue(t)'
  BY <1>1 DEF VerdictInv, JournalTrue, Ours
<1> QED
  BY <1>1, <1>2, <1>3, <1>4 DEF Own, NotBegun, StillPlanned, BeforePc

\* A step that leaves the transaction.
LEMMA Leaves ==
  ASSUME TypeOK, VerdictInv, NEW p \in Procs, ReadsOnly, pc'[p] \notin Journaling \union BeforePc
  PROVE  Own(p)
<1>1. UNCHANGED <<disk, touched, old, new, jstate, jfile>>
  BY DEF ReadsOnly, journal
<1>2. \A t \in Appliers : JournalTrue(t)'
  BY <1>1 DEF VerdictInv, JournalTrue, Ours
<1> QED
  BY <1>2 DEF Own, NotBegun, StillPlanned, BeforePc

\* The journal is written from the memory, or the write fails.
LEMMA Journals ==
  ASSUME TypeOK, TypeOK', VerdictInv, NEW p \in Procs, pc[p] \in Journaling,
         JournalWritten(p) \/ JournalFails(p),
         UNCHANGED <<disk, touched, txof>>,
         \A f \in Files : mfile'[p][f] \in AsBefore /\ Ours(txof[p], f) => disk[f] = old[txof[p]][f],
         mstate'[p] = "rolled_back" => \A f \in Files : mfile'[p][f] \in AsBefore \union {"none"},
         mstate'[p] = "committed" =>
           \A f \in Files : mfile'[p][f] # "none" /\ Ours(txof[p], f) => disk[f] = new[txof[p]][f],
         pc'[p] \notin BeforePc,
         pc'[p] \in Journaling => PlaceTrue(p)' /\ mstate'[p] \notin Finished
  PROVE  Own(p)
<1>1. PICK t \in Appliers : t = txof[p]
  BY StillOpen
<1>2. UNCHANGED <<old, new>>
  BY DEF JournalWritten, JournalFails, JournalInterrupted
<1>3. JournalTrue(t) /\ jstate[t] \notin Finished
  BY <1>1, StillOpen
<1>4. JournalTrue(t)' /\ (mstate'[p] \notin Finished => jstate'[t] \notin Finished)
  <2>1. CASE JournalWritten(p)
    <3>1. jstate'[t] = mstate'[p] /\ jfile'[t] = mfile'[p]
      BY <1>1, <2>1 DEF JournalWritten, TypeOK, JournalOK
    <3> QED BY <1>1, <1>2, <3>1 DEF JournalTrue, Ours
  <2>2. CASE JournalFails(p)
    <3>1. jstate'[t] \in {jstate[t], "none"} /\ jfile'[t] = jfile[t]
      BY <1>1, <2>2 DEF JournalFails, JournalInterrupted, TypeOK, JournalOK
    <3> QED BY <1>2, <1>3, <3>1 DEF JournalTrue, Ours, Finished
  <2> QED BY <2>1, <2>2
<1>5. pc'[p] \in Journaling => MemoryTrue(p)'
  BY <1>2 DEF MemoryTrue, Ours
<1> QED
  BY <1>1, <1>4, <1>5 DEF Own, NotBegun, StillPlanned, BeforePc

\* One file is written, or marked in memory, while the journal already says that
\* it may have been replaced.
LEMMA Writes ==
  ASSUME TypeOK, VerdictInv, NEW p \in Procs, pc[p] \in Journaling, idx[p] \in Files,
         UNCHANGED <<old, new, jstate, jfile, txof>>, mstate'[p] = mstate[p],
         touched'[txof[p]] = touched[txof[p]],
         \A f \in Files : f # idx[p] => disk'[f] = disk[f] /\ mfile'[p][f] = mfile[p][f],
         jfile[txof[p]][idx[p]] \notin AsBefore,
         mfile'[p][idx[p]] \in AsBefore => disk'[idx[p]] = old[txof[p]][idx[p]],
         pc'[p] \notin BeforePc, pc'[p] \in Journaling => PlaceTrue(p)'
  PROVE  Own(p)
<1>1. PICK t \in Appliers : t = txof[p]
  BY StillOpen
<1>2. MemoryTrue(p) /\ JournalTrue(t) /\ jstate[t] \notin Finished
  BY <1>1, StillOpen
<1>3. MemoryTrue(p)'
  BY <1>2 DEF MemoryTrue, Ours
<1>4. JournalTrue(t)'
  BY <1>1, <1>2 DEF JournalTrue, Ours, Finished
<1> QED
  BY <1>1, <1>2, <1>3, <1>4 DEF Own, NotBegun, StillPlanned, BeforePc

\* The steps of an apply, up to the journal.
LEMMA OwnBefore ==
  ASSUME TypeOK, TypeOK', VerdictInv, NEW a \in Appliers,
         \/ CreateLock(a) \/ Busy(a) \/ StampLock(a) \/ Recheck(a) \/ PrepareFails(a)
         \/ Release(a) \/ \E v \in Versions : Plan(a, v)
  PROVE  Own(a)
<1> USE DEF Go, Stay, project, journal
<1>1. a \in Procs /\ txof[a] = a
  BY DEF Procs, TypeOK, OwnerOK
<1>2. NotBegun(a) /\ JournalTrue(a)
  BY DEF VerdictInv
<1>3. CASE Recheck(a)
  <2>1. /\ pc[a] = "locked" /\ pc'[a] \in {"checked", "release"}
        /\ UNCHANGED <<disk, plan, old, new, jstate, jfile>>
    BY <1>1, <1>3 DEF Recheck, TypeOK, PcOK
  <2>2. jstate[a] = "none" /\ \A f \in Files : jfile[a][f] = "none"
    BY <1>2, <2>1 DEF NotBegun, BeforePc
  <2>3. JournalTrue(a)'
    BY <2>1, <2>2 DEF JournalTrue, AsBefore
  <2>4. NotBegun(a)'
    BY <2>1, <2>2 DEF NotBegun
  <2>5. StillPlanned(a)'
    <3> SUFFICES ASSUME pc'[a] = "checked", NEW f \in Managed,
                        plan[a].action[f] \in {"add", "replace", "delete"}
                 PROVE  disk[f] = plan[a].local[f]
      BY <2>1 DEF StillPlanned
    <3>1. PlanOf(disk, plan[a].to) = plan[a]
      BY <1>1, <1>3, <2>1 DEF Recheck, TypeOK, PcOK
    <3> DEFINE v == plan[a].to
               b == BaseOf(disk, v)
               known(g) == b # Absent /\ (Template[b][g] # Absent \/ Template[v][g] # Absent)
    <3>2. /\ PlanOf(disk, v).local = [g \in Managed |-> IF known(g) THEN disk[g] ELSE Absent]
          /\ PlanOf(disk, v).action = [g \in Managed |-> IF known(g)
                       THEN Classify(Template[b][g], disk[g], Template[v][g]) ELSE "no_change"]
      BY Zenon DEF PlanOf
    <3>3. plan[a].action[f] = IF known(f)
                       THEN Classify(Template[b][f], disk[f], Template[v][f]) ELSE "no_change"
      BY <3>1, <3>2
    <3>4. plan[a].local[f] = IF known(f) THEN disk[f] ELSE Absent
      BY <3>1, <3>2
    <3> HIDE DEF v, b, known
    <3> QED BY <3>3, <3>4
  <2> QED BY <1>1, <2>1, <2>3, <2>4, <2>5 DEF Own, Journaling
<1>4. CASE CreateLock(a) \/ StampLock(a) \/ \E v \in Versions : Plan(a, v)
  <2>1. /\ pc[a] \in BeforePc /\ pc'[a] \in {"planned", "stamp", "locked", "done"}
        /\ UNCHANGED <<disk, touched, old, new, jstate, jfile>>
    BY <1>1, <1>4 DEF CreateLock, StampLock, Plan, TypeOK, PcOK, BeforePc
  <2>2. JournalTrue(a)'
    BY <1>2, <2>1 DEF JournalTrue, Ours
  <2>3. NotBegun(a)' /\ StillPlanned(a)'
    BY <1>2, <2>1 DEF NotBegun, StillPlanned
  <2> QED BY <1>1, <2>1, <2>2, <2>3 DEF Own, Journaling
<1>5. CASE Busy(a) \/ PrepareFails(a) \/ Release(a)
  <2>1. ReadsOnly /\ pc'[a] \in {"done", "release"}
    BY <1>1, <1>5 DEF Busy, PrepareFails, Release, ReadsOnly, TypeOK, PcOK
  <2> QED BY <1>1, <2>1, Leaves DEF Journaling, BeforePc
<1> QED BY <1>3, <1>4, <1>5

\* The journal records what the check found, so it is true when it is created.
LEMMA OwnCreateJournal ==
  ASSUME TypeOK, TypeOK', VerdictInv, NEW a \in Appliers, CreateJournal(a)
  PROVE  Own(a)
<1> USE DEF Go, Restart, Remember, project
<1>1. a \in Procs /\ txof[a] = a /\ UNCHANGED <<disk, touched, plan, txof>>
  BY DEF Procs, TypeOK, OwnerOK, CreateJournal
<1>2. pc[a] = "checked" /\ pc'[a] = "backup" /\ idx'[a] = 1
  BY DEF CreateJournal, TypeOK, PcOK, IndexOK
<1>3. /\ mstate'[a] = "prepared" /\ jstate'[a] = "prepared" /\ jfile'[a] = mfile'[a]
      /\ mfile'[a] = [f \in Files |-> IF TakesPart(a, f) THEN "planned" ELSE "none"]
      /\ old'[a] = [f \in Files |-> IF f = Manifest THEN disk[f] ELSE plan[a].local[f]]
  BY DEF CreateJournal, TypeOK, MemoryOK, JournalOK
<1>4. \A f \in Files : f # Manifest => f \in Managed
  BY ConstantsAssumption DEF Files, Managed, Manifest
<1>5. \A f \in Files : TakesPart(a, f) /\ Ours(a, f) => disk[f] = old'[a][f]
  <2> SUFFICES ASSUME NEW f \in Files, TakesPart(a, f), Ours(a, f) PROVE disk[f] = old'[a][f]
    OBVIOUS
  <2>1. CASE f = Manifest
    BY <1>3, <2>1
  <2>2. CASE f # Manifest
    BY <1>2, <1>3, <1>4, <2>2 DEF VerdictInv, StillPlanned, TakesPart
  <2> QED BY <2>1, <2>2
<1>6. MemoryTrue(a)' /\ JournalTrue(a)'
  BY <1>1, <1>3, <1>5 DEF MemoryTrue, JournalTrue, Ours, AsBefore, Finished
<1>7. PlaceTrue(a)'
  BY <1>2, <1>3 DEF PlaceTrue, WriteLoop, RestoreLoop
<1> QED
  BY <1>1, <1>2, <1>3, <1>6, <1>7 DEF Own, NotBegun, StillPlanned, BeforePc, Finished

\* The steps of an apply that look at a file and move on.
LEMMA OwnLooks ==
  ASSUME TypeOK, TypeOK', VerdictInv, NEW a \in Appliers,
         \/ SkipBackup(a) \/ BackUp(a) \/ SkipWrite(a) \/ CheckOld(a)
         \/ Confirm(a) \/ Verify(a) \/ Validate(a)
  PROVE  Own(a)
<1> USE DEF Go, Stay, Next1, project, journal, memory
<1>1. a \in Procs /\ txof[a] = a
  BY DEF Procs, TypeOK, OwnerOK
<1>2. /\ pc[a] \in Journaling /\ pc'[a] \notin BeforePc
      /\ ReadsOnly /\ UNCHANGED <<txof, mfile, mstate>>
  BY <1>1 DEF SkipBackup, BackUp, SkipWrite, CheckOld, Confirm, Verify, Validate, Compared,
    ReadsOnly, Journaling, BeforePc, TypeOK, PcOK
<1>3. MemoryTrue(a) /\ PlaceTrue(a)
  BY <1>1, <1>2, StillOpen
<1>4. UNCHANGED <<disk, touched, old, new, jfile>>
  BY <1>2 DEF ReadsOnly
<1> SUFFICES ASSUME pc'[a] \in Journaling PROVE PlaceTrue(a)'
  BY <1>1, <1>2, Looks
<1>5. CASE SkipBackup(a) \/ BackUp(a)
  <2>1. pc[a] = "backup" /\ pc'[a] \in {"backup", "backup_mark", "abort"}
    BY <1>1, <1>5 DEF SkipBackup, BackUp, TypeOK, PcOK
  <2>2. pc'[a] = "backup_mark" => mfile[a][idx[a]] # "none" /\ idx'[a] = idx[a]
    BY <1>1, <1>5 DEF SkipBackup, BackUp, Member, File, TypeOK, PcOK
  <2> QED BY <1>2, <1>3, <2>1, <2>2 DEF PlaceTrue, WriteLoop, RestoreLoop
<1>6. CASE SkipWrite(a)
  <2>1. pc[a] = "write" /\ pc'[a] = "write" /\ idx'[a] = idx[a] + 1 /\ mfile[a][idx[a]] = "none"
    BY <1>1, <1>6 DEF SkipWrite, Member, File, TypeOK, IndexOK
  <2>2. \A f \in Files : f < idx'[a] => f < idx[a] \/ f = idx[a]
    BY <1>1, <2>1 DEF Files, TypeOK, IndexOK
  <2> QED BY <1>2, <1>3, <2>1, <2>2 DEF PlaceTrue, WriteLoop, RestoreLoop
<1>7. CASE CheckOld(a)
  <2>1. pc[a] = "write" /\ pc'[a] \in {"mark", "abort"} /\ idx'[a] = idx[a]
    BY <1>1, <1>7 DEF CheckOld, TypeOK, PcOK
  <2> QED BY <1>2, <1>3, <2>1 DEF PlaceTrue, WriteLoop, RestoreLoop
<1>8. CASE Confirm(a)
  <2>1. pc[a] = "confirm" /\ (pc'[a] = "abort" \/ (pc'[a] = "write" /\ idx'[a] = idx[a] + 1))
    <3>1. pc[a] = "confirm" /\ (Go(a, "abort") \/ (Next1(a) /\ Go(a, "write")))
      BY <1>8 DEF Confirm
    <3> QED BY <1>1, <3>1 DEF TypeOK, PcOK, IndexOK
  <2>2. \A f \in Files : f < idx[a] + 1 => f < idx[a] \/ f = idx[a]
    BY <1>1 DEF Files, TypeOK, IndexOK
  <2> QED BY <1>2, <1>3, <2>1, <2>2 DEF PlaceTrue, WriteLoop, RestoreLoop
<1>9. CASE Verify(a)
  <2>1. pc[a] = "write" /\ pc'[a] \in {"begin_validate", "abort"} /\ ~InLoop(a)
    BY <1>1, <1>9 DEF Verify, TypeOK, PcOK
  <2>2. \A f \in Files : f < idx[a]
    BY <1>1, <2>1, ConstantsAssumption DEF InLoop, Files, TypeOK, IndexOK
  <2>3. \A f \in Files : mfile[a][f] \in {"none", "replaced"}
    BY <1>3, <2>1, <2>2 DEF PlaceTrue, WriteLoop
  <2>4. pc'[a] = "begin_validate" => \A f \in Files : mfile[a][f] = "replaced" => disk[f] = new[a][f]
    BY <1>1, <1>9, <2>1 DEF Verify, TypeOK, PcOK
  <2> QED BY <1>1, <1>2, <1>4, <2>1, <2>3, <2>4 DEF PlaceTrue, WriteLoop, RestoreLoop
<1>10. CASE Validate(a)
  <2>1. pc[a] = "validate" /\ pc'[a] \in {"commit", "abort"}
    BY <1>1, <1>10 DEF Validate, TypeOK, PcOK
  <2> QED BY <1>2, <1>3, <1>4, <2>1 DEF PlaceTrue, WriteLoop, RestoreLoop, Ours
<1> QED BY <1>5, <1>6, <1>7, <1>8, <1>9, <1>10

\* The steps of an apply that write the journal.
LEMMA OwnJournals ==
  ASSUME TypeOK, TypeOK', VerdictInv, NEW a \in Appliers,
         \/ MarkBackedUp(a) \/ BeginWriting(a) \/ MarkReplaced(a) \/ BeginValidating(a)
         \/ Commit(a) \/ Abort(a)
  PROVE  Own(a)
<1> USE DEF Go, Stay, Next1, Restart, project
<1>1. a \in Procs /\ txof[a] = a
  BY DEF Procs, TypeOK, OwnerOK
<1>2. /\ pc[a] \in Journaling /\ pc'[a] \notin BeforePc
      /\ JournalWritten(a) \/ JournalFails(a)
      /\ UNCHANGED <<disk, touched, txof, old, new>>
  BY <1>1 DEF MarkBackedUp, BeginWriting, MarkReplaced, BeginValidating, Commit, Abort,
    JournalWritten, JournalFails, JournalInterrupted, Journaling, BeforePc, TypeOK, PcOK
<1>3. MemoryTrue(a) /\ PlaceTrue(a)
  BY <1>1, <1>2, StillOpen
<1>4. CASE MarkBackedUp(a)
  <2>1. /\ pc[a] = "backup_mark" /\ pc'[a] \in {"backup", "abort"} /\ mstate'[a] = mstate[a]
        /\ mfile'[a] = [mfile[a] EXCEPT ![idx[a]] = "backed_up"]
    BY <1>1, <1>4 DEF MarkBackedUp, Mark, File, TypeOK, PcOK, MemoryOK
  <2>2. mfile[a][idx[a]] \in AsBefore /\ idx[a] \in Files
    BY <1>1, <1>3, <2>1 DEF PlaceTrue, AsBefore, TypeOK, IndexOK, LoopPc, InLoop
  <2>3. \A f \in Files : mfile'[a][f] \in {mfile[a][f], "backed_up"} /\ (f # idx[a] => mfile'[a][f] = mfile[a][f])
    BY <1>1, <2>1 DEF TypeOK, MemoryOK
  <2>4. \A f \in Files : mfile'[a][f] \in AsBefore /\ Ours(a, f) => disk[f] = old[a][f]
    BY <1>1, <1>3, <2>2, <2>3 DEF MemoryTrue
  <2>5. pc'[a] \in Journaling => PlaceTrue(a)'
    BY <1>3, <2>1, <2>3 DEF PlaceTrue, WriteLoop, RestoreLoop
  <2> QED BY <1>1, <1>2, <1>3, <2>1, <2>4, <2>5, Journals DEF MemoryTrue, Finished
<1>5. CASE BeginWriting(a)
  <2>1. /\ pc'[a] \in {"write", "release"} /\ mstate'[a] = "writing" /\ mfile'[a] = mfile[a]
        /\ idx'[a] = 1
    BY <1>1, <1>5 DEF BeginWriting, Remember, TypeOK, PcOK, MemoryOK, IndexOK
  <2>2. pc'[a] \in Journaling => PlaceTrue(a)'
    BY <2>1 DEF PlaceTrue, WriteLoop, RestoreLoop, Journaling, Files
  <2> QED BY <1>1, <1>2, <1>3, <2>1, <2>2, Journals DEF MemoryTrue, Finished
<1>6. CASE MarkReplaced(a)
  <2>1. /\ pc[a] = "mark" /\ pc'[a] \in {"replace", "abort"} /\ mstate'[a] = mstate[a]
        /\ mfile'[a] = [mfile[a] EXCEPT ![idx[a]] = "replaced"] /\ idx'[a] = idx[a]
    BY <1>1, <1>6 DEF MarkReplaced, Mark, File, TypeOK, PcOK, MemoryOK
  <2>2. idx[a] \in Files
    BY <1>1, <2>1 DEF TypeOK, IndexOK, LoopPc, InLoop
  <2>3. \A f \in Files : mfile'[a][f] = IF f = idx[a] THEN "replaced" ELSE mfile[a][f]
    BY <1>1, <2>1 DEF TypeOK, MemoryOK
  <2>4. \A f \in Files : mfile'[a][f] \in AsBefore /\ Ours(a, f) => disk[f] = old[a][f]
    BY <1>1, <1>3, <2>3 DEF MemoryTrue, AsBefore
  <2>5. pc'[a] = "replace" => jfile'[a] = mfile'[a]
    BY <1>1, <1>6, <2>1 DEF MarkReplaced, JournalWritten, TypeOK, JournalOK, PcOK
  <2>6. pc'[a] \in Journaling => PlaceTrue(a)'
    <3>1. \A f \in Files : f < idx[a] => mfile'[a][f] \in {"none", "replaced"}
      BY <1>3, <2>1, <2>3 DEF PlaceTrue, WriteLoop
    <3>2. mfile'[a][idx[a]] = "replaced"
      BY <2>2, <2>3
    <3> QED BY <1>1, <1>2, <2>1, <2>5, <3>1, <3>2 DEF PlaceTrue, WriteLoop, RestoreLoop
  <2> QED BY <1>1, <1>2, <1>3, <2>1, <2>4, <2>6, Journals DEF MemoryTrue, Finished
<1>7. CASE BeginValidating(a)
  <2>1. /\ pc[a] = "begin_validate" /\ pc'[a] \in {"validate", "release"}
        /\ mstate'[a] = "validating" /\ mfile'[a] = mfile[a]
    BY <1>1, <1>7 DEF BeginValidating, Remember, TypeOK, PcOK, MemoryOK
  <2>2. pc'[a] \in Journaling => PlaceTrue(a)'
    BY <1>2, <1>3, <2>1 DEF PlaceTrue, WriteLoop, RestoreLoop, Journaling, Ours
  <2> QED BY <1>1, <1>2, <1>3, <2>1, <2>2, Journals DEF MemoryTrue, Finished
<1>8. CASE Commit(a)
  <2>1. /\ pc[a] = "commit" /\ pc'[a] = "release" /\ mstate'[a] = "committed" /\ mfile'[a] = mfile[a]
    BY <1>1, <1>8 DEF Commit, Remember, TypeOK, PcOK, MemoryOK
  <2>2. \A f \in Files : mfile'[a][f] # "none" /\ Ours(a, f) => disk[f] = new[a][f]
    BY <1>1, <1>3, <2>1 DEF PlaceTrue
  <2> QED BY <1>1, <1>2, <1>3, <2>1, <2>2, Journals DEF MemoryTrue, Finished, Journaling
<1>9. CASE Abort(a)
  <2>1. pc'[a] = "load" /\ mstate'[a] = "recovery_required" /\ mfile'[a] = mfile[a]
    BY <1>1, <1>9 DEF Abort, Remember, TypeOK, PcOK, MemoryOK
  <2> QED BY <1>1, <1>2, <1>3, <2>1, Journals DEF MemoryTrue, Finished, Journaling
<1> QED BY <1>4, <1>5, <1>6, <1>7, <1>8, <1>9

\* The steps of an apply that write a file.
LEMMA OwnWrites ==
  ASSUME TypeOK, TypeOK', VerdictInv, NEW a \in Appliers, Replace(a) \/ Rename(a)
  PROVE  Own(a)
<1> USE DEF Go, Stay, journal, memory, project
<1>1. a \in Procs /\ txof[a] = a
  BY DEF Procs, TypeOK, OwnerOK
<1>2. /\ pc[a] \in {"replace", "rename"} /\ pc'[a] \in {"rename", "confirm", "abort"}
      /\ UNCHANGED <<old, new, jstate, jfile, txof, mfile, mstate, idx>>
  BY <1>1 DEF Replace, Rename, TypeOK, PcOK
<1>3. idx[a] \in Files /\ pc[a] \in Journaling
  BY <1>1, <1>2 DEF TypeOK, IndexOK, LoopPc, InLoop, Journaling
<1>4. MemoryTrue(a) /\ PlaceTrue(a)
  BY <1>1, <1>3, StillOpen
<1>5. mfile[a][idx[a]] = "replaced" /\ jfile[a][idx[a]] = "replaced"
  BY <1>1, <1>2, <1>4 DEF PlaceTrue
<1>6. UNCHANGED project \/ WriteFile(a, idx[a], Absent) \/ WriteFile(a, idx[a], New(a))
  BY DEF Replace, Rename, File
<1>7. touched'[a] = touched[a] /\ \A f \in Files : f # idx[a] => disk'[f] = disk[f]
  BY <1>1, <1>6 DEF WriteFile, TypeOK, ProjectOK
<1>8. PlaceTrue(a)'
  BY <1>1, <1>2, <1>4, <1>5 DEF PlaceTrue, WriteLoop, RestoreLoop
<1> QED
  BY <1>1, <1>2, <1>3, <1>5, <1>7, <1>8, Writes DEF AsBefore, BeforePc

\* The steps of a recovery.
LEMMA OwnRestores ==
  ASSUME TypeOK, TypeOK', VerdictInv, NEW p \in Procs, RestoreStep(p)
  PROVE  Own(p)
<1> USE DEF Go, Stay, Next1, Restart, journal, memory, project
<1>1. PICK t \in Appliers : t = txof[p]
  BY DEF TypeOK, OwnerOK
<1>2. JournalTrue(t)
  BY DEF VerdictInv
<1>3. CASE Load(p)
  <2>1. ReadsOnly /\ UNCHANGED <<disk, touched, old, new, jstate, jfile, txof>> /\ idx'[p] = 1
    BY <1>3 DEF Load, ReadsOnly, TypeOK, IndexOK
  <2>2. CASE pc'[p] = "restore"
    <3>1. jstate[t] \notin Finished /\ mstate'[p] = jstate[t] /\ mfile'[p] = jfile[t]
      BY <1>1, <1>3, <2>2, ConstantsAssumption DEF Load, Failed, Closing, TypeOK, PcOK, MemoryOK
    <3>2. MemoryTrue(p)'
      BY <1>1, <1>2, <2>1, <3>1 DEF MemoryTrue, JournalTrue, Ours
    <3>3. PlaceTrue(p)'
      BY <1>1, <2>1, <2>2, <3>1 DEF PlaceTrue, WriteLoop, RestoreLoop, Files
    <3>4. JournalTrue(t)'
      BY <1>2, <2>1 DEF JournalTrue, Ours
    <3> QED
      BY <1>1, <2>1, <2>2, <3>1, <3>2, <3>3, <3>4 DEF Own, NotBegun, StillPlanned, BeforePc
  <2>3. CASE pc'[p] # "restore"
    <3>1. pc'[p] \notin Journaling \union BeforePc
      BY <1>3, <2>3, ConstantsAssumption DEF Load, Failed, Closing, TypeOK, PcOK, Journaling, BeforePc
    <3> QED BY <2>1, <3>1, Leaves
  <2> QED BY <2>2, <2>3
<1>4. ASSUME pc[p] \in RestoreLoop PROVE /\ pc[p] \in Journaling /\ MemoryTrue(p)
                                         /\ \A f \in Files : IF f < idx[p] THEN mfile[p][f] # "replaced"
                                                                           ELSE mfile[p][f] = jfile[t][f]
  BY <1>1, <1>4, StillOpen DEF RestoreLoop, Journaling, PlaceTrue
<1>5. \A f \in Files : f < idx[p] + 1 => f < idx[p] \/ f = idx[p]
  BY DEF Files, TypeOK, IndexOK
<1>6. CASE SkipRestore(p) \/ ChooseRestore(p)
  <2>1. /\ pc[p] = "restore" /\ pc'[p] \in {"restore", "put_back"} /\ InLoop(p)
        /\ ReadsOnly /\ UNCHANGED <<disk, touched, old, new, jfile, txof, mfile, mstate>>
    BY <1>6 DEF SkipRestore, ChooseRestore, Compared, ReadsOnly, TypeOK, PcOK
  <2>2. PlaceTrue(p)'
    <3>1. CASE SkipRestore(p)
      <4>1. idx'[p] = idx[p] + 1 /\ mfile[p][idx[p]] # "replaced" /\ pc'[p] = "restore"
        BY <3>1 DEF SkipRestore, File, TypeOK, IndexOK, PcOK
      <4>2. \A f \in Files : ~(f < idx[p] + 1) => ~(f < idx[p])
        BY DEF Files, TypeOK, IndexOK
      <4> QED BY <1>1, <1>4, <1>5, <2>1, <4>1, <4>2 DEF PlaceTrue, WriteLoop, RestoreLoop
    <3>2. CASE ChooseRestore(p)
      <4>1. idx'[p] = idx[p] /\ mfile[p][idx[p]] \in {"replaced", "recovery_required"} /\ pc'[p] = "put_back"
        BY <3>2 DEF ChooseRestore, File, TypeOK, PcOK
      <4> QED BY <1>1, <1>4, <2>1, <4>1 DEF PlaceTrue, WriteLoop, RestoreLoop
    <3> QED BY <1>6, <3>1, <3>2
  <2> QED BY <1>4, <2>1, <2>2, Looks DEF BeforePc, RestoreLoop
<1>7. CASE Settle(p) \/ PutBack(p) \/ PutRename(p)
  <2>1. /\ pc[p] \in RestoreLoop /\ idx[p] \in Files
        /\ UNCHANGED <<old, new, jstate, jfile, txof, mstate>>
        /\ pc'[p] \in {"restore", "put_rename"}
    BY <1>7 DEF Settle, PutBack, PutRename, RestoreLoop, InLoop, TypeOK, IndexOK, LoopPc, PcOK
  <2>2. mfile[p][idx[p]] \in {"replaced", "recovery_required"}
    <3>1. CASE Settle(p)
      BY <3>1 DEF Settle, File
    <3>2. CASE PutBack(p) \/ PutRename(p)
      BY <1>4, <2>1, <3>2, StillOpen DEF PutBack, PutRename, PlaceTrue
    <3> QED BY <1>7, <3>1, <3>2
  <2>3. jfile[t][idx[p]] \in {"replaced", "recovery_required"}
    BY <1>4, <2>1, <2>2 DEF Files
  <2>4. \/ /\ pc'[p] = "put_rename" /\ idx'[p] = idx[p] /\ mfile' = mfile
           /\ WriteFile(p, idx[p], Absent)
        \/ /\ pc'[p] = "restore" /\ idx'[p] = idx[p] + 1
           /\ \E s \in {"restored", "user_modified", "recovery_required"} :
                /\ mfile' = [mfile EXCEPT ![p][idx[p]] = s]
                /\ \/ UNCHANGED project /\ (s = "restored" => disk[idx[p]] = old[t][idx[p]])
                   \/ WriteFile(p, idx[p], old[t][idx[p]])
    <3>1. CASE Settle(p)
      BY <1>1, <3>1 DEF Settle, Mark, File, Now, Old, TypeOK, PcOK, IndexOK
    <3>2. CASE PutBack(p)
      BY <1>1, <3>2 DEF PutBack, Mark, File, Old, TypeOK, PcOK, IndexOK
    <3>3. CASE PutRename(p)
      BY <1>1, <3>3 DEF PutRename, Mark, File, Old, TypeOK, PcOK, IndexOK
    <3> QED BY <1>7, <3>1, <3>2, <3>3
  <2>5. /\ touched'[t] = touched[t]
        /\ \A f \in Files : f # idx[p] => disk'[f] = disk[f] /\ mfile'[p][f] = mfile[p][f]
    BY <1>1, <2>4 DEF WriteFile, TypeOK, ProjectOK, MemoryOK
  <2>6. mfile'[p][idx[p]] \in AsBefore => disk'[idx[p]] = old[t][idx[p]]
    BY <2>1, <2>2, <2>4 DEF WriteFile, TypeOK, ProjectOK, MemoryOK, AsBefore
  <2>7. PlaceTrue(p)'
    <3>1. CASE pc'[p] = "put_rename"
      BY <1>1, <1>4, <2>1, <2>2, <2>4, <3>1 DEF PlaceTrue, WriteLoop, RestoreLoop
    <3>2. CASE pc'[p] = "restore"
      <4>1. idx'[p] = idx[p] + 1 /\ mfile'[p][idx[p]] # "replaced"
        BY <2>1, <2>4, <3>2 DEF TypeOK, MemoryOK
      <4>2. \A f \in Files : ~(f < idx[p] + 1) => ~(f < idx[p]) /\ f # idx[p]
        BY DEF Files, TypeOK, IndexOK
      <4>3. \A f \in Files : IF f < idx[p] + 1 THEN mfile'[p][f] # "replaced"
                                               ELSE mfile'[p][f] = jfile'[t][f]
        BY <1>4, <1>5, <2>1, <2>5, <4>1, <4>2
      <4> QED BY <1>1, <2>1, <3>2, <4>1, <4>3 DEF PlaceTrue, WriteLoop, RestoreLoop
    <3> QED BY <2>1, <3>1, <3>2
  <2> QED
    BY <1>1, <1>4, <2>1, <2>3, <2>5, <2>6, <2>7, Writes DEF AsBefore, BeforePc
<1>8. CASE Conclude(p)
  <2>1. /\ pc[p] = "restore" /\ ~InLoop(p) /\ pc'[p] \notin Journaling \union BeforePc
        /\ UNCHANGED <<disk, touched, txof, old, mfile>> /\ mstate'[p] = Outcome(p)
        /\ JournalWritten(p) \/ JournalFails(p)
    BY <1>8, ConstantsAssumption DEF Conclude, Remember, JournalWritten, JournalFails,
      JournalInterrupted, Failed, Closing, Journaling, BeforePc, TypeOK, PcOK, MemoryOK
  <2>2. \A f \in Files : f < idx[p]
    BY <2>1, ConstantsAssumption DEF InLoop, Files, TypeOK, IndexOK
  <2>3. \A f \in Files : mfile[p][f] # "replaced"
    BY <1>4, <2>1, <2>2 DEF RestoreLoop
  <2>4. mstate'[p] = "rolled_back" => \A f \in Files : mfile'[p][f] \in AsBefore \union {"none"}
    BY <2>1, <2>3 DEF Outcome, AsBefore, FileState, TypeOK, MemoryOK
  <2>5. mstate'[p] # "committed"
    BY <2>1 DEF Outcome
  <2>6. \A f \in Files : mfile'[p][f] \in AsBefore /\ Ours(t, f) => disk[f] = old[t][f]
    BY <1>1, <1>4, <2>1 DEF MemoryTrue, RestoreLoop
  <2> QED BY <1>1, <1>4, <2>1, <2>4, <2>5, <2>6, Journals DEF RestoreLoop
<1> QED BY <1>3, <1>6, <1>7, <1>8 DEF RestoreStep

\* A crash leaves the journal as it is, or none.
LEMMA OwnCrash ==
  ASSUME TypeOK, VerdictInv, NEW p \in Procs, Crash(p)
  PROVE  Own(p)
<1>1. PICK t \in Appliers : t = txof[p]
  BY DEF TypeOK, OwnerOK
<1>2. pc'[p] = "crashed" /\ UNCHANGED <<disk, touched, old, new, jfile>>
  BY DEF Crash, Go, project, journal, JournalInterrupted, TypeOK, PcOK
<1>3. jstate'[t] \in {jstate[t], "none"}
  BY <1>1 DEF Crash, journal, JournalInterrupted, TypeOK, JournalOK
<1>4. JournalTrue(t)'
  BY <1>2, <1>3 DEF VerdictInv, JournalTrue, Ours
<1> QED
  BY <1>1, <1>2, <1>4 DEF Own, Journaling, NotBegun, StillPlanned, BeforePc

\* Every step of a process leaves what it should.
LEMMA StepIsTrue ==
  ASSUME TypeOK, TypeOK', VerdictInv, NEW q \in Procs, ProcStep(q)
  PROVE  Own(q)
<1>1. ASSUME NEW r \in Recoverers, r \in Procs,
             ReadOwner(r) \/ Unlink(r) \/ \E t \in Appliers : StartRecover(r, t)
      PROVE  Own(r)
  <2>1. ReadsOnly /\ pc'[r] \notin Journaling \union BeforePc
    BY <1>1 DEF ReadOwner, Unlink, StartRecover, Go, project, ReadsOnly, Journaling, BeforePc, TypeOK, PcOK
  <2> QED BY <1>1, <2>1, Leaves
<1>2. ASSUME NEW a \in Appliers, ApplyStep(a) \/ \E v \in Versions : Plan(a, v) PROVE Own(a)
  BY <1>2, OwnBefore, OwnCreateJournal, OwnLooks, OwnJournals, OwnWrites DEF ApplyStep
<1> QED
  BY <1>1, <1>2, OwnRestores, OwnCrash DEF ProcStep

\* What everybody knows survives an edit of the user and a step of nobody.
LEMMA KeptByAll ==
  ASSUME TypeOK, VerdictInv, \A t \in Appliers : Kept(t),
         UNCHANGED <<pc, idx, txof, mfile, mstate, plan>>
  PROVE  VerdictInv'
<1>1. ASSUME NEW t \in Appliers PROVE NotBegun(t)' /\ StillPlanned(t)' /\ JournalTrue(t)' /\ JournalEnded(t)'
  <2>1. NotBegun(t) /\ StillPlanned(t) /\ JournalTrue(t) /\ JournalEnded(t) /\ Kept(t)
    BY DEF VerdictInv
  <2>2. \A f \in Managed : f \in Files
    BY ConstantsAssumption DEF Managed, Files
  <2>3. NotBegun(t)' /\ StillPlanned(t)'
    BY <2>1, <2>2 DEF NotBegun, StillPlanned, Kept
  <2>4. JournalEnded(t)'
    BY <2>1 DEF JournalEnded, Kept
  <2> QED BY <2>1, <2>3, <2>4, JournalKept
<1>2. ASSUME NEW q \in Procs, pc[q] \in Journaling PROVE MemoryTrue(q)' /\ PlaceTrue(q)'
  <2>1. PICK t \in Appliers : t = txof[q]
    BY DEF TypeOK, OwnerOK
  <2>2. MemoryTrue(q) /\ PlaceTrue(q) /\ Kept(t)
    BY <1>2 DEF VerdictInv
  <2>3. MemoryTrue(q)'
    BY <2>1, <2>2 DEF MemoryTrue, Kept, Ours
  <2>4. PlaceTrue(q)'
    BY <2>1, <2>2 DEF PlaceTrue, Kept, Ours
  <2> QED BY <2>3, <2>4
<1> QED BY <1>1, <1>2 DEF VerdictInv

\* An edit tells every transaction of the file it wrote.
LEMMA EditIsKept ==
  ASSUME TypeOK, NEW f \in Files, NEW b \in Bytes, Edit(f, b)
  PROVE  \A t \in Appliers : Kept(t)
BY DEF Edit, Kept, Ours, journal, TypeOK, ProjectOK

\* Every step keeps the verdict invariant, if there is one recovery at a time.
LEMMA VerdictStep ==
  ASSUME OneRecovery, TypeOK, TypeOK', RecoveredIsGone, VerdictInv, [Next]_vars
  PROVE  VerdictInv'
<1>1. ASSUME NEW q \in Procs, ProcStep(q) PROVE VerdictInv'
  BY <1>1, FrameStep, StepIsTrue, OwnIsEnough
<1>2. ASSUME NEW f \in Files, NEW b \in Bytes, Edit(f, b) PROVE VerdictInv'
  <2>1. UNCHANGED <<pc, idx, txof, mfile, mstate, plan>>
    BY <1>2 DEF Edit, memory
  <2> QED BY <1>2, <2>1, EditIsKept, KeptByAll
<1>3. CASE UNCHANGED vars
  <2>1. \A t \in Appliers : Kept(t)
    BY <1>3 DEF vars, project, journal, Kept, Ours
  <2>2. UNCHANGED <<pc, idx, txof, mfile, mstate, plan>>
    BY <1>3 DEF vars, memory
  <2> QED BY <2>1, <2>2, KeptByAll
<1> QED BY <1>1, <1>2, <1>3, WhoSteps

LEMMA VerdictInit == Init => VerdictInv
<1> SUFFICES ASSUME Init PROVE VerdictInv
  OBVIOUS
<1>1. \A p \in Procs : pc[p] = "idle"
  BY DEF Init
<1>2. \A a \in Appliers : jstate[a] = "none" /\ \A f \in Files : jfile[a][f] = "none"
  BY DEF Init
<1>3. ASSUME NEW a \in Appliers
      PROVE  NotBegun(a) /\ StillPlanned(a) /\ JournalTrue(a) /\ JournalEnded(a)
  <2>1. a \in Procs
    BY DEF Procs
  <2> QED
    BY <1>1, <1>2, <2>1 DEF NotBegun, StillPlanned, JournalTrue, JournalEnded, AsBefore, Finished
<1>4. \A p \in Procs : pc[p] \notin Journaling
  BY <1>1 DEF Journaling
<1> QED BY <1>3, <1>4 DEF VerdictInv

\* The verdict invariant holds for ever.
LEMMA VerdictInvHolds == ASSUME OneRecovery PROVE Spec => []VerdictInv
<1>1. TypeOK /\ TypeOK' /\ LockInv /\ VerdictInv /\ [Next]_vars => VerdictInv'
  BY VerdictStep DEF LockInv
<1> QED
  BY <1>1, VerdictInit, LockCorrect, TypeCorrect, PTL DEF Spec

\* A transaction that says it was rolled back left no file of its own behind, as
\* long as one recovery runs at a time, whatever crashes and whichever call fails
\* (recover_transaction of transaction.rs, apply_plan of apply.rs).
THEOREM RollbackIsComplete == ASSUME OneRecovery PROVE Spec => []RollbackRestores
<1>1. VerdictInv => RollbackRestores
  BY DEF VerdictInv, RollbackRestores, JournalTrue, Ours
<1> QED
  BY <1>1, VerdictInvHolds, PTL

\* A transaction that says it was committed wrote every file it was to change
\* (write_files and validate_project of apply.rs).
THEOREM CommitIsComplete == ASSUME OneRecovery PROVE Spec => []CommitMeansWritten
<1>1. VerdictInv => CommitMeansWritten
  BY DEF VerdictInv, CommitMeansWritten, JournalTrue, Ours
<1> QED
  BY <1>1, VerdictInvHolds, PTL

-----------------------------------------------------------------------------
(* The user is not blamed                                                     *)

\* Where replacing a file is one step, a file that takes part and that nobody
\* else wrote holds its old or its new bytes.  Where it is removed first, it may
\* be gone in between, and a recovery takes that for a change by the user.
JournalBlames(t) ==
  \A f \in Files :
    /\ jfile[t][f] = "user_modified" => ~Ours(t, f)
    /\ jfile[t][f] # "none" /\ Ours(t, f) => disk[f] \in {old[t][f], new[t][f]}

MemoryBlames(p) ==
  /\ \A f \in Files :
       /\ mfile[p][f] = "user_modified" => ~Ours(txof[p], f)
       /\ mfile[p][f] # "none" => jfile[txof[p]][f] # "none"
  /\ pc[p] = "mark" => mfile[p][idx[p]] # "none"

BlameInv ==
  /\ \A t \in Appliers : JournalBlames(t)
  /\ \A p \in Procs : pc[p] \in Journaling => MemoryBlames(p)

\* What a step of p leaves true of p and its transaction.
OwnBlame(p) ==
  /\ \A t \in Appliers : t = txof[p] => JournalBlames(t)'
  /\ pc'[p] \in Journaling => MemoryBlames(p)'

\* A step that writes only old or new bytes, and marks only members.
Gentle(p) ==
  /\ UNCHANGED <<old, new, txof>>
  /\ touched'[txof[p]] = touched[txof[p]]
  /\ \A f \in Files : disk'[f] \in {disk[f], old[txof[p]][f], new[txof[p]][f]}
  /\ jfile'[txof[p]] \in {jfile[txof[p]], mfile'[p]}
  /\ \A f \in Files :
       /\ mfile'[p][f] = "user_modified" => ~Ours(txof[p], f)
       /\ mfile'[p][f] # "none" => jfile[txof[p]][f] # "none"
  /\ pc'[p] = "mark" => mfile'[p][idx'[p]] # "none"

LEMMA GentleBlames ==
  ASSUME TypeOK, BlameInv, NEW p \in Procs, Gentle(p)
  PROVE  OwnBlame(p)
<1>1. PICK t \in Appliers : t = txof[p]
  BY DEF TypeOK, OwnerOK
<1>2. JournalBlames(t)
  BY DEF BlameInv
<1>3. \A f \in Files : jfile'[t][f] # "none" => jfile[t][f] # "none"
  BY <1>1 DEF Gentle
<1>4. \A f \in Files : jfile'[t][f] = "user_modified" => ~Ours(t, f)
  BY <1>1, <1>2 DEF Gentle, JournalBlames
<1>5. \A f \in Files : Ours(t, f)' <=> Ours(t, f)
  BY <1>1 DEF Gentle, Ours
<1>6. JournalBlames(t)'
  BY <1>1, <1>2, <1>3, <1>4, <1>5 DEF Gentle, JournalBlames
<1>7. MemoryBlames(p)'
  BY <1>1, <1>5 DEF Gentle, MemoryBlames
<1> QED BY <1>1, <1>6, <1>7 DEF OwnBlame

\* A step that writes nothing and works on no transaction afterwards.
LEMMA LeavesBlames ==
  ASSUME BlameInv, NEW p \in Procs, pc'[p] \notin Journaling,
         UNCHANGED <<disk, touched, old, new, jfile>>
  PROVE  OwnBlame(p)
BY DEF BlameInv, JournalBlames, OwnBlame, Ours

\* What the others know of the files stays true.
LEMMA OwnBlameIsEnough ==
  ASSUME OneRecovery, TypeOK, RecoveredIsGone, BlameInv, NEW p \in Procs, Frame(p), OwnBlame(p)
  PROVE  BlameInv'
<1>1. ASSUME NEW t \in Appliers PROVE JournalBlames(t)'
  <2>1. CASE t = txof[p]
    BY <2>1 DEF OwnBlame
  <2>2. CASE t # txof[p]
    <3>1. Kept(t) /\ JournalBlames(t)
      BY <2>2, KeptByOthers DEF BlameInv
    <3> QED BY <3>1 DEF Kept, JournalBlames, Ours
  <2> QED BY <2>1, <2>2
<1>2. ASSUME NEW q \in Procs, pc'[q] \in Journaling PROVE MemoryBlames(q)'
  <2>1. CASE q = p
    BY <1>2, <2>1 DEF OwnBlame
  <2>2. CASE q # p
    <3>1. /\ pc'[q] = pc[q] /\ idx'[q] = idx[q] /\ txof'[q] = txof[q] /\ mfile'[q] = mfile[q]
      BY <2>2 DEF Frame, Alone
    <3>2. PICK t \in Appliers : t = txof[q]
      BY DEF TypeOK, OwnerOK
    <3>3. Kept(t)
      <4>1. txof[p] = t => ReadsOnly
        BY <1>2, <2>2, <3>1, <3>2, OneWorker DEF Frame
      <4> QED BY <4>1, KeptByOthers
    <3>4. MemoryBlames(q)
      BY <1>2, <3>1 DEF BlameInv
    <3> QED BY <3>1, <3>2, <3>3, <3>4 DEF MemoryBlames, Kept, Ours
  <2> QED BY <2>1, <2>2
<1> QED BY <1>1, <1>2 DEF BlameInv

\* The steps of an apply, up to the journal and after the release.
LEMMA BlamesBefore ==
  ASSUME TypeOK, VerdictInv, BlameInv, NEW a \in Appliers,
         \/ CreateLock(a) \/ Busy(a) \/ StampLock(a) \/ Recheck(a) \/ PrepareFails(a)
         \/ Release(a) \/ \E v \in Versions : Plan(a, v)
  PROVE  OwnBlame(a)
<1> USE DEF Go, project, journal
<1>1. a \in Procs /\ txof[a] = a
  BY DEF Procs, TypeOK, OwnerOK
<1>2. CASE Recheck(a)
  <2>1. /\ pc[a] = "locked" /\ pc'[a] \notin Journaling /\ UNCHANGED jfile
    BY <1>1, <1>2 DEF Recheck, TypeOK, PcOK, Journaling
  <2>2. \A f \in Files : jfile[a][f] = "none"
    BY <2>1 DEF VerdictInv, NotBegun, BeforePc
  <2> QED BY <1>1, <2>1, <2>2 DEF OwnBlame, JournalBlames
<1>3. CASE ~Recheck(a)
  <2>1. pc'[a] \notin Journaling /\ UNCHANGED <<disk, touched, old, new, jfile>>
    BY <1>1, <1>3 DEF CreateLock, Busy, StampLock, PrepareFails, Release, Plan, TypeOK, PcOK, Journaling
  <2> QED BY <1>1, <2>1, LeavesBlames
<1> QED BY <1>2, <1>3

\* A new journal names the bytes that are there.
LEMMA BlamesCreate ==
  ASSUME TypeOK, VerdictInv', NEW a \in Appliers, CreateJournal(a)
  PROVE  OwnBlame(a)
<1> USE DEF Go, Remember, project
<1>1. a \in Procs /\ txof[a] = a /\ UNCHANGED <<disk, touched, txof>>
  BY DEF Procs, TypeOK, OwnerOK, CreateJournal
<1>2. pc'[a] = "backup"
  BY <1>1 DEF CreateJournal, TypeOK, PcOK
<1>3. /\ jfile'[a] = mfile'[a]
      /\ mfile'[a] = [f \in Files |-> IF TakesPart(a, f) THEN "planned" ELSE "none"]
  BY <1>1 DEF CreateJournal, TypeOK, MemoryOK, JournalOK
<1>4. \A f \in Files : jfile'[a][f] \in {"planned", "none"}
  BY <1>3
<1>5. \A f \in Files : jfile'[a][f] = "planned" /\ Ours(a, f)' => disk'[f] = old'[a][f]
  BY DEF VerdictInv, JournalTrue, AsBefore
<1>6. JournalBlames(a)'
  BY <1>4, <1>5 DEF JournalBlames
<1>7. MemoryBlames(a)'
  BY <1>1, <1>2, <1>3, <1>4 DEF MemoryBlames
<1> QED BY <1>1, <1>6, <1>7 DEF OwnBlame

\* The other steps of an apply.
LEMMA BlamesApply ==
  ASSUME TypeOK, VerdictInv, BlameInv, NEW a \in Appliers,
         \/ SkipBackup(a) \/ BackUp(a) \/ MarkBackedUp(a) \/ BeginWriting(a)
         \/ SkipWrite(a) \/ CheckOld(a) \/ MarkReplaced(a)
         \/ Replace(a) \/ Rename(a) \/ Confirm(a) \/ Verify(a)
         \/ BeginValidating(a) \/ Validate(a) \/ Commit(a) \/ Abort(a),
         ~Windows
  PROVE  OwnBlame(a)
<1> USE DEF Go, Stay, Next1, Restart, project, journal, memory
<1>1. a \in Procs /\ txof[a] = a
  BY DEF Procs, TypeOK, OwnerOK
<1>2. ASSUME pc[a] \in Journaling
      PROVE  /\ MemoryBlames(a) /\ PlaceTrue(a)
             /\ \A f \in Files : /\ mfile[a][f] = "user_modified" => ~Ours(a, f)
                                 /\ mfile[a][f] # "none" => jfile[a][f] # "none"
  BY <1>1, <1>2, StillOpen DEF BlameInv, MemoryBlames
<1>3. CASE SkipBackup(a) \/ BackUp(a) \/ SkipWrite(a) \/ CheckOld(a) \/ Confirm(a)
             \/ Verify(a) \/ Validate(a)
  <2>1. /\ pc[a] \in Journaling /\ UNCHANGED <<disk, touched, old, new, jfile, txof, mfile>>
    BY <1>3 DEF SkipBackup, BackUp, SkipWrite, CheckOld, Confirm, Verify, Validate, Compared, Journaling
  <2>2. pc'[a] = "mark" => mfile[a][idx'[a]] # "none"
    BY <1>1, <1>3 DEF SkipBackup, BackUp, SkipWrite, CheckOld, Confirm, Verify, Validate, Member, File,
      TypeOK, PcOK
  <2>3. Gentle(a)
    BY <1>1, <1>2, <2>1, <2>2 DEF Gentle
  <2> QED BY <1>1, <2>3, GentleBlames
<1>4. CASE \/ MarkBackedUp(a) \/ BeginWriting(a) \/ MarkReplaced(a) \/ BeginValidating(a)
           \/ Commit(a) \/ Abort(a)
  <2>1. /\ pc[a] \in Journaling /\ UNCHANGED <<disk, touched, txof>> /\ pc'[a] # "mark"
        /\ JournalWritten(a) \/ JournalFails(a)
    BY <1>1, <1>4 DEF MarkBackedUp, BeginWriting, MarkReplaced, BeginValidating, Commit, Abort,
      Journaling, TypeOK, PcOK
  <2>2. UNCHANGED <<old, new>> /\ jfile'[a] \in {jfile[a], mfile'[a]}
    BY <1>1, <2>1 DEF JournalWritten, JournalFails, JournalInterrupted, TypeOK, JournalOK
  <2>3. \A f \in Files : \/ mfile'[a][f] = mfile[a][f]
                         \/ mfile'[a][f] \in {"backed_up", "replaced"} /\ mfile[a][f] # "none"
    <3>1. CASE MarkBackedUp(a) \/ MarkReplaced(a)
      <4>1. pc[a] \in {"backup_mark", "mark"} /\ mfile[a][idx[a]] # "none"
        BY <1>2, <2>1, <3>1 DEF MarkBackedUp, MarkReplaced, PlaceTrue, MemoryBlames
      <4>2. \E s \in {"backed_up", "replaced"} : mfile'[a] = [mfile[a] EXCEPT ![idx[a]] = s]
        BY <1>1, <3>1 DEF MarkBackedUp, MarkReplaced, Mark, File, TypeOK, MemoryOK
      <4> QED BY <1>1, <4>1, <4>2 DEF TypeOK, MemoryOK
    <3>2. CASE BeginWriting(a) \/ BeginValidating(a) \/ Commit(a) \/ Abort(a)
      BY <3>2 DEF BeginWriting, BeginValidating, Commit, Abort
    <3> QED BY <1>4, <3>1, <3>2
  <2>4. Gentle(a)
    BY <1>1, <1>2, <2>1, <2>2, <2>3 DEF Gentle
  <2> QED BY <1>1, <2>4, GentleBlames
<1>5. CASE Replace(a) \/ Rename(a)
  <2>1. /\ pc[a] \in Journaling /\ pc'[a] # "mark"
        /\ UNCHANGED <<old, new, jfile, txof, mfile>>
    BY <1>1, <1>5 DEF Replace, Rename, Journaling, TypeOK, PcOK
  <2>2. UNCHANGED project \/ WriteFile(a, idx[a], New(a))
    BY <1>5 DEF Replace, Rename, File, RemovedFirst
  <2>3. touched'[a] = touched[a] /\ \A f \in Files : disk'[f] \in {disk[f], new[a][f]}
    BY <1>1, <2>2 DEF WriteFile, New, File, TypeOK, ProjectOK
  <2>4. Gentle(a)
    BY <1>1, <1>2, <2>1, <2>3 DEF Gentle
  <2> QED BY <1>1, <2>4, GentleBlames
<1> QED BY <1>3, <1>4, <1>5

\* A recovery blames the user only for bytes that are neither old nor new.
LEMMA BlamesRestore ==
  ASSUME TypeOK, VerdictInv, BlameInv, NEW p \in Procs, RestoreStep(p), ~Windows
  PROVE  OwnBlame(p)
<1> USE DEF Go, Stay, Next1, Restart, project, journal, memory
<1>1. PICK t \in Appliers : t = txof[p]
  BY DEF TypeOK, OwnerOK
<1>2. JournalBlames(t)
  BY DEF BlameInv
<1>3. ASSUME pc[p] \in RestoreLoop
      PROVE  /\ MemoryBlames(p) /\ PlaceTrue(p)
             /\ \A f \in Files : /\ mfile[p][f] = "user_modified" => ~Ours(t, f)
                                 /\ mfile[p][f] # "none" => jfile[t][f] # "none"
  BY <1>1, <1>3, StillOpen DEF BlameInv, MemoryBlames, RestoreLoop, Journaling
<1>4. CASE Load(p)
  <2>1. UNCHANGED <<disk, touched, old, new, jfile, txof>>
    BY <1>4 DEF Load
  <2>2. CASE pc'[p] = "restore"
    <3>1. mfile'[p] = jfile[t]
      BY <1>1, <1>4, <2>2, ConstantsAssumption DEF Load, Failed, Closing, TypeOK, PcOK, MemoryOK
    <3>2. Gentle(p)
      BY <1>1, <1>2, <2>1, <2>2, <3>1 DEF Gentle, JournalBlames
    <3> QED BY <3>2, GentleBlames
  <2>3. CASE pc'[p] # "restore"
    <3>1. pc'[p] \notin Journaling
      BY <1>4, <2>3 DEF Load, Failed, Closing, TypeOK, PcOK, Journaling
    <3> QED BY <2>1, <3>1, LeavesBlames
  <2> QED BY <2>2, <2>3
<1>5. CASE SkipRestore(p) \/ ChooseRestore(p)
  <2>1. /\ pc[p] \in RestoreLoop /\ pc'[p] # "mark"
        /\ UNCHANGED <<disk, touched, old, new, jfile, txof, mfile>>
    BY <1>5 DEF SkipRestore, ChooseRestore, Compared, RestoreLoop, TypeOK, PcOK
  <2>2. Gentle(p)
    BY <1>1, <1>3, <2>1 DEF Gentle
  <2> QED BY <2>2, GentleBlames
<1>6. CASE Settle(p) \/ PutBack(p) \/ PutRename(p)
  <2>1. /\ pc[p] \in RestoreLoop /\ idx[p] \in Files /\ pc'[p] # "mark"
        /\ UNCHANGED <<old, new, jfile, txof>>
    BY <1>6 DEF Settle, PutBack, PutRename, RestoreLoop, InLoop, TypeOK, IndexOK, LoopPc, PcOK
  <2>2. mfile[p][idx[p]] \in {"replaced", "recovery_required"}
    <3>1. CASE Settle(p)
      BY <3>1 DEF Settle, File
    <3>2. CASE PutBack(p) \/ PutRename(p)
      BY <1>3, <2>1, <3>2 DEF PutBack, PutRename, PlaceTrue
    <3> QED BY <1>6, <3>1, <3>2
  <2>3. UNCHANGED project \/ WriteFile(p, idx[p], old[t][idx[p]])
    BY <1>1, <1>6 DEF Settle, PutBack, PutRename, RemovedFirst, Old, File
  <2>4. touched'[t] = touched[t] /\ \A f \in Files : disk'[f] \in {disk[f], old[t][f]}
    BY <1>1, <2>3 DEF WriteFile, TypeOK, ProjectOK
  <2>5. \E s \in {"restored", "user_modified", "recovery_required"} :
          /\ mfile' = [mfile EXCEPT ![p][idx[p]] = s]
          /\ s = "user_modified" => disk[idx[p]] \notin {old[t][idx[p]], new[t][idx[p]]}
    <3>1. CASE Settle(p)
      BY <1>1, <3>1 DEF Settle, Mark, File, Now, Old, New
    <3>2. CASE PutBack(p) \/ PutRename(p)
      BY <3>2 DEF PutBack, PutRename, Mark, File, RemovedFirst
    <3> QED BY <1>6, <3>1, <3>2
  <2>6. /\ \A f \in Files : f # idx[p] => mfile'[p][f] = mfile[p][f]
        /\ mfile'[p][idx[p]] = "user_modified" => ~Ours(t, idx[p])
    BY <1>2, <1>3, <2>1, <2>2, <2>5 DEF TypeOK, MemoryOK, JournalBlames
  <2>7. Gentle(p)
    BY <1>1, <1>3, <2>1, <2>2, <2>4, <2>6 DEF Gentle
  <2> QED BY <2>7, GentleBlames
<1>7. CASE Conclude(p)
  <2>1. /\ pc[p] \in RestoreLoop /\ pc'[p] # "mark"
        /\ UNCHANGED <<disk, touched, txof, mfile>>
        /\ JournalWritten(p) \/ JournalFails(p)
    BY <1>7 DEF Conclude, Failed, Closing, RestoreLoop, TypeOK, PcOK
  <2>2. UNCHANGED <<old, new>> /\ jfile'[t] \in {jfile[t], mfile'[p]}
    BY <1>1, <2>1 DEF JournalWritten, JournalFails, JournalInterrupted, TypeOK, JournalOK
  <2>3. Gentle(p)
    BY <1>1, <1>3, <2>1, <2>2 DEF Gentle
  <2> QED BY <2>3, GentleBlames
<1> QED BY <1>4, <1>5, <1>6, <1>7 DEF RestoreStep

\* Every step keeps the blame invariant, where replacing a file is one step.
LEMMA BlameStep ==
  ASSUME OneRecovery, ~Windows, TypeOK, RecoveredIsGone, VerdictInv, VerdictInv', BlameInv,
         [Next]_vars
  PROVE  BlameInv'
<1>1. ASSUME NEW q \in Procs, ProcStep(q) PROVE BlameInv'
  <2>1. CASE RestoreStep(q)
    BY <2>1, BlamesRestore, <1>1, FrameStep, OwnBlameIsEnough
  <2>2. ASSUME q \in Appliers, ApplyStep(q) \/ \E v \in Versions : Plan(q, v)
        PROVE  OwnBlame(q)
    BY <2>2, BlamesBefore, BlamesCreate, BlamesApply DEF ApplyStep
  <2>3. ASSUME q \in Recoverers,
               ReadOwner(q) \/ Unlink(q) \/ \E t \in Appliers : StartRecover(q, t)
        PROVE  OwnBlame(q)
    <3>1. pc'[q] \notin Journaling /\ UNCHANGED <<disk, touched, old, new, jfile>>
      BY <2>3 DEF ReadOwner, Unlink, StartRecover, Go, project, journal, Journaling, TypeOK, PcOK
    <3> QED BY <3>1, LeavesBlames
  <2>4. ASSUME Crash(q) PROVE OwnBlame(q)
    <3>1. pc'[q] \notin Journaling /\ UNCHANGED <<disk, touched, old, new, jfile>>
      BY <2>4 DEF Crash, Go, project, journal, JournalInterrupted, Journaling, TypeOK, PcOK
    <3> QED BY <3>1, LeavesBlames
  <2> QED BY <1>1, <2>1, <2>2, <2>3, <2>4, FrameStep, OwnBlameIsEnough DEF ProcStep
<1>2. ASSUME \A t \in Appliers : Kept(t), UNCHANGED <<pc, idx, txof, mfile>>
      PROVE  BlameInv'
  <2>1. ASSUME NEW t \in Appliers PROVE JournalBlames(t)'
    BY <1>2 DEF BlameInv, JournalBlames, Kept, Ours
  <2>2. ASSUME NEW q \in Procs, pc[q] \in Journaling PROVE MemoryBlames(q)'
    <3>1. PICK t \in Appliers : t = txof[q]
      BY DEF TypeOK, OwnerOK
    <3>2. MemoryBlames(q) /\ Kept(t)
      BY <1>2, <2>2 DEF BlameInv
    <3> QED BY <1>2, <3>1, <3>2 DEF MemoryBlames, Kept, Ours
  <2> QED BY <1>2, <2>1, <2>2 DEF BlameInv
<1>3. ASSUME NEW f \in Files, NEW b \in Bytes, Edit(f, b) PROVE BlameInv'
  BY <1>2, <1>3, EditIsKept DEF Edit, memory
<1>4. CASE UNCHANGED vars
  BY <1>2, <1>4 DEF vars, project, journal, memory, Kept, Ours
<1> QED BY <1>1, <1>3, <1>4, WhoSteps

LEMMA BlameInit == Init => BlameInv
<1> SUFFICES ASSUME Init PROVE BlameInv
  OBVIOUS
<1>1. \A a \in Appliers : \A f \in Files : jfile[a][f] = "none"
  BY DEF Init
<1>2. \A p \in Procs : pc[p] \notin Journaling
  BY DEF Init, Journaling
<1> QED BY <1>1, <1>2 DEF BlameInv, JournalBlames

\* A file is reported as changed by the user only if somebody else wrote it, where
\* a file is replaced in one step (recover_transaction of transaction.rs).  Where
\* it is removed first and the process dies before the rename, nobody else did.
THEOREM UserIsNotBlamed == ASSUME OneRecovery, ~Windows PROVE Spec => []UserModifiedIsReal
<1>1. TypeOK /\ LockInv /\ VerdictInv /\ VerdictInv' /\ BlameInv /\ [Next]_vars => BlameInv'
  BY BlameStep DEF LockInv
<1>2. BlameInv => UserModifiedIsReal
  BY DEF BlameInv, JournalBlames, UserModifiedIsReal, Ours
<1> QED
  BY <1>1, <1>2, BlameInit, VerdictInvHolds, LockCorrect, TypeCorrect, PTL DEF Spec

\* All that the journal says of a transaction that ended, and of the files it
\* left alone, is true of the disk.
THEOREM VerdictHolds == ASSUME OneRecovery, ~Windows PROVE Spec => []VerdictIsTrue
<1>1. RollbackRestores /\ CommitMeansWritten /\ UserModifiedIsReal => VerdictIsTrue
  BY DEF VerdictIsTrue
<1> QED
  BY <1>1, RollbackIsComplete, CommitIsComplete, UserIsNotBlamed, PTL
=============================================================================
