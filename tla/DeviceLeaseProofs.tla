--------------------------- MODULE DeviceLeaseProofs ---------------------------
(***************************************************************************)
(* Proofs about DeviceLease: its type invariant, that a living session is   *)
(* not fenced off its lease, that a session that is gone leaves no record,  *)
(* and that a child is told when its workload was disturbed.                *)
(***************************************************************************)
EXTENDS DeviceLease, TLAPS

\* Sessions between the lock and its release.
Inside == {"locked", "publish"} \union Live \union Ending

\* The lock and the heartbeat follow the thread.
LockFollows == \A s \in Sessions : pc[s] \in Inside <=> lock = s
HeartFollows == \A s \in Sessions : hb[s] # "ended" => pc[s] \in Live \union {"ending"}
LockInv == LockFollows /\ HeartFollows

\* What the record may name, by where the holder of the lock is.
RecordOfHolder ==
  \A s \in Sessions : pc[s] \in {"publish"} \union Live \union Ending => owner \in {s, Nobody}
NotPublished ==
  \A s \in Sessions : pc[s] \in {"start", "locked", "publish"} => owner # s
Removed ==
  \A s \in Sessions : pc[s] \in {"unlock", "done"} /\ owner = s => faults > 0
RecordInv == RecordOfHolder /\ NotPublished /\ Removed /\ LeaseFenced

\* A child outlives its session only when that crashed, and then what disturbs
\* it has taken the record.
ChildFollows ==
  \A s \in Sessions :
    child[s] \in {"opens", "idle", "ready", "working"} => pc[s] \in Live \union {"ending", "crashed"}
Disturbed ==
  \A s \in Sessions :
    overlapped[s] /\ child[s] = "working" => pc[s] = "crashed" /\ owner # s
ChildInv == ChildFollows /\ Disturbed

-----------------------------------------------------------------------------
\* The initial state has the types.
LEMMA TypeInit == Init => TypeOK
BY ConstantsAssumption DEF Init, TypeOK, Live

\* Every step keeps the types.
LEMMA TypeStep == TypeOK /\ [Next]_vars => TypeOK'
<1> SUFFICES ASSUME TypeOK, [Next]_vars PROVE TypeOK'
  OBVIOUS
<1> USE ConstantsAssumption DEF TypeOK, Live, Ending, Go, session, bounds
<1>1. ASSUME NEW s \in Sessions, Acquire(s) PROVE TypeOK'
  BY <1>1 DEF Acquire
<1>2. ASSUME NEW s \in Sessions, Unpublish(s) PROVE TypeOK'
  BY <1>2 DEF Unpublish, Fault
<1>3. ASSUME NEW s \in Sessions, Publish(s) PROVE TypeOK'
  BY <1>3 DEF Publish, Fault
<1>4. ASSUME NEW s \in Sessions, Beat(s) PROVE TypeOK'
  <2> USE <1>4 DEF Beat, Stopping, Fault, BeatFails
  <2>1. hb' \in [Sessions -> {"waits", "publish", "ended"}]
    OBVIOUS
  <2>2. hbFailed' = hbFailed \/ hbFailed' = [hbFailed EXCEPT ![s] = TRUE]
    OBVIOUS
  <2>3. hbFailed' \in [Sessions -> BOOLEAN]
    BY <2>2, Zenon
  <2>4. \A t \in Sessions : pc'[t] \in Live => hb'[t] # "ended" \/ hbFailed'[t]
    OBVIOUS
  <2>5. lock' = lock /\ owner' \in Sessions \union {Nobody} /\ pc' = pc /\ crashes' \in Nat
        /\ faults' \in Nat /\ child' = child /\ overlapped' = overlapped
    OBVIOUS
  <2> QED BY <2>1, <2>3, <2>4, <2>5
<1>5. ASSUME NEW s \in Sessions, BeatPublish(s) PROVE TypeOK'
  <2> USE <1>5 DEF BeatPublish, Fault, BeatFails
  <2>1. hb' \in [Sessions -> {"waits", "publish", "ended"}]
    OBVIOUS
  <2>2. hbFailed' = hbFailed \/ hbFailed' = [hbFailed EXCEPT ![s] = TRUE]
    OBVIOUS
  <2>3. hbFailed' \in [Sessions -> BOOLEAN]
    BY <2>2, Zenon
  <2>4. \A t \in Sessions : pc'[t] \in Live => hb'[t] # "ended" \/ hbFailed'[t]
    OBVIOUS
  <2>5. lock' = lock /\ owner' \in Sessions \union {Nobody} /\ pc' = pc /\ crashes' \in Nat
        /\ faults' \in Nat /\ child' = child /\ overlapped' = overlapped
    OBVIOUS
  <2> QED BY <2>1, <2>3, <2>4, <2>5
<1>6. ASSUME NEW s \in Sessions, BeatStop(s) PROVE TypeOK'
  BY <1>6 DEF BeatStop, Stopping
<1>7. ASSUME NEW s \in Sessions, Before(s) PROVE TypeOK'
  BY <1>7 DEF Before, Owned
<1>8. ASSUME NEW s \in Sessions, Begin(s) PROVE TypeOK'
  BY <1>8 DEF Begin, Disturb
<1>9. ASSUME NEW s \in Sessions, After(s) PROVE TypeOK'
  BY <1>9 DEF After, Owned
<1>10. ASSUME NEW s \in Sessions, Stop(s) PROVE TypeOK'
  BY <1>10 DEF Stop
<1>11. ASSUME NEW s \in Sessions, Join(s) PROVE TypeOK'
  BY <1>11 DEF Join
<1>12. ASSUME NEW s \in Sessions, CheckOwner(s) PROVE TypeOK'
  BY <1>12 DEF CheckOwner
<1>13. ASSUME NEW s \in Sessions, Remove(s) PROVE TypeOK'
  BY <1>13 DEF Remove, Fault
<1>14. ASSUME NEW s \in Sessions, Unlock(s) PROVE TypeOK'
  BY <1>14 DEF Unlock
<1>15. ASSUME NEW s \in Sessions, Spawn(s) PROVE TypeOK'
  BY <1>15 DEF Spawn
<1>16. ASSUME NEW s \in Sessions, ChildOpen(s) PROVE TypeOK'
  BY <1>16 DEF ChildOpen, ReadsOwner
<1>17. ASSUME NEW s \in Sessions, ChildBefore(s) PROVE TypeOK'
  BY <1>17 DEF ChildBefore, ReadsOwner
<1>18. ASSUME NEW s \in Sessions, ChildBegin(s) PROVE TypeOK'
  BY <1>18 DEF ChildBegin, Disturb, Working
<1>19. ASSUME NEW s \in Sessions, ChildAfter(s) PROVE TypeOK'
  BY <1>19 DEF ChildAfter, ReadsOwner
<1>20. ASSUME NEW s \in Sessions, Crash(s) PROVE TypeOK'
  BY <1>20 DEF Crash, Dies
<1>21. ASSUME NEW s \in Sessions, ChildCrash(s) PROVE TypeOK'
  BY <1>21 DEF ChildCrash, Dies
<1>22. CASE UNCHANGED vars
  BY <1>22 DEF vars, bounds
<1> QED
  BY <1>1, <1>2, <1>3, <1>4, <1>5, <1>6, <1>7, <1>8, <1>9, <1>10, <1>11, <1>12, <1>13, <1>14, <1>15, <1>16, <1>17, <1>18, <1>19, <1>20, <1>21, <1>22
  DEF Next, AcquireStep, Heartbeat, Workload, ReleaseStep, ChildStep

\* Every variable keeps its type, and a lease that is held has its heartbeat
\* until the heartbeat has failed (DeviceLeaseSession).
THEOREM TypeCorrect == Spec => []TypeOK
BY TypeInit, TypeStep, PTL DEF Spec

-----------------------------------------------------------------------------
\* The lock is held exactly between acquire and release.
LEMMA LockInit == Init => LockInv
BY ConstantsAssumption DEF Init, LockInv, LockFollows, HeartFollows, Inside, Live, Ending

LEMMA LockStep == TypeOK /\ LockInv /\ [Next]_vars => LockInv'
<1> SUFFICES ASSUME TypeOK, LockInv, [Next]_vars PROVE LockInv'
  OBVIOUS
<1> USE ConstantsAssumption
    DEF TypeOK, LockInv, LockFollows, HeartFollows, Inside, Live, Ending, Go, session, bounds
<1>1. ASSUME NEW s \in Sessions, Acquire(s) PROVE LockInv'
  BY <1>1 DEF Acquire
<1>2. ASSUME NEW s \in Sessions, Unpublish(s) PROVE LockInv'
  BY <1>2 DEF Unpublish, Fault
<1>3. ASSUME NEW s \in Sessions, Publish(s) PROVE LockInv'
  BY <1>3 DEF Publish, Fault
<1>4. ASSUME NEW s \in Sessions, Beat(s) PROVE LockInv'
  BY <1>4 DEF Beat, Stopping, Fault, BeatFails
<1>5. ASSUME NEW s \in Sessions, BeatPublish(s) PROVE LockInv'
  BY <1>5 DEF BeatPublish, Fault, BeatFails
<1>6. ASSUME NEW s \in Sessions, BeatStop(s) PROVE LockInv'
  BY <1>6 DEF BeatStop, Stopping
<1>7. ASSUME NEW s \in Sessions, Before(s) PROVE LockInv'
  BY <1>7 DEF Before, Owned
<1>8. ASSUME NEW s \in Sessions, Begin(s) PROVE LockInv'
  BY <1>8 DEF Begin, Disturb
<1>9. ASSUME NEW s \in Sessions, After(s) PROVE LockInv'
  BY <1>9 DEF After, Owned
<1>10. ASSUME NEW s \in Sessions, Stop(s) PROVE LockInv'
  BY <1>10 DEF Stop
<1>11. ASSUME NEW s \in Sessions, Join(s) PROVE LockInv'
  BY <1>11 DEF Join
<1>12. ASSUME NEW s \in Sessions, CheckOwner(s) PROVE LockInv'
  BY <1>12 DEF CheckOwner
<1>13. ASSUME NEW s \in Sessions, Remove(s) PROVE LockInv'
  BY <1>13 DEF Remove, Fault
<1>14. ASSUME NEW s \in Sessions, Unlock(s) PROVE LockInv'
  BY <1>14 DEF Unlock
<1>15. ASSUME NEW s \in Sessions, Spawn(s) PROVE LockInv'
  BY <1>15 DEF Spawn
<1>16. ASSUME NEW s \in Sessions, ChildOpen(s) PROVE LockInv'
  BY <1>16 DEF ChildOpen, ReadsOwner
<1>17. ASSUME NEW s \in Sessions, ChildBefore(s) PROVE LockInv'
  BY <1>17 DEF ChildBefore, ReadsOwner
<1>18. ASSUME NEW s \in Sessions, ChildBegin(s) PROVE LockInv'
  BY <1>18 DEF ChildBegin, Disturb, Working
<1>19. ASSUME NEW s \in Sessions, ChildAfter(s) PROVE LockInv'
  BY <1>19 DEF ChildAfter, ReadsOwner
<1>20. ASSUME NEW s \in Sessions, Crash(s) PROVE LockInv'
  BY <1>20 DEF Crash, Dies
<1>21. ASSUME NEW s \in Sessions, ChildCrash(s) PROVE LockInv'
  BY <1>21 DEF ChildCrash, Dies
<1>22. CASE UNCHANGED vars
  BY <1>22 DEF vars, bounds
<1> QED
  BY <1>1, <1>2, <1>3, <1>4, <1>5, <1>6, <1>7, <1>8, <1>9, <1>10, <1>11, <1>12, <1>13, <1>14, <1>15, <1>16, <1>17, <1>18, <1>19, <1>20, <1>21, <1>22
  DEF Next, AcquireStep, Heartbeat, Workload, ReleaseStep, ChildStep

-----------------------------------------------------------------------------
\* Only the session that holds the lock writes the record.
LEMMA RecordInit == Init => RecordInv
BY ConstantsAssumption
   DEF Init, RecordInv, RecordOfHolder, NotPublished, Removed, LeaseFenced, Live, Ending

LEMMA RecordStep == TypeOK /\ LockInv /\ RecordInv /\ [Next]_vars => RecordInv'
<1> SUFFICES ASSUME TypeOK, LockInv, RecordInv, [Next]_vars PROVE RecordInv'
  OBVIOUS
<1> USE ConstantsAssumption
    DEF TypeOK, LockInv, LockFollows, HeartFollows, RecordInv, RecordOfHolder, NotPublished,
        Removed, LeaseFenced, Inside, Live, Ending, Go, session, bounds
<1>1. ASSUME NEW s \in Sessions, Acquire(s) PROVE RecordInv'
  BY <1>1 DEF Acquire
<1>2. ASSUME NEW s \in Sessions, Unpublish(s) PROVE RecordInv'
  BY <1>2 DEF Unpublish, Fault
<1>3. ASSUME NEW s \in Sessions, Publish(s) PROVE RecordInv'
  BY <1>3 DEF Publish, Fault
<1>4. ASSUME NEW s \in Sessions, Beat(s) PROVE RecordInv'
  BY <1>4 DEF Beat, Stopping, Fault, BeatFails
<1>5. ASSUME NEW s \in Sessions, BeatPublish(s) PROVE RecordInv'
  BY <1>5 DEF BeatPublish, Fault, BeatFails
<1>6. ASSUME NEW s \in Sessions, BeatStop(s) PROVE RecordInv'
  BY <1>6 DEF BeatStop, Stopping
<1>7. ASSUME NEW s \in Sessions, Before(s) PROVE RecordInv'
  BY <1>7 DEF Before, Owned
<1>8. ASSUME NEW s \in Sessions, Begin(s) PROVE RecordInv'
  BY <1>8 DEF Begin, Disturb
<1>9. ASSUME NEW s \in Sessions, After(s) PROVE RecordInv'
  BY <1>9 DEF After, Owned
<1>10. ASSUME NEW s \in Sessions, Stop(s) PROVE RecordInv'
  BY <1>10 DEF Stop
<1>11. ASSUME NEW s \in Sessions, Join(s) PROVE RecordInv'
  BY <1>11 DEF Join
<1>12. ASSUME NEW s \in Sessions, CheckOwner(s) PROVE RecordInv'
  BY <1>12 DEF CheckOwner
<1>13. ASSUME NEW s \in Sessions, Remove(s) PROVE RecordInv'
  BY <1>13 DEF Remove, Fault
<1>14. ASSUME NEW s \in Sessions, Unlock(s) PROVE RecordInv'
  BY <1>14 DEF Unlock
<1>15. ASSUME NEW s \in Sessions, Spawn(s) PROVE RecordInv'
  BY <1>15 DEF Spawn
<1>16. ASSUME NEW s \in Sessions, ChildOpen(s) PROVE RecordInv'
  BY <1>16 DEF ChildOpen, ReadsOwner
<1>17. ASSUME NEW s \in Sessions, ChildBefore(s) PROVE RecordInv'
  BY <1>17 DEF ChildBefore, ReadsOwner
<1>18. ASSUME NEW s \in Sessions, ChildBegin(s) PROVE RecordInv'
  BY <1>18 DEF ChildBegin, Disturb, Working
<1>19. ASSUME NEW s \in Sessions, ChildAfter(s) PROVE RecordInv'
  BY <1>19 DEF ChildAfter, ReadsOwner
<1>20. ASSUME NEW s \in Sessions, Crash(s) PROVE RecordInv'
  BY <1>20 DEF Crash, Dies
<1>21. ASSUME NEW s \in Sessions, ChildCrash(s) PROVE RecordInv'
  BY <1>21 DEF ChildCrash, Dies
<1>22. CASE UNCHANGED vars
  BY <1>22 DEF vars, bounds
<1> QED
  BY <1>1, <1>2, <1>3, <1>4, <1>5, <1>6, <1>7, <1>8, <1>9, <1>10, <1>11, <1>12, <1>13, <1>14, <1>15, <1>16, <1>17, <1>18, <1>19, <1>20, <1>21, <1>22
  DEF Next, AcquireStep, Heartbeat, Workload, ReleaseStep, ChildStep

\* The three invariants hold together.
LEMMA Correct == Spec => [](TypeOK /\ LockInv /\ RecordInv)
<1>1. Init => TypeOK /\ LockInv /\ RecordInv
  BY TypeInit, LockInit, RecordInit
<1>2. TypeOK /\ LockInv /\ RecordInv /\ [Next]_vars => (TypeOK /\ LockInv /\ RecordInv)'
  BY TypeStep, LockStep, RecordStep
<1> QED BY <1>1, <1>2, PTL DEF Spec

\* A session that lives and whose heartbeat works is never fenced off its own
\* lease (DeviceLeaseSession::assert_owned fails only for a real loss).
THEOREM NeverFenced == Spec => []LeaseFenced
<1>1. RecordInv => LeaseFenced
  BY DEF RecordInv
<1> QED BY <1>1, Correct, PTL

\* A session that is gone leaves a record behind only after a failed file
\* operation (DeviceLeaseSession::release and its heartbeat).
THEOREM NothingLeft == Spec => []NoOwnerAfterRelease
<1>1. RecordInv => NoOwnerAfterRelease
  BY DEF RecordInv, Removed, NoOwnerAfterRelease
<1> QED BY <1>1, Correct, PTL

-----------------------------------------------------------------------------
\* What a child knows of its session.
LEMMA ChildInit == Init => ChildInv
BY DEF Init, ChildInv, ChildFollows, Disturbed

LEMMA ChildKept ==
  TypeOK /\ LockInv /\ RecordInv /\ ChildInv /\ [Next]_vars => ChildInv'
<1> SUFFICES ASSUME TypeOK, LockInv, RecordInv, ChildInv, [Next]_vars PROVE ChildInv'
  OBVIOUS
<1> USE ConstantsAssumption
    DEF TypeOK, LockInv, LockFollows, HeartFollows, RecordInv, RecordOfHolder, NotPublished,
        ChildInv, ChildFollows, Disturbed, Inside, Live, Ending, Go, session, bounds
<1>1. ASSUME NEW s \in Sessions, Acquire(s) PROVE ChildInv'
  BY <1>1 DEF Acquire
<1>2. ASSUME NEW s \in Sessions, Unpublish(s) PROVE ChildInv'
  BY <1>2 DEF Unpublish, Fault
<1>3. ASSUME NEW s \in Sessions, Publish(s) PROVE ChildInv'
  BY <1>3 DEF Publish, Fault
<1>4. ASSUME NEW s \in Sessions, Beat(s) PROVE ChildInv'
  BY <1>4 DEF Beat, Stopping, Fault, BeatFails
<1>5. ASSUME NEW s \in Sessions, BeatPublish(s) PROVE ChildInv'
  BY <1>5 DEF BeatPublish, Fault, BeatFails
<1>6. ASSUME NEW s \in Sessions, BeatStop(s) PROVE ChildInv'
  BY <1>6 DEF BeatStop, Stopping
<1>7. ASSUME NEW s \in Sessions, Before(s) PROVE ChildInv'
  BY <1>7 DEF Before, Owned
<1>8. ASSUME NEW s \in Sessions, Begin(s) PROVE ChildInv'
  BY <1>8 DEF Begin, Disturb
<1>9. ASSUME NEW s \in Sessions, After(s) PROVE ChildInv'
  BY <1>9 DEF After, Owned
<1>10. ASSUME NEW s \in Sessions, Stop(s) PROVE ChildInv'
  BY <1>10 DEF Stop
<1>11. ASSUME NEW s \in Sessions, Join(s) PROVE ChildInv'
  BY <1>11 DEF Join
<1>12. ASSUME NEW s \in Sessions, CheckOwner(s) PROVE ChildInv'
  BY <1>12 DEF CheckOwner
<1>13. ASSUME NEW s \in Sessions, Remove(s) PROVE ChildInv'
  BY <1>13 DEF Remove, Fault
<1>14. ASSUME NEW s \in Sessions, Unlock(s) PROVE ChildInv'
  BY <1>14 DEF Unlock
<1>15. ASSUME NEW s \in Sessions, Spawn(s) PROVE ChildInv'
  BY <1>15 DEF Spawn
<1>16. ASSUME NEW s \in Sessions, ChildOpen(s) PROVE ChildInv'
  BY <1>16 DEF ChildOpen, ReadsOwner
<1>17. ASSUME NEW s \in Sessions, ChildBefore(s) PROVE ChildInv'
  BY <1>17 DEF ChildBefore, ReadsOwner
<1>18. ASSUME NEW s \in Sessions, ChildBegin(s) PROVE ChildInv'
  BY <1>18 DEF ChildBegin, Disturb, Working
<1>19. ASSUME NEW s \in Sessions, ChildAfter(s) PROVE ChildInv'
  BY <1>19 DEF ChildAfter, ReadsOwner
<1>20. ASSUME NEW s \in Sessions, Crash(s) PROVE ChildInv'
  BY <1>20 DEF Crash, Dies
<1>21. ASSUME NEW s \in Sessions, ChildCrash(s) PROVE ChildInv'
  BY <1>21 DEF ChildCrash, Dies
<1>22. CASE UNCHANGED vars
  BY <1>22 DEF vars, bounds
<1> QED
  BY <1>1, <1>2, <1>3, <1>4, <1>5, <1>6, <1>7, <1>8, <1>9, <1>10, <1>11, <1>12, <1>13, <1>14, <1>15, <1>16, <1>17, <1>18, <1>19, <1>20, <1>21, <1>22
  DEF Next, AcquireStep, Heartbeat, Workload, ReleaseStep, ChildStep

\* Only its check after the workload makes a child's workload a success, and the
\* check reads the record.
LEMMA AnswerReadsRecord ==
  ASSUME TypeOK, [Next]_vars, NEW s \in Sessions, child[s] = "working", child'[s] = "idle"
  PROVE  owner = s
<1>1. \A t \in Sessions : ChildAfter(t) => owner = s
  BY DEF ChildAfter, ReadsOwner, TypeOK
<1>2. \A t \in Sessions :
        ~(AcquireStep(t) \/ Heartbeat(t) \/ Workload(t) \/ CheckOwner(t) \/ Remove(t) \/ Unlock(t) \/ Crash(t))
  BY DEF AcquireStep, Acquire, Unpublish, Publish, Heartbeat, Beat, BeatPublish, BeatStop,
         Workload, Before, Begin, After, CheckOwner, Remove, Unlock, Crash
<1>3. \A t \in Sessions : ~(Stop(t) \/ Join(t) \/ Spawn(t) \/ ChildCrash(t))
  BY DEF Stop, Join, Spawn, ChildCrash, TypeOK
<1>4. \A t \in Sessions : ~(ChildOpen(t) \/ ChildBefore(t) \/ ChildBegin(t))
  BY DEF ChildOpen, ChildBefore, ChildBegin, ReadsOwner, TypeOK
<1>5. ~UNCHANGED vars
  BY DEF vars
<1> QED
  BY <1>1, <1>2, <1>3, <1>4, <1>5 DEF Next, ReleaseStep, ChildStep

\* A child whose workload the next session disturbed is told so: the workload
\* is not a success (assert_owned after the workload, in execute).
THEOREM OverlapDetected == Spec => OverlapIsDetected
<1>1. TypeOK /\ ChildInv /\ [Next]_vars
        => [\A s \in Sessions : child[s] = "working" /\ child'[s] = "idle" => ~overlapped[s]]_vars
  BY AnswerReadsRecord DEF ChildInv, Disturbed
<1>2. Spec => [](TypeOK /\ ChildInv)
  <2>1. Init => TypeOK /\ LockInv /\ RecordInv /\ ChildInv
    BY TypeInit, LockInit, RecordInit, ChildInit
  <2>2. TypeOK /\ LockInv /\ RecordInv /\ ChildInv /\ [Next]_vars
          => (TypeOK /\ LockInv /\ RecordInv /\ ChildInv)'
    BY TypeStep, LockStep, RecordStep, ChildKept
  <2> QED BY <2>1, <2>2, PTL DEF Spec
<1> QED BY <1>1, <1>2, PTL DEF Spec, OverlapIsDetected
=============================================================================
