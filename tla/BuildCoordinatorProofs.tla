------------------------ MODULE BuildCoordinatorProofs ------------------------
(***************************************************************************)
(* Proofs about BuildCoordinator: no leader is fenced off its attempt, no   *)
(* verified output is built over, a success is verified, an announcement    *)
(* is only given up for a dead leader, and what a caller is told is not     *)
(* the doing of the cleaner or of another caller's cancellation.            *)
(***************************************************************************)
EXTENDS BuildCoordinator, TLAPS

Leading == {"build", "compile", "terminate", "finish"}
Holding == Leading \union {"enter", "announce", "mark", "check", "clear", "clearing", "release"}
Waiting == {"wait", "probe"}

\* Where a process is, it has the output lock or not.
LockInv == \A q \in Procs : pc[q] \in Holding => outputLock = q

\* The leader's record is its announcement; an announcement is that of a leader
\* of this kind, which leads or died while it did.
RecordInv ==
  /\ \A p \in Callers : pc[p] \in Leading => Owns(p)
  /\ \A k \in Kinds :
       record[k].state = "building" =>
         /\ KindOf[record[k].attempt] = k
         /\ pc[record[k].attempt] \in Leading \union {"crashed"}

\* A leader compiles what is not there; how its build ended is known where it
\* matters.
ResultInv ==
  \A p \in Callers :
    /\ pc[p] = "compile" => ~Verified(p)
    /\ pc[p] = "finish" => result[p] \in {"ok", "failed"} /\ (result[p] = "ok" => Verified(p))
    /\ pc[p] = "terminate" => result[p] \in Reasons /\ want[p] # "none"

\* A follower waits for an attempt that is dead and has not succeeded.
InVain(p) ==
  LET a == seen[p].attempt
  IN  pc[a] = "crashed" /\ ~(Rec(p).state = "succeeded" /\ Rec(p).attempt = a)

\* A follower is subscribed, or waits in vain: the cleaner took its subscription
\* with all others.  A cleaner that clears has seen no subscription, so that who
\* waits meanwhile waits in vain; nobody waits for a success that is gone.
WaitInv ==
  /\ \A p \in Callers : pc[p] \in Waiting => p \in subscribers[seen[p].attempt] \/ InVain(p)
  /\ \A c \in Cleaners : pc[c] \in {"clear", "clearing"} =>
       \A p \in Callers : pc[p] \in Waiting => InVain(p)
  /\ \A p \in Callers :
       pc[p] \in Waiting /\ Rec(p).state = "succeeded" /\ Rec(p).attempt = seen[p].attempt
         => Verified(p)

IInv == TypeOK /\ LockInv /\ RecordInv /\ ResultInv /\ WaitInv /\ OutcomeIsOwn

-----------------------------------------------------------------------------
\* The fields of a record that was written.
LEMMA RecordFacts ==
  ASSUME NEW s \in States, NEW p \in Callers, NEW e \in Errors
  PROVE  /\ Record(s, p, e) \in Records
         /\ Record(s, p, e).state = s
         /\ Record(s, p, e).attempt = p
         /\ Record(s, p, e).error = e
BY DEF Record, Records

\* No record is in the state "none", with nobody's attempt.
LEMMA NoRecordFacts ==
  /\ NoRecord \in Records
  /\ NoRecord.state = "none" /\ NoRecord.attempt = Nobody /\ NoRecord.error = "none"
  /\ \A r \in Records : r = NoRecord <=> r.state = "none"
  /\ \A r \in Records : r # NoRecord =>
       r.state \in States /\ r.attempt \in Callers /\ r.error \in Errors
  /\ \A r \in Records, p \in Callers : r = Building(p) =>
       r.state = "building" /\ r.attempt = p /\ r.error = "none"
BY DEF NoRecord, Records, States, Building, Record

\* How the attempt of a leader is recorded when it ended.
LEMMA EndedFacts ==
  ASSUME NEW p \in Callers, NEW r \in {"ok", "failed"} \union Reasons
  PROVE  /\ Ended(p, r) \in Records
         /\ Ended(p, r).attempt = p
         /\ Ended(p, r).state \in {"succeeded", "failed", "cancelled"}
         /\ Ended(p, r).state = "succeeded" <=> r = "ok"
         /\ Ended(p, r).state = "cancelled" <=> r = "cancelled"
         /\ Ended(p, r).error \notin {"abandoned", "stale"}
BY DEF Ended, Record, Records, States, Errors, Reasons

-----------------------------------------------------------------------------
\* At first nobody holds, leads or waits.
LEMMA InitInv == Init => IInv
<1> USE ConstantsAssumption
<1> SUFFICES ASSUME Init PROVE IInv
  OBVIOUS
<1>1. TypeOK
  BY NoRecordFacts DEF Init, TypeOK, Procs, CallerPc, CleanerPc, Outcomes
<1>2. LockInv
  BY DEF Init, LockInv, Holding, Leading, Procs
<1>3. RecordInv /\ ResultInv /\ WaitInv /\ OutcomeIsOwn
  BY NoRecordFacts DEF Init, RecordInv, ResultInv, WaitInv, Leading, Waiting, Procs,
    OutcomeIsOwn, WaiterKeepsOutput, CancellationIsOwn, Reasons
<1> QED BY <1>1, <1>2, <1>3 DEF IInv

\* Where the processes are, and what the callers there have read.
PcOK ==
  /\ pc \in [Procs -> {"idle", "done", "crashed"} \union CallerPc \union CleanerPc]
  /\ \A p \in Callers : pc[p] \notin {"check", "clear", "clearing"}
  /\ \A c \in Cleaners : pc[c] \in {"idle", "done", "crashed"} \union CleanerPc
  /\ seen \in [Callers -> Records]
  /\ \A p \in Callers : pc[p] \in {"count", "join", "wait", "probe"} => seen[p] # NoRecord

\* A caller that moves to where it needs a record has read one.
LEMMA CallerMoves ==
  ASSUME TypeOK, NEW p \in Callers, NEW to \in {"done", "crashed"} \union CallerPc,
         NEW r \in Records, Go(p, to), Note(p, r),
         to \in {"count", "join", "wait", "probe"} => r # NoRecord
  PROVE  PcOK'
<1> USE ConstantsAssumption DEF TypeOK, Procs, Go, Note
<1>1. pc' \in [Procs -> {"idle", "done", "crashed"} \union CallerPc \union CleanerPc]
  OBVIOUS
<1>2. \A q \in Callers : pc'[q] \notin {"check", "clear", "clearing"}
  BY DEF CallerPc
<1>3. \A c \in Cleaners : pc'[c] \in {"idle", "done", "crashed"} \union CleanerPc
  OBVIOUS
<1>4. seen' \in [Callers -> Records]
  OBVIOUS
<1>5. \A q \in Callers : pc'[q] \in {"count", "join", "wait", "probe"} => seen'[q] # NoRecord
  OBVIOUS
<1> QED BY <1>1, <1>2, <1>3, <1>4, <1>5 DEF PcOK

\* So does a cleaner that moves on.
LEMMA CleanerGoes ==
  ASSUME TypeOK, NEW c \in Cleaners, NEW to \in {"idle", "done", "crashed"} \union CleanerPc,
         Go(c, to), UNCHANGED seen
  PROVE  PcOK'
<1> USE ConstantsAssumption DEF TypeOK, Procs, Go
<1>1. pc' \in [Procs -> {"idle", "done", "crashed"} \union CallerPc \union CleanerPc]
  OBVIOUS
<1>2. \A q \in Callers : pc'[q] = pc[q]
  OBVIOUS
<1>3. \A d \in Cleaners : pc'[d] \in {"idle", "done", "crashed"} \union CleanerPc
  OBVIOUS
<1> QED BY <1>1, <1>2, <1>3 DEF PcOK

\* A step keeps the types.  The hypotheses are those that TypeOK itself does not
\* give: how the build of a leader ended is known when it is published.
LEMMA TypeStep == TypeOK /\ ResultInv /\ Next => TypeOK'
<1> USE ConstantsAssumption, NoRecordFacts DEF ConstantsAssumption, TypeOK, Procs, CallerPc, CleanerPc, Rec,
      Write, Go, Note, Return, shared, local, budget
<1> SUFFICES ASSUME TypeOK, ResultInv, Next PROVE TypeOK'
  OBVIOUS
<1>1. ASSUME NEW p \in Callers, GiveUp(p) PROVE TypeOK'
  BY <1>1 DEF GiveUp, Outcomes
<1>2. ASSUME NEW p \in Callers, Look(p) PROVE TypeOK'
  <2>1. /\ AfterLook(p) \in {"join", "count", "elect"}
        /\ AfterLook(p) # "elect" => Rec(p) # NoRecord
    BY DEF AfterLook
  <2>2. outcome' \in [Callers -> Outcomes]
    BY <1>2 DEF Look, Outcomes
  <2>3. CASE Rec(p).state = "succeeded" /\ Verified(p)
    <3>1. Go(p, "done") /\ Note(p, seen[p]) /\ seen[p] \in Records
      BY <1>2, <2>3 DEF Look
    <3>2. PcOK'
      BY <3>1, CallerMoves
    <3> QED BY <1>2, <2>2, <3>2 DEF Look, PcOK
  <2>4. CASE ~(Rec(p).state = "succeeded" /\ Verified(p))
    <3>1. /\ pc' = [pc EXCEPT ![p] = AfterLook(p)]
          /\ seen' = [seen EXCEPT ![p] = IF AfterLook(p) = "elect" THEN NoRecord ELSE Rec(p)]
      BY <1>2, <2>4 DEF Look
    <3>2. Rec(p) \in Records
      OBVIOUS
    <3>3. PcOK'
      BY <2>1, <3>1, <3>2, CallerMoves
    <3> QED BY <1>2, <2>2, <3>3 DEF Look, PcOK
  <2> QED BY <2>3, <2>4
<1>3. ASSUME NEW p \in Callers, ShareFailure(p) PROVE TypeOK'
  <2>1. outcome' \in [Callers -> Outcomes]
    BY <1>3 DEF ShareFailure, Outcomes
  <2>2. Note(p, NoRecord) /\ (Go(p, "done") \/ Go(p, "elect"))
    BY <1>3 DEF ShareFailure
  <2>3. PcOK'
    BY <2>2, CallerMoves
  <2> QED BY <1>3, <2>1, <2>3 DEF ShareFailure, PcOK
<1>4. ASSUME NEW p \in Callers, Elect(p) PROVE TypeOK'
  <2>1. outputLock' \in Procs \union {Nobody}
    BY <1>4 DEF Elect
  <2>2. \E to \in {"enter", "look"} : Go(p, to)
    BY <1>4 DEF Elect
  <2>3. seen[p] \in Records /\ Note(p, seen[p])
    BY <1>4 DEF Elect
  <2>4. PcOK'
    <3> HIDE DEF TypeOK, Go, Note, Procs
    <3> QED BY <2>2, <2>3, CallerMoves
  <2> QED BY <1>4, <2>1, <2>4 DEF Elect, PcOK
<1>5. ASSUME NEW p \in Callers, Enter(p) PROVE TypeOK'
  BY <1>5 DEF Enter
<1>6. ASSUME NEW p \in Callers, Announce(p) PROVE TypeOK'
  <2>1. Building(p) \in Records
    BY RecordFacts DEF Building, States, Errors
  <2> QED BY <1>6, <2>1 DEF Announce
<1>7. ASSUME NEW p \in Callers, Reuse(p) \/ Miss(p) \/ Compile(p) PROVE TypeOK'
  <2>1. CASE Reuse(p)
    BY <2>1 DEF Reuse
  <2>2. CASE Miss(p)
    BY <2>2 DEF Miss
  <2>3. CASE Compile(p)
    <3>1. Go(p, "finish") /\ Note(p, seen[p]) /\ seen[p] \in Records
      BY <2>3 DEF Compile
    <3>2. PcOK'
      BY <3>1, CallerMoves
    <3>3. output' \in [Kinds -> Callers \union {Nobody}]
      <4>1. output' = [output EXCEPT ![KindOf[p]] = p] \/ output' = output
        BY <2>3 DEF Compile
      <4>2. KindOf[p] \in Kinds /\ output \in [Kinds -> Callers \union {Nobody}]
        OBVIOUS
      <4> QED BY <4>1, <4>2
    <3>4. failures' \in Nat
      BY <2>3 DEF Compile
    <3>5. result' \in [Callers -> {"none", "ok", "failed"} \union Reasons]
      BY <2>3 DEF Compile
    <3> QED BY <2>3, <3>2, <3>3, <3>4, <3>5 DEF Compile, PcOK
  <2> QED BY <1>7, <2>1, <2>2, <2>3
<1>8. ASSUME NEW p \in Callers, ShouldAbort(p) PROVE TypeOK'
  <2>1. result' \in [Callers -> {"none", "ok", "failed"} \union Reasons]
    <3>1. result' = [result EXCEPT ![p] = want[p]] \/ result' = result
      BY <1>8 DEF ShouldAbort
    <3>2. want[p] \in Reasons
      BY <1>8 DEF ShouldAbort
    <3> QED BY <3>1, <3>2
  <2>2. subscribers' \in [Callers -> SUBSET Callers]
    BY <1>8 DEF ShouldAbort, Dropped
  <2>3. pc' = [pc EXCEPT ![p] = "terminate"] \/ pc' = pc
    BY <1>8 DEF ShouldAbort
  <2>4. UNCHANGED <<outputLock, record, output, seen, want, outcome, budget>>
    BY <1>8 DEF ShouldAbort
  <2>5. PcOK'
    BY <2>3, <2>4 DEF PcOK
  <2> QED BY <2>1, <2>2, <2>4, <2>5 DEF PcOK
<1>9. ASSUME NEW p \in Callers, Terminate(p) PROVE TypeOK'
  <2>1. Ended(p, result[p]) \in Records /\ result[p] \in Reasons
    BY <1>9, EndedFacts DEF Terminate, ResultInv
  <2> QED BY <1>9, <2>1, SMTT(30) DEF Terminate, Publish, Outcomes, Reasons
<1>10. ASSUME NEW p \in Callers, Finish(p) PROVE TypeOK'
  <2>1. result[p] \in {"ok", "failed"}
    BY <1>10 DEF Finish, ResultInv
  <2>2. ASSUME NEW r \in {"ok", "failed"} \union Reasons, Publish(p, r)
        PROVE  record' \in [Kinds -> Records]
    BY <2>2, EndedFacts DEF Publish
  <2>3. record' \in [Kinds -> Records]
    BY <1>10, <2>1, <2>2 DEF Finish, Reasons
  <2>4. outcome' \in [Callers -> Outcomes]
    BY <1>10 DEF Finish, Outcomes, Reasons
  <2> QED BY <1>10, <2>3, <2>4 DEF Finish, Dropped
<1>11. ASSUME NEW p \in Procs, Release(p) PROVE TypeOK'
  BY <1>11 DEF Release
<1>12. ASSUME NEW p \in Callers, Leave(p) PROVE TypeOK'
  BY <1>12 DEF Leave, Dropped
<1>13. ASSUME NEW p \in Callers, Join(p) PROVE TypeOK'
  <2>1. subscribers' \in [Callers -> SUBSET Callers]
    BY <1>13 DEF Join
  <2>2. CASE Rec(p) = Building(seen[p].attempt)
    BY <1>13, <2>1, <2>2 DEF Join
  <2>3. CASE Rec(p) # Building(seen[p].attempt)
    <3>1. PcOK'
      <4>1. Go(p, "look") /\ Note(p, NoRecord)
        BY <1>13, <2>3 DEF Join
      <4> QED BY <4>1, CallerMoves
    <3> QED BY <1>13, <2>1, <3>1 DEF Join, PcOK
  <2> QED BY <2>2, <2>3
<1>14. ASSUME NEW p \in Callers, StopWaiting(p) \/ AttemptEnded(p) \/ Poll(p) PROVE TypeOK'
  <2>1. outcome' \in [Callers -> Outcomes]
    BY <1>14 DEF StopWaiting, AttemptEnded, Poll, Outcomes
  <2>2. \E to \in {"leave", "probe"} : pc' = [pc EXCEPT ![p] = to] /\ UNCHANGED seen /\ pc[p] = "wait"
    BY <1>14 DEF StopWaiting, AttemptEnded, Poll
  <2>3. UNCHANGED <<shared, seen, want, result, budget>>
    BY <1>14 DEF StopWaiting, AttemptEnded, Poll
  <2> QED BY <2>1, <2>2, <2>3
<1>15. ASSUME NEW p \in Callers, Probe(p) PROVE TypeOK'
  <2>1. \E to \in {"mark", "wait"}, r \in Records :
          Go(p, to) /\ Note(p, r) /\ (to = "wait" => r = seen[p])
    <3>1. CASE outputLock = Nobody
      <4>1. Go(p, "mark") /\ (seen' = [seen EXCEPT ![p] = seen[p]] \/ Note(p, Rec(p)))
        BY <1>15, <3>1 DEF Probe
      <4> QED BY <4>1
    <3>2. CASE outputLock # Nobody
      <4>1. Go(p, "wait") /\ seen' = [seen EXCEPT ![p] = seen[p]]
        BY <1>15, <3>2 DEF Probe
      <4> QED BY <4>1
    <3> QED BY <3>1, <3>2
  <2>2. PcOK'
    <3>1. seen[p] # NoRecord
      BY <1>15 DEF Probe
    <3>2. PICK to \in {"mark", "wait"}, r \in Records :
            Go(p, to) /\ Note(p, r) /\ (to = "wait" => r = seen[p])
      BY <2>1
    <3> QED BY <3>1, <3>2, CallerMoves
  <2>3. outputLock' \in Procs \union {Nobody}
    BY <1>15 DEF Probe
  <2> QED BY <1>15, <2>2, <2>3 DEF Probe, PcOK
<1>16. ASSUME NEW p \in Callers, Mark(p) PROVE TypeOK'
  <2>1. CASE Rec(p).state = "building" /\ Rec(p).attempt = seen[p].attempt
    <3>1. \A e \in {"abandoned", "stale"} : Record("failed", seen[p].attempt, e) \in Records
      BY <2>1, RecordFacts DEF States, Errors
    <3> QED BY <1>16, <2>1, <3>1 DEF Mark
  <2>2. CASE ~(Rec(p).state = "building" /\ Rec(p).attempt = seen[p].attempt)
    BY <1>16, <2>2 DEF Mark
  <2> QED BY <2>1, <2>2
<1>17. ASSUME NEW c \in Cleaners, TryClean(c) \/ CheckActive(c) \/ BeginClear(c) \/ Cleared(c)
       PROVE  TypeOK'
  <2>1. CASE TryClean(c)
    <3>1. UNCHANGED <<record, subscribers, output, seen, want, result, outcome>>
      BY <2>1 DEF TryClean
    <3>2. outputLock' \in Procs \union {Nobody}
      BY <2>1 DEF TryClean
    <3>3. \E to \in {"check", "done", "release", "clear", "clearing"} : Go(c, to)
      BY <2>1 DEF TryClean
    <3>4. PcOK'
      <4> HIDE DEF TypeOK, Go, Procs
      <4> QED BY <3>1, <3>3, CleanerGoes
    <3> QED BY <2>1, <3>1, <3>2, <3>4 DEF TryClean, PcOK
  <2>2. CASE CheckActive(c)
    <3>1. UNCHANGED <<record, subscribers, output, seen, want, result, outcome>>
      BY <2>2 DEF CheckActive
    <3>2. outputLock' \in Procs \union {Nobody}
      BY <2>2 DEF CheckActive
    <3>3. \E to \in {"check", "done", "release", "clear", "clearing"} : Go(c, to)
      BY <2>2 DEF CheckActive
    <3>4. PcOK'
      <4> HIDE DEF TypeOK, Go, Procs
      <4> QED BY <3>1, <3>3, CleanerGoes
    <3> QED BY <2>2, <3>1, <3>2, <3>4 DEF CheckActive, PcOK
  <2>3. CASE BeginClear(c)
    <3>1. UNCHANGED <<record, subscribers, output, seen, want, result, outcome>>
      BY <2>3 DEF BeginClear
    <3>2. outputLock' \in Procs \union {Nobody}
      BY <2>3 DEF BeginClear
    <3>3. \E to \in {"check", "done", "release", "clear", "clearing"} : Go(c, to)
      BY <2>3 DEF BeginClear
    <3>4. PcOK'
      <4> HIDE DEF TypeOK, Go, Procs
      <4> QED BY <3>1, <3>3, CleanerGoes
    <3> QED BY <2>3, <3>1, <3>2, <3>4 DEF BeginClear, PcOK
  <2>4. CASE Cleared(c)
    <3>1. UNCHANGED <<record, subscribers, output, seen, want, result, outcome>>
      BY <2>4 DEF Cleared
    <3>2. outputLock' \in Procs \union {Nobody}
      BY <2>4 DEF Cleared
    <3>3. \E to \in {"check", "done", "release", "clear", "clearing"} : Go(c, to)
      BY <2>4 DEF Cleared
    <3>4. PcOK'
      <4> HIDE DEF TypeOK, Go, Procs
      <4> QED BY <3>1, <3>3, CleanerGoes
    <3> QED BY <2>4, <3>1, <3>2, <3>4 DEF Cleared, PcOK
  <2> QED BY <1>17, <2>1, <2>2, <2>3, <2>4
<1>18. ASSUME NEW c \in Cleaners, ClearEntry(c) PROVE TypeOK'
  <2>1. output' \in [Kinds -> Callers \union {Nobody}]
    BY <1>18 DEF ClearEntry
  <2>2. record' \in [Kinds -> Records]
    BY <1>18 DEF ClearEntry
  <2>3. subscribers' \in [Callers -> SUBSET Callers]
    BY <1>18 DEF ClearEntry
  <2> QED BY <1>18, <2>1, <2>2, <2>3 DEF ClearEntry
<1>19. ASSUME NEW p \in Callers, NEW why \in Reasons, Cancel(p, why) PROVE TypeOK'
  BY <1>19 DEF Cancel
<1>20. ASSUME NEW p \in Procs, Crash(p) PROVE TypeOK'
  BY <1>20 DEF Crash, Dropped
<1> QED
  BY <1>1, <1>2, <1>3, <1>4, <1>5, <1>6, <1>7, <1>8, <1>9, <1>10, <1>11, <1>12, <1>13,
    <1>14, <1>15, <1>16, <1>17, <1>18, <1>19, <1>20
    DEF Next, CallerStep, LeaderStep, FollowerStep, CleanerStep

\* The lock changes hands only when it is free or given up.
LEMMA LockStep == TypeOK /\ LockInv /\ Next => LockInv'
<1> USE ConstantsAssumption DEF TypeOK, LockInv, Holding, Leading, Procs, Go, shared, local, budget
<1> SUFFICES ASSUME TypeOK, LockInv, Next PROVE LockInv'
  OBVIOUS
<1>1. ASSUME NEW p \in Callers, GiveUp(p) \/ StopWaiting(p) \/ AttemptEnded(p) \/ Poll(p) \/ Leave(p)
      PROVE  LockInv'
  <2>1. outputLock' = outputLock
    BY <1>1 DEF GiveUp, StopWaiting, AttemptEnded, Poll, Leave
  <2>2. \E to \in {"done", "leave", "probe", "look"} : pc' = [pc EXCEPT ![p] = to]
    BY <1>1 DEF GiveUp, StopWaiting, AttemptEnded, Poll, Leave
  <2> QED BY <2>1, <2>2
<1>2. ASSUME NEW p \in Callers, Look(p) \/ ShareFailure(p) \/ Join(p) PROVE LockInv'
  <2>1. outputLock' = outputLock
    BY <1>2 DEF Look, ShareFailure, Join
  <2>2. \E to \in {"done", "join", "count", "elect", "wait", "look"} : pc' = [pc EXCEPT ![p] = to]
    <3>1. AfterLook(p) \in {"join", "count", "elect"}
      BY DEF AfterLook
    <3> QED BY <1>2, <3>1 DEF Look, ShareFailure, Join
  <2> QED BY <2>1, <2>2
<1>3. ASSUME NEW p \in Callers, Elect(p) PROVE LockInv'
  BY <1>3 DEF Elect
<1>4. ASSUME NEW p \in Callers, Probe(p) PROVE LockInv'
  BY <1>4 DEF Probe
<1>5. ASSUME NEW p \in Callers,
             Enter(p) \/ Announce(p) \/ Reuse(p) \/ Miss(p) \/ Compile(p)
             \/ ShouldAbort(p) \/ Terminate(p) \/ Finish(p) \/ Mark(p)
      PROVE  LockInv'
  <2>1. outputLock' = outputLock /\ pc[p] \in Holding
    BY <1>5 DEF Enter, Announce, Reuse, Miss, Compile, ShouldAbort, Terminate, Finish, Mark
  <2>2. pc' = pc \/ \E to \in Holding : pc' = [pc EXCEPT ![p] = to]
    BY <1>5 DEF Enter, Announce, Reuse, Miss, Compile, ShouldAbort, Terminate, Finish, Mark
  <2> HIDE DEF Holding
  <2> QED BY <2>1, <2>2
<1>6. ASSUME NEW p \in Procs, Release(p) PROVE LockInv'
  BY <1>6 DEF Release
<1>7. ASSUME NEW c \in Cleaners, TryClean(c) PROVE LockInv'
  BY <1>7 DEF TryClean
<1>8. ASSUME NEW c \in Cleaners, CheckActive(c) \/ BeginClear(c) \/ ClearEntry(c) \/ Cleared(c)
      PROVE  LockInv'
  <2>1. outputLock' = outputLock /\ pc[c] \in Holding
    BY <1>8 DEF CheckActive, BeginClear, ClearEntry, Cleared
  <2>2. pc' = pc \/ \E to \in Holding : pc' = [pc EXCEPT ![c] = to]
    BY <1>8 DEF CheckActive, BeginClear, ClearEntry, Cleared
  <2> HIDE DEF Holding
  <2> QED BY <2>1, <2>2
<1>9. ASSUME NEW p \in Callers, NEW why \in Reasons, Cancel(p, why) PROVE LockInv'
  BY <1>9 DEF Cancel
<1>10. ASSUME NEW p \in Procs, Crash(p) PROVE LockInv'
  BY <1>10 DEF Crash
<1> QED
  BY <1>1, <1>2, <1>3, <1>4, <1>5, <1>6, <1>7, <1>8, <1>9, <1>10
    DEF Next, CallerStep, LeaderStep, FollowerStep, CleanerStep

-----------------------------------------------------------------------------
\* Who holds the output lock holds it alone.
LEMMA OneHolder ==
  ASSUME TypeOK, LockInv, NEW p \in Procs, NEW q \in Procs, pc[p] \in Holding, pc[q] \in Holding
  PROVE  p = q
BY DEF LockInv

\* A step of a process that does not lead and will not, or that keeps leading,
\* and leaves the records alone.
LEMMA RecordFrame ==
  ASSUME TypeOK, RecordInv, NEW q \in Procs, NEW to, UNCHANGED record,
         Go(q, to) \/ UNCHANGED pc,
         pc[q] \in Leading <=> to \in Leading, pc[q] # "crashed"
  PROVE  RecordInv'
<1> USE ConstantsAssumption DEF TypeOK, Procs, Go
<1>1. \A p \in Procs : pc'[p] \in Leading <=> pc[p] \in Leading
  OBVIOUS
<1>2. \A p \in Procs : pc[p] = "crashed" => pc'[p] = "crashed"
  OBVIOUS
<1>3. \A k \in Kinds : record[k].state = "building" => record[k].attempt \in Callers
  BY NoRecordFacts
<1> QED BY <1>1, <1>2, <1>3 DEF RecordInv, Owns, Rec

\* The record is the leader's announcement while it leads, and an announcement
\* without a leader is that of a dead one: who writes over a record has the lock.
LEMMA RecordStep == TypeOK /\ LockInv /\ RecordInv /\ ResultInv /\ Next => RecordInv'
<1> SUFFICES ASSUME TypeOK, LockInv, RecordInv, ResultInv, Next PROVE RecordInv'
  OBVIOUS
<1> USE ConstantsAssumption DEF shared, local, budget
<1>1. ASSUME NEW p \in Callers,
             GiveUp(p) \/ Look(p) \/ ShareFailure(p) \/ Elect(p) \/ Enter(p) \/ Leave(p)
             \/ Join(p) \/ StopWaiting(p) \/ AttemptEnded(p) \/ Poll(p) \/ Probe(p)
      PROVE  RecordInv'
  <2>1. UNCHANGED record /\ pc[p] \in {"look", "count", "elect", "enter", "leave", "join", "wait", "probe"}
    BY <1>1 DEF GiveUp, Look, ShareFailure, Elect, Enter, Leave, Join, StopWaiting, AttemptEnded,
                Poll, Probe
  <2>2. AfterLook(p) \in {"join", "count", "elect"}
    BY DEF AfterLook
  <2>3. \E to \in {"done", "join", "count", "elect", "enter", "look", "announce", "wait", "leave",
                   "probe", "mark"} : Go(p, to)
    BY <1>1, <2>2 DEF GiveUp, Look, ShareFailure, Elect, Enter, Leave, Join, StopWaiting,
                      AttemptEnded, Poll, Probe
  <2> QED BY <2>1, <2>3, RecordFrame DEF Leading, Procs
<1>2. ASSUME NEW p \in Callers, Announce(p) PROVE RecordInv'
  <2>1. Building(p).state = "building" /\ Building(p).attempt = p
    BY DEF Building, Record
  <2>2. pc[p] = "announce" /\ pc' = [pc EXCEPT ![p] = "build"]
        /\ record' = [record EXCEPT ![KindOf[p]] = Building(p)]
    BY <1>2 DEF Announce, Go, Write
  <2>3. \A q \in Callers : pc[q] \in Leading => q = p
    BY <2>2, OneHolder DEF Holding, Procs
  <2>4. ASSUME NEW q \in Callers, pc'[q] \in Leading PROVE Owns(q)'
    BY <2>2, <2>3, <2>4 DEF Owns, Rec, TypeOK, Procs
  <2>5. ASSUME NEW k \in Kinds, record'[k].state = "building"
        PROVE  /\ KindOf[record'[k].attempt] = k
               /\ pc'[record'[k].attempt] \in Leading \union {"crashed"}
    <3>1. CASE k = KindOf[p]
      BY <2>1, <2>2, <3>1 DEF TypeOK, Procs, Leading
    <3>2. CASE k # KindOf[p]
      BY <2>2, <2>5, <3>2, NoRecordFacts DEF RecordInv, TypeOK, Procs, Leading
    <3> QED BY <3>1, <3>2
  <2> QED BY <2>4, <2>5 DEF RecordInv
<1>3. ASSUME NEW p \in Callers, Reuse(p) \/ Miss(p) \/ Compile(p) \/ ShouldAbort(p) PROVE RecordInv'
  <2>1. UNCHANGED record /\ pc[p] \in Leading
    BY <1>3 DEF Reuse, Miss, Compile, ShouldAbort, Leading
  <2>2. UNCHANGED pc \/ \E to \in Leading : Go(p, to)
    BY <1>3 DEF Reuse, Miss, Compile, ShouldAbort, Leading
  <2> QED BY <2>1, <2>2, RecordFrame DEF Leading, Procs
<1>4. ASSUME NEW p \in Callers, Terminate(p) \/ Finish(p) PROVE RecordInv'
  <2>1. pc[p] \in Leading /\ pc' = [pc EXCEPT ![p] = "release"]
    BY <1>4 DEF Terminate, Finish, Leading, Go
  <2>2. Owns(p)
    BY <2>1 DEF RecordInv
  <2>3. \E r \in {"ok", "failed"} \union Reasons : record' = [record EXCEPT ![KindOf[p]] = Ended(p, r)]
    BY <1>4, <2>2 DEF Terminate, Finish, Publish, Write, ResultInv, Reasons
  <2>4. PICK r \in {"ok", "failed"} \union Reasons : record' = [record EXCEPT ![KindOf[p]] = Ended(p, r)]
    BY <2>3
  <2>5. \A q \in Callers : pc[q] \in Leading => q = p
    BY <2>1, OneHolder DEF Holding, Procs
  <2>6. \A q \in Callers : pc'[q] \notin Leading
    BY <2>1, <2>5 DEF Leading, TypeOK, Procs
  <2>7. ASSUME NEW k \in Kinds, record'[k].state = "building"
        PROVE  /\ KindOf[record'[k].attempt] = k
               /\ pc'[record'[k].attempt] \in Leading \union {"crashed"}
    <3>1. k # KindOf[p]
      BY <2>4, <2>7, EndedFacts DEF TypeOK
    <3>2. record'[k] = record[k] /\ record[k].attempt \in Callers
      BY <2>4, <2>7, <3>1, NoRecordFacts DEF TypeOK
    <3> QED BY <2>1, <2>7, <3>1, <3>2 DEF RecordInv, TypeOK, Procs
  <2> QED BY <2>6, <2>7 DEF RecordInv
<1>5. ASSUME NEW p \in Procs, Release(p) PROVE RecordInv'
  <2>1. UNCHANGED record /\ pc[p] = "release" /\ \E to \in {"leave", "done"} : Go(p, to)
    BY <1>5 DEF Release
  <2> QED BY <2>1, RecordFrame DEF Leading
<1>6. ASSUME NEW p \in Callers, Mark(p) PROVE RecordInv'
  <2>1. pc[p] = "mark" /\ pc' = [pc EXCEPT ![p] = "release"]
    BY <1>6 DEF Mark, Go
  <2>2. CASE Rec(p).state = "building" /\ Rec(p).attempt = seen[p].attempt
    <3>1. PICK e \in {"abandoned", "stale"} :
            record' = [record EXCEPT ![KindOf[p]] = Record("failed", seen[p].attempt, e)]
      BY <1>6, <2>2 DEF Mark, Write
    <3>2. Record("failed", seen[p].attempt, e).state = "failed"
      BY DEF Record
    <3>3. \A q \in Callers : pc[q] \notin Leading
      BY <2>1, OneHolder DEF Holding, Leading, Procs
    <3>4. \A q \in Callers : pc'[q] \notin Leading
      BY <2>1, <3>3 DEF Leading, TypeOK, Procs
    <3>5. ASSUME NEW k \in Kinds, record'[k].state = "building"
          PROVE  /\ KindOf[record'[k].attempt] = k
                 /\ pc'[record'[k].attempt] \in Leading \union {"crashed"}
      <4>1. record'[k] = record[k] /\ record[k].attempt \in Callers
        BY <3>1, <3>2, <3>5, NoRecordFacts DEF TypeOK
      <4> QED BY <2>1, <3>5, <4>1 DEF RecordInv, TypeOK, Procs, Leading
    <3> QED BY <3>4, <3>5 DEF RecordInv
  <2>3. CASE ~(Rec(p).state = "building" /\ Rec(p).attempt = seen[p].attempt)
    <3>1. UNCHANGED record /\ Go(p, "release")
      BY <1>6, <2>3 DEF Mark
    <3> QED BY <2>1, <3>1, RecordFrame DEF Leading, Procs
  <2> QED BY <2>2, <2>3
<1>7. ASSUME NEW c \in Cleaners, TryClean(c) \/ CheckActive(c) \/ BeginClear(c) \/ Cleared(c)
      PROVE  RecordInv'
  <2>1. UNCHANGED record /\ pc[c] \in {"idle", "check", "clear", "clearing"}
    BY <1>7 DEF TryClean, CheckActive, BeginClear, Cleared
  <2>2. \E to \in {"check", "done", "release", "clear", "clearing"} : Go(c, to)
    BY <1>7 DEF TryClean, CheckActive, BeginClear, Cleared
  <2> QED BY <2>1, <2>2, RecordFrame DEF Leading, Procs
<1>8. ASSUME NEW c \in Cleaners, ClearEntry(c) PROVE RecordInv'
  <2>1. pc[c] = "clearing" /\ UNCHANGED pc
    BY <1>8 DEF ClearEntry
  <2>2. record' = record \/ \E k \in Kinds : record' = [record EXCEPT ![k] = NoRecord]
    BY <1>8 DEF ClearEntry
  <2>3. \A q \in Callers : pc[q] \notin Leading
    BY <2>1, OneHolder DEF Holding, Leading, Procs
  <2>4. \A k \in Kinds : record'[k].state = "building" => record'[k] = record[k]
    BY <2>2, NoRecordFacts DEF TypeOK
  <2> QED BY <2>1, <2>3, <2>4 DEF RecordInv
<1>9. ASSUME NEW p \in Callers, NEW why \in Reasons, Cancel(p, why) PROVE RecordInv'
  BY <1>9 DEF Cancel, RecordInv, Owns, Rec
<1>10. ASSUME NEW p \in Procs, Crash(p) PROVE RecordInv'
  <2>1. UNCHANGED record /\ pc' = [pc EXCEPT ![p] = "crashed"]
    BY <1>10 DEF Crash, Go
  <2>2. \A q \in Callers : pc'[q] \in Leading => pc[q] \in Leading
    BY <2>1 DEF Leading, TypeOK, Procs
  <2>3. \A k \in Kinds : record[k].state = "building" => record[k].attempt \in Callers
    BY NoRecordFacts DEF TypeOK
  <2> QED BY <2>1, <2>2, <2>3 DEF RecordInv, Owns, Rec, TypeOK, Procs
<1> QED
  BY <1>1, <1>2, <1>3, <1>4, <1>5, <1>6, <1>7, <1>8, <1>9, <1>10
    DEF Next, CallerStep, LeaderStep, FollowerStep, CleanerStep, Procs

\* A step that leaves the outputs, and what is known of the leaders, alone.
LEMMA ResultFrame ==
  ASSUME TypeOK, ResultInv, UNCHANGED <<output, result>>, NEW q \in Procs, NEW to, Go(q, to),
         to \notin {"compile", "finish", "terminate"},
         \A p \in Callers : want[p] # "none" => want'[p] # "none"
  PROVE  ResultInv'
<1>1. \A p \in Callers : pc'[p] \in {"compile", "finish", "terminate"} => pc'[p] = pc[p]
  BY DEF TypeOK, Procs, Go
<1> QED BY <1>1 DEF ResultInv, Verified

\* How a build ended is known when it is published.
LEMMA ResultStep == TypeOK /\ LockInv /\ ResultInv /\ Next => ResultInv'
<1> SUFFICES ASSUME TypeOK, LockInv, ResultInv, Next PROVE ResultInv'
  OBVIOUS
<1> USE ConstantsAssumption DEF shared, local, budget
<1> DEFINE Known == {"compile", "finish", "terminate"}
<1>1. ASSUME NEW p \in Callers,
             GiveUp(p) \/ Look(p) \/ ShareFailure(p) \/ Elect(p) \/ Enter(p) \/ Announce(p)
             \/ Terminate(p) \/ Finish(p)
             \/ Join(p) \/ StopWaiting(p) \/ AttemptEnded(p) \/ Poll(p) \/ Probe(p) \/ Mark(p)
      PROVE  ResultInv'
  <2>1. UNCHANGED <<output, result, want>>
    BY <1>1 DEF GiveUp, Look, ShareFailure, Elect, Enter, Announce, Terminate, Finish, Join,
                StopWaiting, AttemptEnded, Poll, Probe, Mark
  <2>2. AfterLook(p) \notin Known
    BY DEF AfterLook
  <2>3. \E to : to \notin Known /\ Go(p, to)
    BY <1>1, <2>2 DEF GiveUp, Look, ShareFailure, Elect, Enter, Announce, Terminate, Finish, Join,
                      StopWaiting, AttemptEnded, Poll, Probe, Mark
  <2> QED BY <2>1, <2>3, ResultFrame DEF Procs
<1>2. ASSUME NEW p \in Callers, Reuse(p) PROVE ResultInv'
  BY <1>2 DEF Reuse, ResultInv, Verified, Go, TypeOK, Procs
<1>3. ASSUME NEW p \in Callers, Miss(p) PROVE ResultInv'
  BY <1>3 DEF Miss, ResultInv, Verified, Go, TypeOK, Procs
<1>4. ASSUME NEW p \in Callers, Compile(p) PROVE ResultInv'
  <2>1. pc[p] = "compile" /\ pc' = [pc EXCEPT ![p] = "finish"] /\ UNCHANGED want
    BY <1>4 DEF Compile, Go
  <2>2. \A q \in Callers : q # p => pc'[q] \notin Known
    BY <2>1, OneHolder DEF Holding, Leading, Procs, TypeOK
  <2>3. \/ result' = [result EXCEPT ![p] = "ok"] /\ output' = [output EXCEPT ![KindOf[p]] = p]
        \/ result' = [result EXCEPT ![p] = "failed"]
    BY <1>4 DEF Compile
  <2>4. result'[p] \in {"ok", "failed"} /\ (result'[p] = "ok" => output'[KindOf[p]] # Nobody)
    BY <2>3 DEF TypeOK, Procs
  <2> QED BY <2>1, <2>2, <2>4 DEF ResultInv, Verified, TypeOK, Procs
<1>5. ASSUME NEW p \in Callers, ShouldAbort(p) PROVE ResultInv'
  <2>1. UNCHANGED <<output, want>> /\ pc[p] = "compile" /\ want[p] # "none"
    BY <1>5 DEF ShouldAbort
  <2>2. CASE UNCHANGED <<result, pc>>
    BY <2>1, <2>2 DEF ResultInv, Verified
  <2>3. CASE result' = [result EXCEPT ![p] = want[p]] /\ pc' = [pc EXCEPT ![p] = "terminate"]
    <3>1. want[p] \in Reasons
      BY <2>1 DEF TypeOK
    <3> QED BY <2>1, <2>3, <3>1 DEF ResultInv, Verified, TypeOK, Procs
  <2> QED BY <1>5, <2>2, <2>3 DEF ShouldAbort, Go
<1>6. ASSUME NEW p \in Procs, Release(p) PROVE ResultInv'
  <2>1. UNCHANGED <<output, result, want>> /\ \E to \in {"leave", "done"} : Go(p, to)
    BY <1>6 DEF Release
  <2> QED BY <2>1, ResultFrame
<1>7. ASSUME NEW p \in Callers, Leave(p) PROVE ResultInv'
  <2>1. UNCHANGED <<output, want>> /\ \E to \in {"look", "done"} : pc' = [pc EXCEPT ![p] = to]
    BY <1>7 DEF Leave, Go
  <2>2. result' = [result EXCEPT ![p] = "none"]
    BY <1>7 DEF Leave
  <2> QED BY <2>1, <2>2 DEF ResultInv, Verified, TypeOK, Procs
<1>8. ASSUME NEW c \in Cleaners, TryClean(c) \/ CheckActive(c) \/ BeginClear(c) \/ Cleared(c)
      PROVE  ResultInv'
  <2>1. UNCHANGED <<output, result, want>>
    BY <1>8 DEF TryClean, CheckActive, BeginClear, Cleared
  <2>2. \E to \in {"check", "done", "release", "clear", "clearing"} : Go(c, to)
    BY <1>8 DEF TryClean, CheckActive, BeginClear, Cleared
  <2> QED BY <2>1, <2>2, ResultFrame DEF Procs
<1>9. ASSUME NEW c \in Cleaners, ClearEntry(c) PROVE ResultInv'
  <2>1. pc[c] = "clearing" /\ UNCHANGED pc
    BY <1>9 DEF ClearEntry
  <2>2. \A q \in Callers : pc[q] \notin Known
    BY <2>1, OneHolder DEF Holding, Leading, Procs
  <2> QED BY <2>1, <2>2 DEF ResultInv
<1>10. ASSUME NEW p \in Callers, NEW why \in Reasons, Cancel(p, why) PROVE ResultInv'
  <2>1. UNCHANGED <<output, result, pc>> /\ want' = [want EXCEPT ![p] = why] /\ why # "none"
    BY <1>10 DEF Cancel, Reasons
  <2> QED BY <2>1 DEF ResultInv, Verified, TypeOK
<1>11. ASSUME NEW p \in Procs, Crash(p) PROVE ResultInv'
  <2>1. UNCHANGED <<output, result, want>> /\ Go(p, "crashed")
    BY <1>11 DEF Crash
  <2> QED BY <2>1, ResultFrame
<1> QED
  BY <1>1, <1>2, <1>3, <1>4, <1>5, <1>6, <1>7, <1>8, <1>9, <1>10, <1>11
    DEF Next, CallerStep, LeaderStep, FollowerStep, CleanerStep, Procs

\* A call answers for itself: a success that a follower hears of is still there,
\* and a leader that stops does so for its own cancellation.
LEMMA OutcomeStep == TypeOK /\ ResultInv /\ WaitInv /\ OutcomeIsOwn /\ Next => OutcomeIsOwn'
<1> SUFFICES ASSUME TypeOK, ResultInv, WaitInv, OutcomeIsOwn, Next PROVE OutcomeIsOwn'
  OBVIOUS
<1> USE DEF OutcomeIsOwn, WaiterKeepsOutput, CancellationIsOwn, shared, local, budget
<1>1. ASSUME NEW p \in Callers, NEW o, Return(p, o), UNCHANGED want,
             o # "unverified", o \in Reasons => want[p] # "none"
      PROVE  OutcomeIsOwn'
  BY <1>1 DEF Return, TypeOK
<1>2. ASSUME UNCHANGED outcome, UNCHANGED want PROVE OutcomeIsOwn'
  BY <1>2
<1>3. ASSUME NEW p \in Callers,
             GiveUp(p) \/ Look(p) \/ ShareFailure(p) \/ StopWaiting(p)
      PROVE  OutcomeIsOwn'
  <2>1. UNCHANGED want /\ (UNCHANGED outcome \/ \E o : Return(p, o) /\ o # "unverified"
                                                         /\ (o \in Reasons => want[p] # "none"))
    BY <1>3 DEF GiveUp, Look, ShareFailure, StopWaiting, Reasons
  <2> QED BY <1>1, <1>2, <2>1
<1>4. ASSUME NEW p \in Callers, AttemptEnded(p) PROVE OutcomeIsOwn'
  <2>1. Rec(p).state = "succeeded" => Verified(p)
    BY <1>4 DEF AttemptEnded, Awaited, WaitInv, Waiting
  <2>2. UNCHANGED want /\ \E o \in {"followed", "none", "failed"} : Return(p, o)
    BY <1>4, <2>1 DEF AttemptEnded
  <2> QED BY <1>1, <2>2 DEF Reasons
<1>5. ASSUME NEW p \in Callers, Terminate(p) PROVE OutcomeIsOwn'
  <2>1. result[p] \in Reasons /\ want[p] # "none"
    BY <1>5 DEF Terminate, ResultInv
  <2>2. UNCHANGED want /\ \E o \in {result[p], "lost"} : Return(p, o)
    BY <1>5 DEF Terminate
  <2> QED BY <1>1, <2>1, <2>2 DEF Reasons
<1>6. ASSUME NEW p \in Callers, Finish(p) PROVE OutcomeIsOwn'
  <2>1. want[p] \in Reasons \union {"none"}
    BY DEF TypeOK
  <2>2. UNCHANGED want
        /\ \E o \in {want[p], "lost", "built", "failed"} : Return(p, o) /\ (o = want[p] => want[p] # "none")
    BY <1>6, <2>1 DEF Finish, Reasons
  <2> QED BY <1>1, <2>1, <2>2 DEF Reasons
<1>7. ASSUME NEW p \in Callers, NEW why \in Reasons, Cancel(p, why) PROVE OutcomeIsOwn'
  BY <1>7 DEF Cancel, TypeOK, Reasons
<1>8. ASSUME NEW p \in Callers,
             Elect(p) \/ Enter(p) \/ Announce(p) \/ Reuse(p) \/ Miss(p) \/ Compile(p)
             \/ ShouldAbort(p) \/ Leave(p) \/ Join(p) \/ Poll(p) \/ Probe(p) \/ Mark(p)
      PROVE  OutcomeIsOwn'
  BY <1>2, <1>8 DEF Elect, Enter, Announce, Reuse, Miss, Compile, ShouldAbort, Leave, Join, Poll,
                    Probe, Mark
<1>9. ASSUME NEW c \in Cleaners,
             TryClean(c) \/ CheckActive(c) \/ BeginClear(c) \/ ClearEntry(c) \/ Cleared(c)
      PROVE  OutcomeIsOwn'
  BY <1>2, <1>9 DEF TryClean, CheckActive, BeginClear, ClearEntry, Cleared
<1>10. ASSUME NEW p \in Procs, Release(p) \/ Crash(p) PROVE OutcomeIsOwn'
  BY <1>2, <1>10 DEF Release, Crash
<1> QED
  BY <1>3, <1>4, <1>5, <1>6, <1>7, <1>8, <1>9, <1>10
    DEF Next, CallerStep, LeaderStep, FollowerStep, CleanerStep, Procs

-----------------------------------------------------------------------------
\* What a step may do to the followers: the facts that WaitStep combines.

\* The dead stay dead.
LEMMA CrashedStays ==
  ASSUME TypeOK, Next, NEW q \in Procs, pc[q] = "crashed"
  PROVE  pc'[q] = "crashed"
<1> USE DEF shared, local, budget, Go, TypeOK
<1>1. \A p \in Callers : CallerStep(p) => pc'[q] = "crashed"
  BY DEF CallerStep, LeaderStep, FollowerStep, GiveUp, Look, ShareFailure, Elect, Enter, Announce,
         Reuse, Miss, Compile, ShouldAbort, Terminate, Finish, Join, StopWaiting, AttemptEnded, Poll,
         Probe, Mark, Release, Leave
<1>2. \A c \in Cleaners : TryClean(c) \/ CleanerStep(c) => pc'[q] = "crashed"
  BY DEF CleanerStep, TryClean, CheckActive, BeginClear, ClearEntry, Cleared, Release
<1>3. \A p \in Callers, why \in Reasons : Cancel(p, why) => pc'[q] = "crashed"
  BY DEF Cancel
<1>4. \A p \in Procs : Crash(p) => pc'[q] = "crashed"
  BY DEF Crash
<1> QED BY <1>1, <1>2, <1>3, <1>4 DEF Next

\* A record of a success was there, or its leader writes it now and the
\* artifacts are there.
SuccessWritten(k) ==
  record'[k].state = "succeeded" =>
    \/ record'[k] = record[k]
    \/ pc[record'[k].attempt] = "finish" /\ output'[k] # Nobody

LEMMA SuccessStep == TypeOK /\ RecordInv /\ ResultInv /\ Next => \A k \in Kinds : SuccessWritten(k)
<1> SUFFICES ASSUME TypeOK, RecordInv, ResultInv, Next, NEW k \in Kinds PROVE SuccessWritten(k)
  OBVIOUS
<1> USE ConstantsAssumption DEF shared, local, budget
<1>1. ASSUME UNCHANGED record PROVE SuccessWritten(k)
  BY <1>1 DEF SuccessWritten
<1>2. ASSUME NEW p \in Callers, NEW r, r.state # "succeeded", Write(p, r) PROVE SuccessWritten(k)
  BY <1>2 DEF SuccessWritten, Write, TypeOK
<1>3. ASSUME NEW p \in Callers, Announce(p) PROVE SuccessWritten(k)
  <2>1. Building(p).state # "succeeded"
    BY DEF Building, Record
  <2> QED BY <1>2, <1>3, <2>1 DEF Announce
<1>4. ASSUME NEW p \in Callers, Terminate(p) PROVE SuccessWritten(k)
  <2>1. result[p] \in Reasons
    BY <1>4 DEF Terminate, ResultInv
  <2>2. Ended(p, result[p]).state # "succeeded"
    BY <2>1, EndedFacts DEF Reasons
  <2> QED BY <1>1, <1>2, <1>4, <2>2 DEF Terminate, Publish
<1>5. ASSUME NEW p \in Callers, Finish(p) PROVE SuccessWritten(k)
  <2>1. pc[p] = "finish" /\ UNCHANGED output /\ result[p] \in {"ok", "failed"}
        /\ (result[p] = "ok" => Verified(p))
    BY <1>5 DEF Finish, ResultInv
  <2>2. \E r \in {"ok", "failed"} \union Reasons : Publish(p, r) /\ (r = "ok" => result[p] = "ok")
    BY <1>5, <2>1 DEF Finish, Reasons
  <2>3. PICK r \in {"ok", "failed"} \union Reasons : Publish(p, r) /\ (r = "ok" => result[p] = "ok")
    BY <2>2
  <2>4. CASE ~Owns(p)
    BY <1>1, <2>3, <2>4 DEF Publish
  <2>5. CASE Owns(p) /\ r = "ok"
    <3>1. record' = [record EXCEPT ![KindOf[p]] = Ended(p, r)] /\ Ended(p, r).attempt = p
      BY <2>3, <2>5, EndedFacts DEF Publish, Write
    <3> QED BY <2>1, <2>3, <2>5, <3>1 DEF SuccessWritten, Verified, TypeOK
  <2>6. CASE Owns(p) /\ r # "ok"
    <3>1. Ended(p, r).state # "succeeded"
      BY <2>6, EndedFacts
    <3> QED BY <1>2, <2>3, <2>6, <3>1 DEF Publish
  <2> QED BY <2>4, <2>5, <2>6
<1>6. ASSUME NEW p \in Callers, Mark(p) PROVE SuccessWritten(k)
  <2>1. \A a, e : Record("failed", a, e).state # "succeeded"
    BY DEF Record
  <2> QED BY <1>1, <1>2, <1>6, <2>1 DEF Mark
<1>7. ASSUME NEW c \in Cleaners, ClearEntry(c) PROVE SuccessWritten(k)
  <2>1. record' = record \/ \E j \in Kinds : record' = [record EXCEPT ![j] = NoRecord]
    BY <1>7 DEF ClearEntry
  <2> QED BY <2>1, NoRecordFacts DEF SuccessWritten, TypeOK
<1>8. ASSUME NEW p \in Callers,
             GiveUp(p) \/ Look(p) \/ ShareFailure(p) \/ Elect(p) \/ Enter(p) \/ Reuse(p) \/ Miss(p)
             \/ Compile(p) \/ ShouldAbort(p) \/ Leave(p) \/ Join(p) \/ StopWaiting(p)
             \/ AttemptEnded(p) \/ Poll(p) \/ Probe(p)
      PROVE  UNCHANGED record
  BY <1>8 DEF GiveUp, Look, ShareFailure, Elect, Enter, Reuse, Miss, Compile, ShouldAbort, Leave, Join,
              StopWaiting, AttemptEnded, Poll, Probe
<1>9. ASSUME NEW c \in Cleaners, TryClean(c) \/ CheckActive(c) \/ BeginClear(c) \/ Cleared(c)
      PROVE  UNCHANGED record
  BY <1>9 DEF TryClean, CheckActive, BeginClear, Cleared
<1>10. ASSUME NEW p \in Procs, Release(p) \/ Crash(p) \/ \E why \in Reasons : Cancel(p, why)
       PROVE  UNCHANGED record
  BY <1>10 DEF Release, Crash, Cancel
<1> QED
  BY <1>1, <1>3, <1>4, <1>5, <1>6, <1>7, <1>8, <1>9, <1>10
    DEF Next, CallerStep, LeaderStep, FollowerStep, CleanerStep, Procs

\* A follower waited before, or joins the building attempt that it read.
Joined(p) ==
  /\ pc[p] = "join" /\ StateFree /\ Rec(p) = Building(seen[p].attempt)
  /\ UNCHANGED <<record, output, outputLock>> /\ pc' = [pc EXCEPT ![p] = "wait"]
  /\ p \in subscribers'[seen[p].attempt]

LEMMA WaiterStep ==
  ASSUME TypeOK, Next, NEW p \in Callers, pc'[p] \in Waiting
  PROVE  seen'[p] = seen[p] /\ seen[p] # NoRecord /\ (pc[p] \in Waiting \/ Joined(p))
<1> USE ConstantsAssumption DEF shared, local, budget, Go, Note, Procs
<1>1. ASSUME NEW q \in Callers, Join(q)
      PROVE  seen'[p] = seen[p] /\ (pc[p] \in Waiting \/ Joined(p))
  <2>1. CASE Rec(q) = Building(seen[q].attempt)
    <3>1. UNCHANGED seen /\ pc[q] = "join" /\ pc' = [pc EXCEPT ![q] = "wait"]
      BY <1>1, <2>1 DEF Join
    <3>2. seen[q].attempt \in Callers
      BY <3>1, NoRecordFacts DEF TypeOK
    <3>3. q \in subscribers'[seen[q].attempt]
      BY <1>1, <2>1, <3>2 DEF Join, TypeOK
    <3>4. Joined(q)
      BY <1>1, <2>1, <3>1, <3>3 DEF Join, Joined
    <3> QED BY <3>1, <3>4 DEF TypeOK
  <2>2. CASE Rec(q) # Building(seen[q].attempt)
    <3>1. seen' = [seen EXCEPT ![q] = NoRecord] /\ pc' = [pc EXCEPT ![q] = "look"]
      BY <1>1, <2>2 DEF Join
    <3> QED BY <3>1 DEF TypeOK, Waiting
  <2> QED BY <2>1, <2>2
<1>2. ASSUME NEW q \in Callers, Look(q) PROVE seen'[p] = seen[p] /\ pc[p] \in Waiting
  <2>1. AfterLook(q) \notin Waiting
    BY DEF AfterLook, Waiting
  <2>2. \E to : to \notin Waiting /\ pc' = [pc EXCEPT ![q] = to]
    BY <1>2, <2>1 DEF Look, Waiting
  <2>3. \A r \in Callers : r # q => seen'[r] = seen[r]
    BY <1>2 DEF Look, TypeOK
  <2> QED BY <2>2, <2>3 DEF TypeOK
<1>3. ASSUME NEW q \in Callers, Probe(q) PROVE seen'[p] = seen[p] /\ pc[p] \in Waiting
  <2>1. CASE outputLock = Nobody
    <3>1. pc' = [pc EXCEPT ![q] = "mark"] /\ \A r \in Callers : r # q => seen'[r] = seen[r]
      BY <1>3, <2>1 DEF Probe, TypeOK
    <3> QED BY <3>1 DEF TypeOK, Waiting
  <2>2. CASE outputLock # Nobody
    BY <1>3, <2>2 DEF Probe, TypeOK, Waiting
  <2> QED BY <2>1, <2>2
<1>4. ASSUME NEW q \in Callers,
             GiveUp(q) \/ ShareFailure(q) \/ Elect(q) \/ Enter(q) \/ Announce(q) \/ Reuse(q) \/ Miss(q)
             \/ Compile(q) \/ ShouldAbort(q) \/ Terminate(q) \/ Finish(q) \/ Leave(q)
             \/ StopWaiting(q) \/ AttemptEnded(q) \/ Poll(q) \/ Mark(q)
      PROVE  seen'[p] = seen[p] /\ pc[p] \in Waiting
  <2> HIDE DEF Go
  <2>1. \/ UNCHANGED pc
        \/ \E to \in {"done", "elect", "look", "enter", "announce", "build", "finish", "compile",
                    "terminate", "release", "leave"} : Go(q, to)
        \/ pc[q] = "wait" /\ Go(q, "probe")
    <3>1. CASE GiveUp(q) \/ ShareFailure(q) \/ Elect(q) \/ Enter(q) \/ Announce(q) \/ Reuse(q) \/ Miss(q)
      BY <3>1 DEF GiveUp, ShareFailure, Elect, Enter, Announce, Reuse, Miss
    <3>2. CASE Compile(q) \/ ShouldAbort(q) \/ Terminate(q) \/ Finish(q) \/ Leave(q)
      BY <3>2 DEF Compile, ShouldAbort, Terminate, Finish, Leave
    <3>3. CASE StopWaiting(q) \/ AttemptEnded(q) \/ Poll(q) \/ Mark(q)
      BY <3>3 DEF StopWaiting, AttemptEnded, Poll, Mark
    <3> QED BY <1>4, <3>1, <3>2, <3>3
  <2>2. CASE ShareFailure(q) \/ Leave(q)
    <3>1. seen' = [seen EXCEPT ![q] = NoRecord]
          /\ \E to \in {"done", "elect", "look"} : pc' = [pc EXCEPT ![q] = to]
      BY <2>2 DEF ShareFailure, Leave, Go
    <3> QED BY <3>1 DEF TypeOK, Waiting
  <2>3. CASE ~(ShareFailure(q) \/ Leave(q))
    <3>1. UNCHANGED seen
      BY <1>4, <2>3 DEF GiveUp, Elect, Enter, Announce, Reuse, Miss, Compile, ShouldAbort,
                        Terminate, Finish, StopWaiting, AttemptEnded, Poll, Mark
    <3> QED BY <2>1, <3>1 DEF TypeOK, Waiting, Go
  <2> QED BY <2>2, <2>3
<1>5. ASSUME NEW c \in Cleaners,
             TryClean(c) \/ CheckActive(c) \/ BeginClear(c) \/ ClearEntry(c) \/ Cleared(c)
      PROVE  seen'[p] = seen[p] /\ pc[p] \in Waiting
  <2>1. UNCHANGED seen /\ \A q \in Callers : pc'[q] = pc[q]
    BY <1>5 DEF TryClean, CheckActive, BeginClear, ClearEntry, Cleared, TypeOK
  <2> QED BY <2>1
<1>6. ASSUME NEW q \in Procs, Release(q) \/ Crash(q) \/ \E why \in Reasons : Cancel(q, why)
      PROVE  seen'[p] = seen[p] /\ pc[p] \in Waiting
  <2>1. UNCHANGED seen /\ (UNCHANGED pc \/ \E to \in {"leave", "done", "crashed"} : pc' = [pc EXCEPT ![q] = to])
    BY <1>6 DEF Release, Crash, Cancel
  <2> QED BY <2>1 DEF TypeOK, Waiting
<1>7. seen'[p] = seen[p] /\ (pc[p] \in Waiting \/ Joined(p))
  BY <1>1, <1>2, <1>3, <1>4, <1>5, <1>6
    DEF Next, CallerStep, LeaderStep, FollowerStep, CleanerStep
<1> QED BY <1>7 DEF TypeOK, Waiting, Joined

\* Only its caller takes a subscription away, when it waits no longer, or the
\* cleaner takes them all.
LEMMA SubscriberStep ==
  ASSUME TypeOK, Next, NEW p \in Callers, NEW a \in Callers,
         p \in subscribers[a], p \notin subscribers'[a]
  PROVE  pc'[p] \notin Waiting \/ \E c \in Cleaners : pc[c] = "clearing"
<1> USE ConstantsAssumption DEF shared, local, budget, Go, Procs
<1>1. ASSUME NEW q \in Callers, subscribers' = Dropped(q), pc'[q] \notin Waiting
      PROVE  pc'[p] \notin Waiting
  BY <1>1 DEF Dropped
<1>2. ASSUME NEW q \in Callers, ShouldAbort(q) \/ Finish(q) \/ Leave(q) PROVE pc'[p] \notin Waiting
  <2>1. subscribers' = Dropped(q) \/ UNCHANGED subscribers
    BY <1>2 DEF ShouldAbort, Finish, Leave
  <2>2. pc'[q] \notin Waiting
    BY <1>2 DEF ShouldAbort, Finish, Leave, Waiting, TypeOK
  <2> QED BY <1>1, <2>1, <2>2
<1>3. ASSUME NEW q \in Procs, Crash(q) PROVE pc'[p] \notin Waiting
  <2>1. (subscribers' = Dropped(q) /\ q \in Callers) \/ UNCHANGED subscribers
    BY <1>3 DEF Crash
  <2>2. pc'[q] \notin Waiting
    BY <1>3 DEF Crash, Waiting, TypeOK
  <2> QED BY <1>1, <2>1, <2>2
<1>4. ASSUME NEW q \in Callers, Enter(q) \/ Join(q) PROVE FALSE
  <2>1. UNCHANGED subscribers \/ \E b \in Callers : subscribers' = [subscribers EXCEPT ![b] = @ \union {q}]
    <3>1. Join(q) => seen[q].attempt \in Callers
      BY NoRecordFacts DEF Join, TypeOK
    <3> QED BY <1>4, <3>1 DEF Enter, Join
  <2> QED BY <2>1 DEF TypeOK
<1>5. ASSUME NEW q \in Callers,
             GiveUp(q) \/ Look(q) \/ ShareFailure(q) \/ Elect(q) \/ Announce(q) \/ Reuse(q) \/ Miss(q)
             \/ Compile(q) \/ Terminate(q) \/ StopWaiting(q) \/ AttemptEnded(q) \/ Poll(q) \/ Probe(q)
             \/ Mark(q)
      PROVE  UNCHANGED subscribers
  BY <1>5 DEF GiveUp, Look, ShareFailure, Elect, Announce, Reuse, Miss, Compile, Terminate, StopWaiting,
              AttemptEnded, Poll, Probe, Mark
<1>6. ASSUME NEW c \in Cleaners, TryClean(c) \/ CheckActive(c) \/ BeginClear(c) \/ Cleared(c)
      PROVE  UNCHANGED subscribers
  BY <1>6 DEF TryClean, CheckActive, BeginClear, Cleared
<1>7. ASSUME NEW c \in Cleaners, ClearEntry(c) PROVE pc[c] = "clearing"
  BY <1>7 DEF ClearEntry
<1>8. ASSUME NEW q \in Procs, Release(q) \/ \E why \in Reasons : Cancel(q, why)
      PROVE  UNCHANGED subscribers
  BY <1>8 DEF Release, Cancel
<1> QED
  BY <1>2, <1>3, <1>4, <1>5, <1>6, <1>7, <1>8
    DEF Next, CallerStep, LeaderStep, FollowerStep, CleanerStep

\* A cleaner that is to clear was so before, or has just seen no subscription.
LEMMA CleanerMoves ==
  ASSUME TypeOK, Next, NEW c \in Cleaners, pc'[c] \in {"clear", "clearing"}
  PROVE  \/ pc[c] \in {"clear", "clearing"}
         \/ /\ ~Active
            /\ UNCHANGED <<record, subscribers, seen>>
            /\ \A p \in Callers : pc'[p] = pc[p]
<1> USE ConstantsAssumption DEF shared, local, budget, Go, Procs
<1>1. ASSUME NEW p \in Callers, CallerStep(p) PROVE pc'[c] = pc[c]
  <2>1. \A q \in Cleaners : pc'[q] = pc[q]
    BY <1>1 DEF CallerStep, LeaderStep, FollowerStep, GiveUp, Look, ShareFailure, Elect, Enter, Announce,
         Reuse, Miss, Compile, ShouldAbort, Terminate, Finish, Join, StopWaiting, AttemptEnded, Poll,
         Probe, Mark, Release, Leave, TypeOK
  <2> QED BY <2>1
<1>2. ASSUME NEW d \in Cleaners, CheckActive(d), pc[c] \notin {"clear", "clearing"}
      PROVE  /\ ~Active
             /\ UNCHANGED <<record, subscribers, seen>>
             /\ \A p \in Callers : pc'[p] = pc[p]
  BY <1>2 DEF CheckActive, TypeOK
<1>3. ASSUME NEW d \in Cleaners, TryClean(d) \/ BeginClear(d) \/ ClearEntry(d) \/ Cleared(d)
      PROVE  pc[c] \in {"clear", "clearing"}
  BY <1>3 DEF TryClean, BeginClear, ClearEntry, Cleared, TypeOK
<1>4. ASSUME NEW q \in Procs, Release(q) \/ Crash(q) \/ \E why \in Reasons : Cancel(q, why)
      PROVE  pc[c] \in {"clear", "clearing"}
  BY <1>4 DEF Release, Crash, Cancel, TypeOK
<1> QED
  BY <1>1, <1>2, <1>3, <1>4 DEF Next, CleanerStep

\* Only the cleaner takes artifacts away, and no caller builds over them.
LEMMA OutputStep ==
  ASSUME TypeOK, LockInv, ResultInv, Next, NEW k \in Kinds, output[k] # Nobody
  PROVE  \/ output'[k] = output[k]
         \/ output'[k] = Nobody /\ \E c \in Cleaners : pc[c] = "clearing"
<1> USE ConstantsAssumption DEF shared, local, budget
<1>1. ASSUME NEW p \in Callers, Compile(p) PROVE output'[k] = output[k]
  <2>1. output[KindOf[p]] = Nobody
    BY <1>1 DEF Compile, ResultInv, Verified
  <2> QED BY <1>1, <2>1 DEF Compile, TypeOK
<1>2. ASSUME NEW c \in Cleaners, ClearEntry(c)
      PROVE  (output'[k] = output[k] \/ output'[k] = Nobody) /\ pc[c] = "clearing"
  BY <1>2 DEF ClearEntry, TypeOK
<1>3. ASSUME NEW p \in Callers,
             GiveUp(p) \/ Look(p) \/ ShareFailure(p) \/ Elect(p) \/ Enter(p) \/ Announce(p) \/ Reuse(p)
             \/ Miss(p) \/ ShouldAbort(p) \/ Terminate(p) \/ Finish(p) \/ Leave(p) \/ Join(p)
             \/ StopWaiting(p) \/ AttemptEnded(p) \/ Poll(p) \/ Probe(p) \/ Mark(p)
      PROVE  UNCHANGED output
  BY <1>3 DEF GiveUp, Look, ShareFailure, Elect, Enter, Announce, Reuse, Miss, ShouldAbort, Terminate,
              Finish, Leave, Join, StopWaiting, AttemptEnded, Poll, Probe, Mark
<1>4. ASSUME NEW c \in Cleaners, TryClean(c) \/ CheckActive(c) \/ BeginClear(c) \/ Cleared(c)
      PROVE  UNCHANGED output
  BY <1>4 DEF TryClean, CheckActive, BeginClear, Cleared
<1>5. ASSUME NEW q \in Procs, Release(q) \/ Crash(q) \/ \E why \in Reasons : Cancel(q, why)
      PROVE  UNCHANGED output
  BY <1>5 DEF Release, Crash, Cancel
<1> QED
  BY <1>1, <1>2, <1>3, <1>4, <1>5
    DEF Next, CallerStep, LeaderStep, FollowerStep, CleanerStep, Procs

\* Who waits in vain does so for good.
LEMMA VainStays ==
  ASSUME TypeOK, RecordInv, ResultInv, Next, NEW p \in Callers, seen[p] # NoRecord,
         seen'[p] = seen[p], InVain(p)
  PROVE  InVain(p)'
<1> DEFINE a == seen[p].attempt
<1>1. a \in Callers /\ KindOf[p] \in Kinds
  BY NoRecordFacts, ConstantsAssumption DEF TypeOK
<1>2. pc[a] = "crashed" /\ pc'[a] = "crashed"
  BY <1>1, CrashedStays DEF InVain, Procs
<1>3. SuccessWritten(KindOf[p])
  BY <1>1, SuccessStep
<1>4. ~(Rec(p)'.state = "succeeded" /\ Rec(p)'.attempt = a)
  BY <1>2, <1>3 DEF SuccessWritten, InVain, Rec
<1> QED BY <1>2, <1>4 DEF InVain

\* A follower that waits keeps its subscription or waits in vain, and no success
\* that it waits for loses its artifacts.
LEMMA WaitStep == TypeOK /\ LockInv /\ RecordInv /\ ResultInv /\ WaitInv /\ Next => WaitInv'
<1> SUFFICES ASSUME TypeOK, LockInv, RecordInv, ResultInv, WaitInv, Next PROVE WaitInv'
  OBVIOUS
<1> USE ConstantsAssumption
<1>1. ASSUME NEW p \in Callers, pc'[p] \in Waiting
      PROVE  /\ seen[p].attempt \in Callers /\ KindOf[p] \in Kinds
             /\ seen'[p] = seen[p] /\ seen[p] # NoRecord /\ (pc[p] \in Waiting \/ Joined(p))
  BY <1>1, WaiterStep, NoRecordFacts DEF TypeOK
<1>2. ASSUME NEW c \in Cleaners, pc[c] \in {"clear", "clearing"}, NEW p \in Callers, pc'[p] \in Waiting
      PROVE  InVain(p)'
  <2>1. CASE pc[p] \in Waiting
    BY <1>1, <1>2, <2>1, VainStays DEF WaitInv
  <2>2. CASE Joined(p)
    <3>1. Rec(p).state = "building" /\ Rec(p).attempt = seen[p].attempt
      BY <1>1, <2>2, NoRecordFacts DEF Joined, Rec, TypeOK
    <3>2. pc[seen[p].attempt] \in Leading \union {"crashed"}
      BY <1>1, <3>1 DEF RecordInv, Rec
    <3>3. pc[seen[p].attempt] \notin Leading
      BY <1>1, <1>2, OneHolder DEF Holding, Procs
    <3>4. InVain(p)
      BY <3>1, <3>2, <3>3 DEF InVain
    <3> QED BY <1>1, <1>2, <3>4, VainStays
  <2> QED BY <1>1, <1>2, <2>1, <2>2
<1>3. ASSUME NEW p \in Callers, pc'[p] \in Waiting
      PROVE  p \in subscribers'[seen'[p].attempt] \/ InVain(p)'
  <2>1. CASE \E c \in Cleaners : pc[c] = "clearing"
    BY <1>2, <1>3, <2>1
  <2>2. CASE Joined(p)
    BY <1>1, <1>3, <2>2 DEF Joined
  <2>3. CASE pc[p] \in Waiting /\ InVain(p)
    BY <1>1, <1>3, <2>3, VainStays
  <2>4. CASE pc[p] \in Waiting /\ p \in subscribers[seen[p].attempt] /\ ~\E c \in Cleaners : pc[c] = "clearing"
    BY <1>1, <1>3, <2>4, SubscriberStep
  <2> QED BY <1>1, <1>3, <2>1, <2>2, <2>3, <2>4 DEF WaitInv
<1>4. ASSUME NEW c \in Cleaners, pc'[c] \in {"clear", "clearing"}, NEW p \in Callers, pc'[p] \in Waiting
      PROVE  InVain(p)'
  <2>1. CASE pc[c] \in {"clear", "clearing"}
    BY <1>2, <1>4, <2>1
  <2>2. CASE pc[c] \notin {"clear", "clearing"}
    <3>1. ~Active /\ pc[p] \in Waiting
      BY <1>4, <2>2, CleanerMoves
    <3>2. p \notin subscribers[seen[p].attempt]
      BY <1>1, <1>4, <3>1 DEF Active
    <3>3. InVain(p)
      BY <3>1, <3>2 DEF WaitInv
    <3> QED BY <1>1, <1>4, <3>3, VainStays
  <2> QED BY <2>1, <2>2
<1>5. ASSUME NEW p \in Callers, pc'[p] \in Waiting,
             Rec(p)'.state = "succeeded", Rec(p)'.attempt = seen'[p].attempt
      PROVE  Verified(p)'
  <2> DEFINE k == KindOf[p]
  <2>1. SuccessWritten(k) /\ k \in Kinds
    BY <1>1, <1>5, SuccessStep
  <2>2. CASE record'[k] # record[k]
    BY <1>5, <2>1, <2>2 DEF SuccessWritten, Verified, Rec
  <2>3. CASE record'[k] = record[k]
    <3>1. Rec(p).state = "succeeded" /\ Rec(p).attempt = seen[p].attempt
      BY <1>1, <1>5, <2>3 DEF Rec
    <3>2. pc[p] \in Waiting
      <4>1. Rec(p) \in Records
        BY DEF TypeOK, Rec
      <4> QED BY <1>1, <1>5, <3>1, <4>1, NoRecordFacts DEF Joined
    <3>3. output[k] # Nobody
      BY <3>1, <3>2 DEF WaitInv, Verified
    <3>4. ~\E c \in Cleaners : pc[c] = "clearing"
      BY <3>1, <3>2 DEF WaitInv, InVain
    <3> QED BY <2>1, <3>3, <3>4, OutputStep DEF Verified
  <2> QED BY <2>2, <2>3
<1> QED BY <1>3, <1>4, <1>5 DEF WaitInv

-----------------------------------------------------------------------------
\* The strengthened invariant holds throughout.
LEMMA Inductive == Spec => []IInv
<1>1. IInv /\ UNCHANGED vars => IInv'
  BY DEF IInv, vars, shared, local, budget, TypeOK, PcOK, LockInv, RecordInv, ResultInv, WaitInv,
         InVain, Owns, Rec, Verified, OutcomeIsOwn, WaiterKeepsOutput, CancellationIsOwn
<1>2. IInv /\ Next => IInv'
  BY TypeStep, LockStep, RecordStep, ResultStep, WaitStep, OutcomeStep DEF IInv
<1> QED BY InitInv, <1>1, <1>2, PTL DEF Spec

\* A leader is never fenced off its attempt: while it builds, the record is its
\* announcement and it has the output lock (with_leader, run_as_leader), whatever
\* followers that think it dead, other kinds of build and the cleaner do.
THEOREM NoLeaderIsFencedOff == Spec => []Inv
<1>1. IInv => Inv
  BY DEF IInv, Inv, LeaderOwnsRecord, LockInv, RecordInv, Holding, Leading, Procs
<1> QED BY <1>1, Inductive, PTL

\* No caller is told of the doing of another: a success that a follower waited
\* for has kept its artifacts, and a cancellation is its own.
THEOREM OutcomesAreOwn == Spec => []OutcomeIsOwn
<1>1. IInv => OutcomeIsOwn
  BY DEF IInv
<1> QED BY <1>1, Inductive, PTL

-----------------------------------------------------------------------------
\* Success is returned only over artifacts that are there: by a follower that
\* looked, by one whose attempt ended, and by the leader itself.
LEMMA SuccessHasOutput ==
  ASSUME IInv, Next, NEW p \in Callers, outcome'[p] # outcome[p], outcome'[p] \in {"built", "followed"}
  PROVE  Verified(p)
<1> USE DEF IInv, shared, local, budget
<1>1. ASSUME NEW q \in Callers, NEW o, Return(q, o), o \in {"built", "followed"} => Verified(q)
      PROVE  Verified(p)
  BY <1>1 DEF Return, TypeOK
<1>2. ASSUME NEW q \in Callers,
             GiveUp(q) \/ Look(q) \/ ShareFailure(q) \/ StopWaiting(q) \/ AttemptEnded(q)
      PROVE  Verified(p)
  <2>1. UNCHANGED outcome \/ \E o : Return(q, o) /\ (o \in {"built", "followed"} => Verified(q))
    BY <1>2 DEF GiveUp, Look, ShareFailure, StopWaiting, AttemptEnded
  <2> QED BY <1>1, <2>1
<1>3. ASSUME NEW q \in Callers, Terminate(q) PROVE Verified(p)
  <2>1. result[q] \in Reasons
    BY <1>3 DEF Terminate, ResultInv
  <2>2. \E o \in {result[q], "lost"} : Return(q, o)
    BY <1>3 DEF Terminate
  <2> QED BY <1>1, <2>1, <2>2 DEF Reasons
<1>4. ASSUME NEW q \in Callers, Finish(q) PROVE Verified(p)
  <2>1. want[q] \in Reasons \union {"none"} /\ (result[q] = "ok" => Verified(q))
    BY <1>4 DEF Finish, TypeOK, ResultInv
  <2>2. \E o \in {want[q], "lost", "built", "failed"} : Return(q, o) /\ (o = "built" => result[q] = "ok")
    BY <1>4, <2>1 DEF Finish, Reasons
  <2> QED BY <1>1, <2>1, <2>2 DEF Reasons
<1>5. ASSUME NEW q \in Callers,
             Elect(q) \/ Enter(q) \/ Announce(q) \/ Reuse(q) \/ Miss(q) \/ Compile(q)
             \/ ShouldAbort(q) \/ Leave(q) \/ Join(q) \/ Poll(q) \/ Probe(q) \/ Mark(q)
      PROVE  UNCHANGED outcome
  BY <1>5 DEF Elect, Enter, Announce, Reuse, Miss, Compile, ShouldAbort, Leave, Join, Poll, Probe, Mark
<1>6. ASSUME NEW c \in Cleaners,
             TryClean(c) \/ CheckActive(c) \/ BeginClear(c) \/ ClearEntry(c) \/ Cleared(c)
      PROVE  UNCHANGED outcome
  BY <1>6 DEF TryClean, CheckActive, BeginClear, ClearEntry, Cleared
<1>7. ASSUME NEW q \in Procs, Release(q) \/ Crash(q) \/ \E why \in Reasons : Cancel(q, why)
      PROVE  UNCHANGED outcome
  BY <1>7 DEF Release, Crash, Cancel
<1> QED
  BY <1>2, <1>3, <1>4, <1>5, <1>6, <1>7
    DEF Next, CallerStep, LeaderStep, FollowerStep, CleanerStep, Procs

\* Artifacts that are there are never built over, only evicted (the closure looks
\* for them under the lock), and no call succeeds without them.
THEOREM OutputsAreVerified == Spec => OutputIsVerified
<1>1. IInv /\ [Next]_vars =>
        [\A k \in Kinds : output[k] # Nobody => output'[k] \in {output[k], Nobody}]_vars
  BY OutputStep DEF IInv
<1>2. IInv /\ [Next]_vars =>
        [\A p \in Callers :
           outcome'[p] # outcome[p] /\ outcome'[p] \in {"built", "followed"} => Verified(p)]_vars
  BY SuccessHasOutput
<1>3. Spec => BuiltOnce
  BY <1>1, Inductive, PTL DEF Spec, BuiltOnce
<1>4. Spec => SuccessIsVerified
  BY <1>2, Inductive, PTL DEF Spec, SuccessIsVerified
<1> QED BY <1>3, <1>4, PTL DEF OutputIsVerified

-----------------------------------------------------------------------------
\* A caller gives up the announcement of an attempt only when its leader died:
\* who finds the lock free and the record building has met nobody that leads.
LEMMA MarkedIsDead ==
  ASSUME IInv, Next, NEW k \in Kinds, record'[k] # record[k],
         record'[k].error \in {"abandoned", "stale"}
  PROVE  record[k].state = "building" /\ pc[record[k].attempt] = "crashed"
<1> USE ConstantsAssumption DEF IInv, shared, local, budget
<1>1. ASSUME NEW p \in Callers, NEW r, Write(p, r) PROVE r.error \in {"abandoned", "stale"}
  BY <1>1 DEF Write, TypeOK
<1>2. ASSUME NEW p \in Callers, Announce(p) PROVE FALSE
  <2>1. Building(p).error = "none"
    BY DEF Building, Record
  <2> QED BY <1>1, <1>2, <2>1 DEF Announce
<1>3. ASSUME NEW p \in Callers, Terminate(p) \/ Finish(p) PROVE FALSE
  <2>1. \E r \in {"ok", "failed"} \union Reasons : Publish(p, r)
    BY <1>3 DEF Terminate, Finish, ResultInv, Reasons
  <2> QED BY <1>1, <2>1, EndedFacts DEF Publish
<1>4. ASSUME NEW p \in Callers, Mark(p)
      PROVE  record[k].state = "building" /\ pc[record[k].attempt] = "crashed"
  <2>1. Rec(p).state = "building" /\ \E r : record' = [record EXCEPT ![KindOf[p]] = r]
    BY <1>4 DEF Mark, Write
  <2>2. k = KindOf[p]
    BY <2>1 DEF TypeOK
  <2>3. record[k].state = "building" /\ record[k].attempt \in Callers
    BY <2>1, <2>2, NoRecordFacts DEF Rec, TypeOK
  <2>4. pc[record[k].attempt] \notin Leading
    BY <1>4, <2>3, OneHolder DEF Mark, Holding, Leading, Procs
  <2> QED BY <2>3, <2>4 DEF RecordInv
<1>5. ASSUME NEW c \in Cleaners, ClearEntry(c) PROVE FALSE
  <2>1. record' = record \/ \E j \in Kinds : record' = [record EXCEPT ![j] = NoRecord]
    BY <1>5 DEF ClearEntry
  <2> QED BY <2>1, NoRecordFacts DEF TypeOK
<1>6. ASSUME NEW p \in Callers,
             GiveUp(p) \/ Look(p) \/ ShareFailure(p) \/ Elect(p) \/ Enter(p) \/ Reuse(p) \/ Miss(p)
             \/ Compile(p) \/ ShouldAbort(p) \/ Leave(p) \/ Join(p) \/ StopWaiting(p)
             \/ AttemptEnded(p) \/ Poll(p) \/ Probe(p)
      PROVE  UNCHANGED record
  BY <1>6 DEF GiveUp, Look, ShareFailure, Elect, Enter, Reuse, Miss, Compile, ShouldAbort, Leave, Join,
              StopWaiting, AttemptEnded, Poll, Probe
<1>7. ASSUME NEW c \in Cleaners, TryClean(c) \/ CheckActive(c) \/ BeginClear(c) \/ Cleared(c)
      PROVE  UNCHANGED record
  BY <1>7 DEF TryClean, CheckActive, BeginClear, Cleared
<1>8. ASSUME NEW p \in Procs, Release(p) \/ Crash(p) \/ \E why \in Reasons : Cancel(p, why)
      PROVE  UNCHANGED record
  BY <1>8 DEF Release, Crash, Cancel
<1> QED
  BY <1>2, <1>3, <1>4, <1>5, <1>6, <1>7, <1>8
    DEF Next, CallerStep, LeaderStep, FollowerStep, CleanerStep, Procs

\* An attempt is recorded as abandoned only when its leader is dead and published
\* no end of it, whichever waiter tried the lock at whatever moment (the record is
\* read again under the output lock before it is marked, build_coordinator.rs).
THEOREM AbandonedIsDead == Spec => AbandonedMeansDead
<1>1. IInv /\ [Next]_vars =>
        [\A k \in Kinds :
           record'[k] # record[k] /\ record'[k].error \in {"abandoned", "stale"}
             => record[k].state = "building" /\ pc[record[k].attempt] = "crashed"]_vars
  BY MarkedIsDead
<1> QED BY <1>1, Inductive, PTL DEF Spec, AbandonedMeansDead
=============================================================================
