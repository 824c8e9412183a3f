-------------------------- MODULE MatrixExecutorProofs --------------------------
(***************************************************************************)
(* Proofs about MatrixExecutor: its type invariant, with which the          *)
(* supervisor meets no inner error, that a cell is settled only after its   *)
(* worker has cleaned up, that cells sharing a resource never overlap, that *)
(* a matrix passes on earned passes, and that findings are kept.            *)
(***************************************************************************)
EXTENDS MatrixExecutor, FiniteSetTheorems, WellFoundedInduction, TLAPS

CellState == Verdicts \union Active \union {"queued"}

\* The scheduler and the workers agree: a cell is active while its worker is
\* there, and what a worker is going to send is a verdict.
Followed ==
  \A c \in Cells :
    /\ state[c] \in Active <=> worker[c] \notin {"none", "gone"}
    /\ worker[c] \in {"cleanup", "drop", "sent"} => found[c] \in Verdicts
    /\ state[c] = "queued" => worker[c] = "none"
\* The channel holds results of workers that sent them, one of each.
Delivered ==
  /\ \A i \in 1 .. Len(channel) : worker[channel[i]] = "sent"
  /\ \A i, j \in 1 .. Len(channel) : channel[i] = channel[j] => i = j
WorkerInv == Followed /\ Delivered

\* What the pool's set covers.
HeldInv ==
  /\ \A c \in Cells : worker[c] \in Holding => Needs[c] \subseteq held
  /\ ResourcesExclusive

\* A pass that was found, counted or reported was earned.
EarnedInv ==
  /\ \A c \in Cells : state[c] = "passed" => c \in earned
  /\ \A c \in Cells : worker[c] \in {"drop", "sent"} /\ found[c] = "passed" => c \in earned
  /\ PassIsEarned

\* Without fail_fast and before the matrix deadline only a late cell is asked
\* to stop.
KeptInv ==
  /\ ~failFast /\ ~over =>
       \A c \in Cells \ late :
         /\ state[c] # "cancel_requested"
         /\ worker[c] = "gone" => state[c] = found[c]
  /\ stopped => failFast \/ over
  /\ \A c \in Cells : worker[c] = "none" => found[c] = "none"
  /\ pc = "done" => Terminal(state)

-----------------------------------------------------------------------------
\* Cancelling cells keeps which are active; none becomes passed or queued.
LEMMA CancelAllFacts ==
  ASSUME NEW st \in [Cells -> CellState]
  PROVE  /\ CancelAll(st) \in [Cells -> CellState]
         /\ \A c \in Cells :
              /\ CancelAll(st)[c] \in Active <=> st[c] \in Active
              /\ CancelAll(st)[c] # "queued"
              /\ CancelAll(st)[c] = "passed" <=> st[c] = "passed"
              /\ st[c] \notin {"queued", "running"} => CancelAll(st)[c] = st[c]
BY DEF CancelAll, CellState, Verdicts, Active

\* So do the deadlines.
LEMMA DeadlineFacts ==
  ASSUME state \in [Cells -> CellState]
  PROVE  /\ ApplyDeadlines \in [Cells -> CellState]
         /\ \A c \in Cells :
              /\ ApplyDeadlines[c] \in Active <=> state[c] \in Active
              /\ ApplyDeadlines[c] = "queued" => state[c] = "queued"
              /\ ApplyDeadlines[c] = "passed" <=> state[c] = "passed"
              /\ ~over /\ c \notin late => ApplyDeadlines[c] = state[c]
              /\ state[c] \in Verdicts => ApplyDeadlines[c] = state[c]
<1>1. CASE over
  BY <1>1, CancelAllFacts DEF ApplyDeadlines, Verdicts, CellState, Active
<1>2. CASE ~over
  BY <1>2 DEF ApplyDeadlines, CellState, Verdicts, Active
<1> QED BY <1>1, <1>2

\* The cells that are ready are queued, and finitely many.
LEMMA ReadyFacts ==
  ASSUME NEW st
  PROVE  /\ \A c \in Ready(st) : c \in Cells /\ st[c] = "queued"
         /\ Cardinality(Ready(st)) \in Nat
         /\ Cardinality({}) \in Nat
<1>1. Ready(st) \subseteq Cells
  BY DEF Ready
<1>2. IsFiniteSet(Cells)
  BY ConstantsAssumption, FS_Interval DEF Cells
<1>3. IsFiniteSet(Ready(st))
  BY <1>1, <1>2, FS_Subset
<1>4. Cardinality({}) = 0
  BY FS_EmptySet
<1> QED BY <1>1, <1>3, <1>4, FS_CardinalityType DEF Ready

\* What the summary of a finished matrix says of its cells.
LEMMA SummaryFacts ==
  ASSUME NEW st
  PROVE  /\ Summary(st) \in Verdicts \union {"partial"}
         /\ Summary(st) = "passed" => \A c \in Cells : st[c] = "passed"
         /\ Summary(st) = "partial" /\ Terminal(st) => \A c \in Required : st[c] = "passed"
<1> DEFINE some(v) == \E c \in Required : st[c] = v
<1>1. Summary(st) =
        CASE some("failed") -> "failed"
          [] ~some("failed") /\ some("cancelled") -> "cancelled"
          [] ~some("failed") /\ ~some("cancelled") /\ some("inconclusive") -> "inconclusive"
          [] ~some("failed") /\ ~some("cancelled") /\ ~some("inconclusive")
               /\ some("unavailable") -> "unavailable"
          [] OTHER -> IF \A c \in Cells : st[c] = "passed" THEN "passed" ELSE "partial"
  BY Zenon DEF Summary
<1>2. Terminal(st) => \A c \in Required : st[c] \in Verdicts
  BY ConstantsAssumption DEF Terminal
<1>3. some("failed") \/ some("cancelled") \/ some("inconclusive") \/ some("unavailable")
        => Summary(st) \in {"failed", "cancelled", "inconclusive", "unavailable"}
  BY <1>1
<1>4. ~(some("failed") \/ some("cancelled") \/ some("inconclusive") \/ some("unavailable"))
        => Summary(st) = IF \A c \in Cells : st[c] = "passed" THEN "passed" ELSE "partial"
  BY <1>1
<1> QED BY <1>2, <1>3, <1>4 DEF Verdicts

-----------------------------------------------------------------------------
\* The types and the link between the cells and their workers.
LEMMA TypeInit == Init => TypeOK /\ WorkerInv
<1> SUFFICES ASSUME Init PROVE TypeOK /\ WorkerInv
  OBVIOUS
<1>1. PICK refused \in SUBSET Cells :
        state = [c \in Cells |-> IF c \in refused THEN "unavailable" ELSE "queued"]
  BY DEF Init
<1>2. TypeOK
  <2>1. state \in [Cells -> Verdicts \union Active \union {"queued"}]
    BY <1>1 DEF Verdicts
  <2>2. channel \in Seq(Cells)
    BY DEF Init
  <2>3. failFast \in BOOLEAN /\ stopped \in BOOLEAN /\ over \in BOOLEAN
    BY Zenon DEF Init
  <2> QED BY <2>1, <2>2, <2>3 DEF Init, TypeOK, Holding
<1>3. WorkerInv
  BY <1>1 DEF Init, WorkerInv, Followed, Delivered, Active
<1> QED BY <1>2, <1>3

LEMMA TypeStep == TypeOK /\ WorkerInv /\ [Next]_vars => TypeOK'
<1> SUFFICES ASSUME TypeOK, WorkerInv, [Next]_vars PROVE TypeOK'
  OBVIOUS
<1> USE DEF TypeOK, Holding, supervisor, clock
<1>1. ASSUME Dispatch PROVE TypeOK'
  <2> DEFINE st == ApplyDeadlines
             ready == IF stopped \/ over THEN {} ELSE Ready(st)
  <2>1. st \in [Cells -> CellState]
    BY DeadlineFacts DEF CellState
  <2>2. Cardinality(ready) \in Nat
    BY ReadyFacts
  <2>3. /\ state' = [c \in Cells |-> IF c \in ready THEN "running" ELSE st[c]]
        /\ worker' = [c \in Cells |-> IF c \in ready THEN "arrive" ELSE worker[c]]
        /\ active' = active + Cardinality(ready)
    BY <1>1 DEF Dispatch
  <2> HIDE DEF st, ready
  <2>4. state' \in [Cells -> Verdicts \union Active \union {"queued"}]
    BY <2>1, <2>3 DEF CellState, Active
  <2>5. active' \in Nat
    BY <2>2, <2>3
  <2>6. worker' \in [Cells -> Holding \union {"none", "arrive", "wait", "sent", "gone"}]
    BY <2>3
  <2>7. stopped' \in BOOLEAN
    BY <1>1, Zenon DEF Dispatch
  <2> QED BY <1>1, <2>4, <2>5, <2>6, <2>7 DEF Dispatch
<1>2. ASSUME Check PROVE TypeOK'
  <2>1. state' \in [Cells -> Verdicts \union Active \union {"queued"}]
    BY <1>2, CancelAllFacts DEF Check, CellState
  <2>2. report' \in Verdicts \union {"partial", "none"}
    BY <1>2, SummaryFacts DEF Check
  <2> QED BY <1>2, <2>1, <2>2 DEF Check
<1>3. ASSUME Receive PROVE TypeOK'
  <2> DEFINE c == Head(channel)
             v == IF state[c] = "cancel_requested" THEN "cancelled" ELSE found[c]
             st == [state EXCEPT ![c] = v]
  <2>1. c \in Cells /\ worker[c] = "sent"
    BY <1>3 DEF Receive, WorkerInv, Delivered
  <2>2. state[c] \in Active /\ found[c] \in Verdicts
    BY <2>1 DEF WorkerInv, Followed
  <2>3. v \in Verdicts
    BY <2>2 DEF Verdicts
  <2>4. st \in [Cells -> CellState]
    BY <2>1, <2>3 DEF CellState
  <2>5. /\ state' = IF Fails(v) THEN CancelAll(st) ELSE st
        /\ stopped' = (stopped \/ Fails(v))
        /\ pc' = "dispatch"
        /\ worker' = [worker EXCEPT ![c] = "gone"]
    BY <1>3, <2>2 DEF Receive, To
  <2>6. channel' \in Seq(Cells) /\ active' \in Nat
    BY <1>3 DEF Receive
  <2> HIDE DEF c, v, st
  <2>7. state' \in [Cells -> Verdicts \union Active \union {"queued"}]
    BY <2>4, <2>5, CancelAllFacts DEF CellState
  <2>8. stopped' \in BOOLEAN
    BY <2>5, Zenon
  <2> QED BY <1>3, <2>1, <2>5, <2>6, <2>7, <2>8 DEF Receive
<1>4. ASSUME ReceiveTimeout PROVE TypeOK'
  BY <1>4 DEF ReceiveTimeout
<1>5. ASSUME NEW c \in Cells, Arrive(c) PROVE TypeOK'
  <2> USE <1>5 DEF Arrive, Sends, To, Finds
  <2>1. found' \in [Cells -> Verdicts \union {"none"}]
    BY DEF Verdicts
  <2>2. channel' \in Seq(Cells)
    BY SMTT(30)
  <2>3. worker' \in [Cells -> Holding \union {"none", "arrive", "wait", "sent", "gone"}]
    OBVIOUS
  <2> QED BY <2>1, <2>2, <2>3
<1>6. ASSUME NEW c \in Cells, Grab(c) PROVE TypeOK'
  BY <1>6, ConstantsAssumption DEF Grab, To
<1>7. ASSUME NEW c \in Cells, StopWaiting(c) PROVE TypeOK'
  <2> USE <1>7 DEF StopWaiting, Sends, To, Finds
  <2>1. found' \in [Cells -> Verdicts \union {"none"}]
    BY DEF Verdicts
  <2> QED BY <2>1
<1>8. ASSUME NEW c \in Cells, Factory(c) PROVE TypeOK'
  <2> USE <1>8 DEF Factory, To, Finds
  <2>1. found' \in [Cells -> Verdicts \union {"none"}]
    BY DEF Verdicts
  <2> QED BY <2>1
<1>9. ASSUME NEW c \in Cells, Run(c) PROVE TypeOK'
  <2> USE <1>9 DEF Run, To, Finds
  <2>1. found' \in [Cells -> Verdicts \union {"none"}]
    BY ConstantsAssumption
  <2> QED BY <2>1
<1>10. ASSUME NEW c \in Cells, Cleanup(c) PROVE TypeOK'
  <2> USE <1>10 DEF Cleanup, To, Finds
  <2>1. found' \in [Cells -> Verdicts \union {"none"}]
    BY DEF Verdicts
  <2>2. earned' \subseteq Cells
    OBVIOUS
  <2>3. worker' \in [Cells -> Holding \union {"none", "arrive", "wait", "sent", "gone"}]
    OBVIOUS
  <2> QED BY <2>1, <2>2, <2>3
<1>11. ASSUME NEW c \in Cells, Drop(c) PROVE TypeOK'
  BY <1>11 DEF Drop, Sends, To
<1>12. ASSUME NEW c \in Cells, CellDeadline(c) PROVE TypeOK'
  BY <1>12 DEF CellDeadline
<1>13. ASSUME MatrixDeadline PROVE TypeOK'
  BY <1>13 DEF MatrixDeadline
<1>14. CASE UNCHANGED vars
  BY <1>14 DEF vars
<1> QED
  BY <1>1, <1>2, <1>3, <1>4, <1>5, <1>6, <1>7, <1>8, <1>9, <1>10, <1>11, <1>12, <1>13, <1>14
  DEF Next, SupervisorStep, WorkerStep

LEMMA WorkerStepKept == TypeOK /\ WorkerInv /\ [Next]_vars => WorkerInv'
<1> SUFFICES ASSUME TypeOK, WorkerInv, [Next]_vars PROVE WorkerInv'
  OBVIOUS
<1> USE DEF TypeOK, WorkerInv, Followed, Delivered, Holding, supervisor, clock
<1>1. ASSUME Dispatch PROVE WorkerInv'
  <2> DEFINE st == ApplyDeadlines
             ready == IF stopped \/ over THEN {} ELSE Ready(st)
  <2>1. \A c \in Cells : /\ st[c] \in Active <=> state[c] \in Active
                         /\ st[c] = "queued" => state[c] = "queued"
    BY DeadlineFacts DEF CellState
  <2>2. \A c \in ready : c \in Cells /\ st[c] = "queued"
    BY ReadyFacts
  <2>3. /\ state' = [c \in Cells |-> IF c \in ready THEN "running" ELSE st[c]]
        /\ worker' = [c \in Cells |-> IF c \in ready THEN "arrive" ELSE worker[c]]
        /\ UNCHANGED <<found, channel>>
    BY <1>1 DEF Dispatch
  <2> HIDE DEF st, ready
  <2>4. Followed'
    BY <2>1, <2>2, <2>3 DEF Active
  <2>5. \A c \in Cells : worker[c] = "sent" => worker'[c] = "sent"
    BY <2>1, <2>2, <2>3
  <2>6. Delivered'
    BY <2>3, <2>5
  <2> QED BY <2>4, <2>6
<1>2. ASSUME Check PROVE WorkerInv'
  BY <1>2, CancelAllFacts DEF Check, CellState
<1>3. ASSUME Receive PROVE WorkerInv'
  <2> DEFINE c == Head(channel)
             v == IF state[c] = "cancel_requested" THEN "cancelled" ELSE found[c]
             st == [state EXCEPT ![c] = v]
  <2>1. c \in Cells /\ worker[c] = "sent" /\ c = channel[1] /\ Len(channel) > 0
    BY <1>3 DEF Receive
  <2>2. state[c] \in Active /\ found[c] \in Verdicts
    BY <2>1
  <2>3. v \in Verdicts
    BY <2>2 DEF Verdicts
  <2>4. st \in [Cells -> CellState]
    BY <2>1, <2>3 DEF CellState
  <2>5. /\ state' = IF Fails(v) THEN CancelAll(st) ELSE st
        /\ worker' = [worker EXCEPT ![c] = "gone"]
        /\ channel' = Tail(channel) /\ found' = found
    BY <1>3, <2>2 DEF Receive, To
  <2>6. \A d \in Cells : /\ st[d] \in Active <=> d # c /\ state[d] \in Active
                         /\ st[d] = "queued" => d # c /\ state[d] = "queued"
    BY <2>1, <2>3 DEF Verdicts, Active
  <2> HIDE DEF v, st
  <2>7. \A d \in Cells : /\ state'[d] \in Active <=> st[d] \in Active
                         /\ state'[d] = "queued" => st[d] = "queued"
    BY <2>4, <2>5, CancelAllFacts
  <2>8. Followed'
    BY <2>1, <2>5, <2>6, <2>7
  <2>9. /\ Len(channel') = Len(channel) - 1
        /\ \A i \in 1 .. Len(channel') : channel'[i] = channel[i + 1]
    BY <2>1, <2>5
  <2>10. \A i \in 1 .. Len(channel') : channel'[i] # c /\ channel'[i] \in Cells /\ worker[channel'[i]] = "sent"
    BY <2>1, <2>9
  <2>11. \A i, j \in 1 .. Len(channel') : channel'[i] = channel'[j] => i = j
    BY <2>1, <2>9
  <2>12. \A i \in 1 .. Len(channel') : worker'[channel'[i]] = "sent"
    BY <2>5, <2>10
  <2> QED BY <2>8, <2>11, <2>12
<1>4. ASSUME ReceiveTimeout PROVE WorkerInv'
  BY <1>4 DEF ReceiveTimeout
<1>5. ASSUME NEW c \in Cells, Arrive(c) PROVE WorkerInv'
  <2> USE <1>5 DEF Arrive, Sends, To, Finds
  <2>1. Followed'
    BY DEF Verdicts
  <2>2. CASE channel' = channel
    BY <2>1, <2>2
  <2>3. CASE channel' = Append(channel, c)
    <3>1. Len(channel') = Len(channel) + 1 /\ channel'[Len(channel')] = c
      BY <2>3
    <3>2. \A i \in 1 .. Len(channel) : channel'[i] = channel[i] /\ channel[i] # c /\ channel[i] \in Cells
      BY <2>3
    <3>3. worker'[c] = "sent" /\ \A d \in Cells : worker[d] = "sent" => worker'[d] = "sent"
      BY <2>3, <3>1
    <3>4. \A i \in 1 .. Len(channel') : i \in 1 .. Len(channel) \/ i = Len(channel')
      BY <3>1
    <3> QED BY <2>1, <3>1, <3>2, <3>3, <3>4, SMTT(30)
  <2> QED BY <2>2, <2>3
<1>6. ASSUME NEW c \in Cells, Grab(c) PROVE WorkerInv'
  <2> USE <1>6 DEF Grab, To
  <2>1. Followed'
    BY ConstantsAssumption DEF Verdicts
  <2>2. \A d \in Cells : worker[d] = "sent" => worker'[d] = "sent"
    OBVIOUS
  <2>3. Delivered'
    BY <2>2
  <2> QED BY <2>1, <2>3
<1>7. ASSUME NEW c \in Cells, StopWaiting(c) PROVE WorkerInv'
  <2> USE <1>7 DEF StopWaiting, Sends, To, Finds
  <2>1. Followed'
    BY DEF Verdicts
  <2>2. CASE channel' = channel
    BY <2>1, <2>2
  <2>3. CASE channel' = Append(channel, c)
    <3>1. Len(channel') = Len(channel) + 1 /\ channel'[Len(channel')] = c
      BY <2>3
    <3>2. \A i \in 1 .. Len(channel) : channel'[i] = channel[i] /\ channel[i] # c /\ channel[i] \in Cells
      BY <2>3
    <3>3. worker'[c] = "sent" /\ \A d \in Cells : worker[d] = "sent" => worker'[d] = "sent"
      BY <2>3, <3>1
    <3>4. \A i \in 1 .. Len(channel') : i \in 1 .. Len(channel) \/ i = Len(channel')
      BY <3>1
    <3> QED BY <2>1, <3>1, <3>2, <3>3, <3>4
  <2> QED BY <2>2, <2>3
<1>8. ASSUME NEW c \in Cells, Factory(c) PROVE WorkerInv'
  <2> USE <1>8 DEF Factory, To, Finds
  <2>1. Followed'
    BY ConstantsAssumption DEF Verdicts
  <2>2. \A d \in Cells : worker[d] = "sent" => worker'[d] = "sent"
    OBVIOUS
  <2>3. Delivered'
    BY <2>2
  <2> QED BY <2>1, <2>3
<1>9. ASSUME NEW c \in Cells, Run(c) PROVE WorkerInv'
  <2> USE <1>9 DEF Run, To, Finds
  <2>1. Followed'
    BY ConstantsAssumption DEF Verdicts
  <2>2. \A d \in Cells : worker[d] = "sent" => worker'[d] = "sent"
    OBVIOUS
  <2>3. Delivered'
    BY <2>2
  <2> QED BY <2>1, <2>3
<1>10. ASSUME NEW c \in Cells, Cleanup(c) PROVE WorkerInv'
  <2> USE <1>10 DEF Cleanup, To, Finds
  <2>1. Followed'
    BY ConstantsAssumption DEF Verdicts
  <2>2. \A d \in Cells : worker[d] = "sent" => worker'[d] = "sent"
    OBVIOUS
  <2>3. Delivered'
    BY <2>2
  <2> QED BY <2>1, <2>3
<1>11. ASSUME NEW c \in Cells, Drop(c) PROVE WorkerInv'
  <2> USE <1>11 DEF Drop, Sends, To
  <2>1. Followed'
    BY DEF Verdicts
  <2>2. CASE channel' = channel
    BY <2>1, <2>2
  <2>3. CASE channel' = Append(channel, c)
    <3>1. Len(channel') = Len(channel) + 1 /\ channel'[Len(channel')] = c
      BY <2>3
    <3>2. \A i \in 1 .. Len(channel) : channel'[i] = channel[i] /\ channel[i] # c /\ channel[i] \in Cells
      BY <2>3
    <3>3. worker'[c] = "sent" /\ \A d \in Cells : worker[d] = "sent" => worker'[d] = "sent"
      BY <2>3, <3>1
    <3>4. \A i \in 1 .. Len(channel') : i \in 1 .. Len(channel) \/ i = Len(channel')
      BY <3>1
    <3> QED BY <2>1, <3>1, <3>2, <3>3, <3>4
  <2> QED BY <2>2, <2>3
<1>12. ASSUME NEW c \in Cells, CellDeadline(c) PROVE WorkerInv'
  BY <1>12 DEF CellDeadline
<1>13. ASSUME MatrixDeadline PROVE WorkerInv'
  BY <1>13 DEF MatrixDeadline
<1>14. CASE UNCHANGED vars
  BY <1>14 DEF vars
<1> QED
  BY <1>1, <1>2, <1>3, <1>4, <1>5, <1>6, <1>7, <1>8, <1>9, <1>10, <1>11, <1>12, <1>13, <1>14
  DEF Next, SupervisorStep, WorkerStep

LEMMA Linked == Spec => [](TypeOK /\ WorkerInv)
BY TypeInit, TypeStep, WorkerStepKept, PTL DEF Spec

\* Every variable keeps its type, and the supervisor meets no inner error: what
\* it receives is always from an active cell (complete_with_context).
THEOREM TypeCorrect == Spec => []TypeOK
BY Linked, PTL

\* A cell is settled only when its worker has cleaned up and sent its result
\* (MatrixScheduler::complete).
THEOREM SettledAfterCleanup == Spec => []TerminalAfterCleanup
<1>1. WorkerInv => TerminalAfterCleanup
  BY DEF WorkerInv, Followed, TerminalAfterCleanup, Verdicts, Active
<1> QED BY <1>1, Linked, PTL

-----------------------------------------------------------------------------
\* The pool gives no resource to two cells.
LEMMA HeldStep == TypeOK /\ WorkerInv /\ HeldInv /\ [Next]_vars => HeldInv'
<1> SUFFICES ASSUME TypeOK, WorkerInv, HeldInv, [Next]_vars PROVE HeldInv'
  OBVIOUS
<1> USE ConstantsAssumption DEF TypeOK, HeldInv, ResourcesExclusive, Holding, supervisor, clock
<1>1. ASSUME Dispatch PROVE HeldInv'
  BY <1>1 DEF Dispatch
<1>2. ASSUME Check PROVE HeldInv'
  BY <1>2 DEF Check
<1>3. ASSUME Receive PROVE HeldInv'
  <2>1. worker' = worker \/ worker' = [worker EXCEPT ![Head(channel)] = "gone"]
    BY <1>3 DEF Receive, To
  <2> QED BY <1>3, <2>1 DEF Receive
<1>4. ASSUME ReceiveTimeout PROVE HeldInv'
  BY <1>4 DEF ReceiveTimeout
<1>5. ASSUME NEW c \in Cells, Arrive(c) PROVE HeldInv'
  BY <1>5 DEF Arrive, Sends, To, Finds
<1>6. ASSUME NEW c \in Cells, Grab(c) PROVE HeldInv'
  BY <1>6 DEF Grab, To
<1>7. ASSUME NEW c \in Cells, StopWaiting(c) PROVE HeldInv'
  BY <1>7 DEF StopWaiting, Sends, To, Finds
<1>8. ASSUME NEW c \in Cells, Factory(c) PROVE HeldInv'
  BY <1>8 DEF Factory, To, Finds
<1>9. ASSUME NEW c \in Cells, Run(c) PROVE HeldInv'
  BY <1>9 DEF Run, To, Finds
<1>10. ASSUME NEW c \in Cells, Cleanup(c) PROVE HeldInv'
  BY <1>10 DEF Cleanup, To, Finds
<1>11. ASSUME NEW c \in Cells, Drop(c) PROVE HeldInv'
  BY <1>11 DEF Drop, Sends, To
<1>12. ASSUME NEW c \in Cells, CellDeadline(c) PROVE HeldInv'
  BY <1>12 DEF CellDeadline
<1>13. ASSUME MatrixDeadline PROVE HeldInv'
  BY <1>13 DEF MatrixDeadline
<1>14. CASE UNCHANGED vars
  BY <1>14 DEF vars
<1> QED
  BY <1>1, <1>2, <1>3, <1>4, <1>5, <1>6, <1>7, <1>8, <1>9, <1>10, <1>11, <1>12, <1>13, <1>14
  DEF Next, SupervisorStep, WorkerStep

\* Two cells that name the same resource do not overlap, cleanup included
\* (MatrixResourcePool::acquire and its guard).
THEOREM ExclusiveResources == Spec => []ResourcesExclusive
<1>1. Init => HeldInv
  BY DEF Init, HeldInv, ResourcesExclusive, Holding
<1>2. HeldInv => ResourcesExclusive
  BY DEF HeldInv
<1> QED BY <1>1, <1>2, Linked, HeldStep, PTL DEF Spec

-----------------------------------------------------------------------------
\* Passes are earned.
LEMMA EarnedStep == TypeOK /\ WorkerInv /\ EarnedInv /\ [Next]_vars => EarnedInv'
<1> SUFFICES ASSUME TypeOK, WorkerInv, EarnedInv, [Next]_vars PROVE EarnedInv'
  OBVIOUS
<1> USE ConstantsAssumption
    DEF TypeOK, EarnedInv, PassIsEarned, Holding, supervisor, clock
<1>1. ASSUME Dispatch PROVE EarnedInv'
  <2> DEFINE st == ApplyDeadlines
             ready == IF stopped \/ over THEN {} ELSE Ready(st)
  <2>1. \A c \in Cells : st[c] = "passed" => state[c] = "passed"
    BY DeadlineFacts DEF CellState
  <2>2. /\ state' = [c \in Cells |-> IF c \in ready THEN "running" ELSE st[c]]
        /\ worker' = [c \in Cells |-> IF c \in ready THEN "arrive" ELSE worker[c]]
        /\ UNCHANGED <<found, report, earned>>
    BY <1>1 DEF Dispatch
  <2> HIDE DEF st, ready
  <2> QED BY <2>1, <2>2
<1>2. ASSUME Check PROVE EarnedInv'
  <2>1. \A c \in Cells : state'[c] = "passed" => state[c] = "passed"
    BY <1>2, CancelAllFacts DEF Check, CellState
  <2>2. /\ report' = "passed" => earned = Cells
        /\ report' = "partial" => Required \subseteq earned
    <3>1. CASE Terminal(state)
      <4>1. /\ Summary(state) = "passed" => \A c \in Cells : state[c] = "passed"
            /\ Summary(state) = "partial" => \A c \in Required : state[c] = "passed"
        BY <3>1, SummaryFacts
      <4>2. report' = Summary(state)
        BY <1>2, <3>1 DEF Check
      <4> QED BY <4>1, <4>2
    <3>2. CASE ~Terminal(state)
      BY <1>2, <3>2 DEF Check
    <3> QED BY <3>1, <3>2
  <2> QED BY <1>2, <2>1, <2>2 DEF Check
<1>3. ASSUME Receive PROVE EarnedInv'
  <2> DEFINE c == Head(channel)
             v == IF state[c] = "cancel_requested" THEN "cancelled" ELSE found[c]
             st == [state EXCEPT ![c] = v]
  <2>1. c \in Cells /\ worker[c] = "sent" /\ state[c] \in Active /\ found[c] \in Verdicts
    BY <1>3 DEF Receive, WorkerInv, Delivered, Followed
  <2>2. st \in [Cells -> CellState]
    BY <2>1 DEF CellState, Verdicts
  <2>3. v = "passed" => c \in earned
    BY <2>1
  <2>4. /\ state' = IF Fails(v) THEN CancelAll(st) ELSE st
        /\ worker' = [worker EXCEPT ![c] = "gone"]
        /\ UNCHANGED <<found, report, earned>>
    BY <1>3, <2>1 DEF Receive, To
  <2>5. \A d \in Cells : st[d] = "passed" => d \in earned
    BY <2>1, <2>3
  <2> HIDE DEF c, v, st
  <2>6. \A d \in Cells : state'[d] = "passed" => d \in earned
    BY <2>2, <2>4, <2>5, CancelAllFacts
  <2> QED BY <2>1, <2>4, <2>6
<1>4. ASSUME ReceiveTimeout PROVE EarnedInv'
  BY <1>4 DEF ReceiveTimeout
<1>5. ASSUME NEW c \in Cells, Arrive(c) PROVE EarnedInv'
  BY <1>5 DEF Arrive, Sends, To, Finds
<1>6. ASSUME NEW c \in Cells, Grab(c) PROVE EarnedInv'
  BY <1>6 DEF Grab, To
<1>7. ASSUME NEW c \in Cells, StopWaiting(c) PROVE EarnedInv'
  BY <1>7 DEF StopWaiting, Sends, To, Finds
<1>8. ASSUME NEW c \in Cells, Factory(c) PROVE EarnedInv'
  BY <1>8 DEF Factory, To, Finds
<1>9. ASSUME NEW c \in Cells, Run(c) PROVE EarnedInv'
  BY <1>9 DEF Run, To, Finds
<1>10. ASSUME NEW c \in Cells, Cleanup(c) PROVE EarnedInv'
  BY <1>10 DEF Cleanup, To, Finds
<1>11. ASSUME NEW c \in Cells, Drop(c) PROVE EarnedInv'
  BY <1>11 DEF Drop, Sends, To
<1>12. ASSUME NEW c \in Cells, CellDeadline(c) PROVE EarnedInv'
  BY <1>12 DEF CellDeadline
<1>13. ASSUME MatrixDeadline PROVE EarnedInv'
  BY <1>13 DEF MatrixDeadline
<1>14. CASE UNCHANGED vars
  BY <1>14 DEF vars
<1> QED
  BY <1>1, <1>2, <1>3, <1>4, <1>5, <1>6, <1>7, <1>8, <1>9, <1>10, <1>11, <1>12, <1>13, <1>14
  DEF Next, SupervisorStep, WorkerStep

\* A matrix passes only when every cell earned its pass, and is partial only
\* when every required cell did (summarize_cells, run_parallel_cell).
THEOREM PassesEarned == Spec => []PassIsEarned
<1>1. Init => EarnedInv
  BY DEF Init, EarnedInv, PassIsEarned
<1>2. EarnedInv => PassIsEarned
  BY DEF EarnedInv
<1> QED BY <1>1, <1>2, Linked, EarnedStep, PTL DEF Spec

-----------------------------------------------------------------------------
\* Findings are kept.
LEMMA KeptStep == TypeOK /\ WorkerInv /\ KeptInv /\ [Next]_vars => KeptInv'
<1> SUFFICES ASSUME TypeOK, WorkerInv, KeptInv, [Next]_vars PROVE KeptInv'
  OBVIOUS
<1> USE DEF TypeOK, KeptInv, Terminal, supervisor, clock
<1>1. ASSUME Dispatch PROVE KeptInv'
  <2> DEFINE st == ApplyDeadlines
             ready == IF stopped \/ over THEN {} ELSE Ready(st)
  <2>1. ~over => \A c \in Cells \ late : st[c] = state[c]
    BY DeadlineFacts DEF CellState
  <2>2. \A c \in ready : c \in Cells /\ st[c] = "queued"
    BY ReadyFacts
  <2>3. \A c \in ready : state[c] = "queued" /\ worker[c] = "none"
    BY <2>2, DeadlineFacts DEF CellState, WorkerInv, Followed
  <2>4. /\ state' = [c \in Cells |-> IF c \in ready THEN "running" ELSE st[c]]
        /\ worker' = [c \in Cells |-> IF c \in ready THEN "arrive" ELSE worker[c]]
        /\ stopped' = (stopped \/ over) /\ pc' = "check"
        /\ UNCHANGED <<failFast, found, over, late>>
    BY <1>1 DEF Dispatch, clock
  <2> HIDE DEF st, ready
  <2> QED BY <2>1, <2>3, <2>4
<1>2. ASSUME Check PROVE KeptInv'
  <2>1. \A c \in Cells : state[c] \notin {"queued", "running"} => CancelAll(state)[c] = state[c]
    BY CancelAllFacts DEF CellState
  <2> QED BY <1>2, <2>1 DEF Check
<1>3. ASSUME Receive PROVE KeptInv'
  <2> DEFINE c == Head(channel)
             v == IF state[c] = "cancel_requested" THEN "cancelled" ELSE found[c]
             st == [state EXCEPT ![c] = v]
  <2>1. c \in Cells /\ worker[c] = "sent" /\ state[c] \in Active /\ found[c] \in Verdicts
    BY <1>3 DEF Receive, WorkerInv, Delivered, Followed
  <2>2. /\ state' = IF Fails(v) THEN CancelAll(st) ELSE st
        /\ stopped' = (stopped \/ Fails(v)) /\ pc' = "dispatch"
        /\ worker' = [worker EXCEPT ![c] = "gone"]
        /\ UNCHANGED <<failFast, found, over, late>>
    BY <1>3, <2>1 DEF Receive, To, clock
  <2>3. Fails(v) => failFast
    BY DEF Fails
  <2>4. ~failFast /\ ~over /\ c \notin late => v = found[c] /\ v # "cancel_requested"
    BY <2>1 DEF Verdicts
  <2>5. ~failFast => state' = st
    BY <2>2, <2>3
  <2>6. stopped' => failFast' \/ over'
    BY <2>2, <2>3
  <2>7. \A d \in Cells : worker'[d] = "none" => found'[d] = "none"
    BY <2>1, <2>2
  <2>8. ~failFast' /\ ~over' =>
          \A d \in Cells \ late' :
            /\ state'[d] # "cancel_requested"
            /\ worker'[d] = "gone" => state'[d] = found'[d]
    <3> SUFFICES ASSUME ~failFast', ~over', NEW d \in Cells \ late'
                 PROVE  state'[d] # "cancel_requested" /\ (worker'[d] = "gone" => state'[d] = found'[d])
      OBVIOUS
    <3>1. state' = [state EXCEPT ![c] = v] /\ ~failFast /\ ~over /\ d \notin late
      BY <2>2, <2>5
    <3> HIDE DEF c, v
    <3>2. CASE d = c
      BY <2>1, <2>2, <2>4, <3>1, <3>2
    <3>3. CASE d # c
      BY <2>1, <2>2, <3>1, <3>3
    <3> QED BY <3>2, <3>3
  <2> QED BY <2>2, <2>6, <2>7, <2>8
<1>4. ASSUME ReceiveTimeout PROVE KeptInv'
  BY <1>4 DEF ReceiveTimeout
<1>5. ASSUME NEW c \in Cells, Arrive(c) PROVE KeptInv'
  BY <1>5 DEF Arrive, Sends, To, Finds
<1>6. ASSUME NEW c \in Cells, Grab(c) PROVE KeptInv'
  BY <1>6 DEF Grab, To
<1>7. ASSUME NEW c \in Cells, StopWaiting(c) PROVE KeptInv'
  BY <1>7 DEF StopWaiting, Sends, To, Finds
<1>8. ASSUME NEW c \in Cells, Factory(c) PROVE KeptInv'
  BY <1>8 DEF Factory, To, Finds
<1>9. ASSUME NEW c \in Cells, Run(c) PROVE KeptInv'
  BY <1>9 DEF Run, To, Finds
<1>10. ASSUME NEW c \in Cells, Cleanup(c) PROVE KeptInv'
  BY <1>10 DEF Cleanup, To, Finds
<1>11. ASSUME NEW c \in Cells, Drop(c) PROVE KeptInv'
  BY <1>11 DEF Drop, Sends, To
<1>12. ASSUME NEW c \in Cells, CellDeadline(c) PROVE KeptInv'
  BY <1>12 DEF CellDeadline
<1>13. ASSUME MatrixDeadline PROVE KeptInv'
  BY <1>13 DEF MatrixDeadline
<1>14. CASE UNCHANGED vars
  BY <1>14 DEF vars
<1> QED
  BY <1>1, <1>2, <1>3, <1>4, <1>5, <1>6, <1>7, <1>8, <1>9, <1>10, <1>11, <1>12, <1>13, <1>14
  DEF Next, SupervisorStep, WorkerStep

\* Without fail_fast a cell that kept its deadlines is reported as its worker
\* found it (complete_with_context).
THEOREM FindingsAreKept == Spec => []FindingsKept
<1>1. Init => KeptInv
  BY DEF Init, KeptInv
<1>2. TypeOK /\ WorkerInv /\ KeptInv => FindingsKept
  BY DEF TypeOK, WorkerInv, Followed, KeptInv, FindingsKept, Terminal, Verdicts, Active
<1> QED BY <1>1, <1>2, Linked, KeptStep, PTL DEF Spec

\* The report of a matrix is earned: passes and findings are those of the workers.
THEOREM ReportsEarned == Spec => []ReportIsEarned
<1>1. PassIsEarned /\ FindingsKept => ReportIsEarned
  BY DEF ReportIsEarned
<1> QED BY <1>1, PassesEarned, FindingsAreKept, PTL

-----------------------------------------------------------------------------
(* The bound on the workers                                                   *)

\* The places that are taken, cleanup included.
Taken(st) == {c \in Cells : st[c] \in Active}
RoomInv == Cardinality(Taken(state)) <= MaxParallel

LEMMA CellsAreFinite ==
  ASSUME NEW S \in SUBSET Cells
  PROVE  IsFiniteSet(S) /\ Cardinality(S) \in Nat
<1>1. IsFiniteSet(Cells)
  BY ConstantsAssumption, FS_Interval DEF Cells
<1> QED BY <1>1, FS_Subset, FS_CardinalityType

LEMMA FewerCells ==
  ASSUME NEW S \in SUBSET Cells, NEW T \in SUBSET S
  PROVE  Cardinality(T) <= Cardinality(S)
BY CellsAreFinite, FS_Subset

\* Of some cells one is the last in the order of the plan.
LEMMA LastCell ==
  ASSUME NEW S \in SUBSET Cells, S # {}
  PROVE  \E m \in S : \A c \in S : c <= m
<1> DEFINE R == {p \in Nat \X Nat : p[1] < p[2]}
           D == {NumCells - c : c \in S}
<1>1. IsWellFoundedOn(R, Nat)
  <2>1. R = OpToRel(<, Nat)
    BY DEF OpToRel
  <2> QED BY <2>1, NatLessThanWellFounded
<1>2. D \in SUBSET Nat /\ D # {}
  BY ConstantsAssumption DEF Cells
<1>3. PICK x \in D : \A y \in D : ~ (<<y, x>> \in R)
  <2> HIDE DEF R, D
  <2> QED BY <1>1, <1>2, WFMin
<1>4. \A y \in D : x <= y
  <2>1. x \in Nat /\ \A y \in D : y \in Nat
    BY <1>2
  <2>2. \A y \in Nat : y < x => <<y, x>> \in R
    BY <2>1
  <2>3. \A y \in D : ~ (y < x)
    <3> HIDE DEF R, D
    <3> QED BY <1>3, <2>1, <2>2
  <2> HIDE DEF R, D
  <2> QED BY <2>1, <2>3
<1>5. PICK m \in S : x = NumCells - m
  OBVIOUS
<1>6. \A c \in S : c \in Nat /\ NumCells - c \in D
  BY ConstantsAssumption DEF Cells
<1> HIDE DEF D
<1> QED BY <1>4, <1>5, <1>6, ConstantsAssumption DEF Cells

\* No more cells are ready than there is room for: all but the last of them are
\* queued before it.
LEMMA ReadyFit ==
  ASSUME NEW st
  PROVE  Cardinality(Ready(st)) <= Capacity(st)
<1> DEFINE Before(c) == {d \in Cells : d < c /\ st[d] = "queued"}
<1>1. Ready(st) \in SUBSET Cells /\ Capacity(st) \in Nat
  BY CellsAreFinite, ConstantsAssumption DEF Ready, Capacity
<1>2. CASE Ready(st) = {}
  BY <1>1, <1>2, FS_EmptySet
<1>3. CASE Ready(st) # {}
  <2>1. PICK m \in Ready(st) : \A c \in Ready(st) : c <= m
    BY <1>1, <1>3, LastCell
  <2>2. Ready(st) \ {m} \subseteq Before(m) /\ Before(m) \in SUBSET Cells
    BY <1>1, <2>1, ConstantsAssumption DEF Ready, Cells
  <2>3. Cardinality(Ready(st) \ {m}) <= Cardinality(Before(m))
    BY <2>2, FewerCells
  <2>4. Cardinality(Before(m)) < Capacity(st)
    BY <2>1 DEF Ready
  <2>5. Cardinality(Ready(st) \ {m}) = Cardinality(Ready(st)) - 1
    BY <1>1, <2>1, CellsAreFinite, FS_RemoveElement
  <2>6. Cardinality(Ready(st)) \in Nat /\ Cardinality(Before(m)) \in Nat
    BY <1>1, <2>2, CellsAreFinite
  <2> QED BY <1>1, <2>3, <2>4, <2>5, <2>6
<1> QED BY <1>2, <1>3

LEMMA RoomStep == TypeOK /\ WorkerInv /\ RoomInv /\ [Next]_vars => RoomInv'
<1> SUFFICES ASSUME TypeOK, WorkerInv, RoomInv, [Next]_vars PROVE RoomInv'
  OBVIOUS
<1>1. state \in [Cells -> CellState]
  BY DEF TypeOK, CellState
<1>2. \A st : Taken(st) \in SUBSET Cells
  BY DEF Taken
<1>3. ASSUME Taken(state') \subseteq Taken(state) PROVE RoomInv'
  <2>1. Cardinality(Taken(state')) <= Cardinality(Taken(state))
    BY <1>2, <1>3, FewerCells
  <2>2. Cardinality(Taken(state')) \in Nat /\ Cardinality(Taken(state)) \in Nat
    BY <1>2, CellsAreFinite
  <2> QED BY <2>1, <2>2, ConstantsAssumption DEF RoomInv
<1>4. ASSUME Dispatch PROVE RoomInv'
  <2> DEFINE st == ApplyDeadlines
             ready == IF stopped \/ over THEN {} ELSE Ready(st)
  <2>1. state' = [c \in Cells |-> IF c \in ready THEN "running" ELSE st[c]]
    BY <1>4 DEF Dispatch
  <2>2. Taken(st) = Taken(state)
    BY <1>1, DeadlineFacts DEF Taken
  <2>3. ready \in SUBSET Cells
    BY DEF Ready
  <2> HIDE DEF st
  <2>4. Taken(state') \subseteq Taken(st) \union ready
    BY <2>1 DEF Taken
  <2>5. Cardinality(ready) <= Capacity(st)
    <3>1. Capacity(st) \in Nat
      BY <1>2, CellsAreFinite, ConstantsAssumption DEF Capacity, Taken
    <3> QED BY <3>1, ReadyFit, FS_EmptySet
  <2>6. Capacity(st) <= MaxParallel - Cardinality(Taken(st))
    <3>1. Cardinality(Taken(st)) \in Nat /\ Cardinality(Taken(st)) <= MaxParallel
      BY <1>2, <2>2, CellsAreFinite DEF RoomInv
    <3> QED BY <3>1, ConstantsAssumption DEF Capacity, Taken
  <2> HIDE DEF ready
  <2>7. /\ Cardinality(Taken(st) \union ready) <= Cardinality(Taken(st)) + Cardinality(ready)
        /\ Cardinality(Taken(st)) \in Nat /\ Cardinality(ready) \in Nat
        /\ Cardinality(Taken(st) \union ready) \in Nat
    <3>1. /\ IsFiniteSet(Taken(st)) /\ IsFiniteSet(ready)
          /\ Cardinality(Taken(st)) \in Nat /\ Cardinality(ready) \in Nat
          /\ Cardinality(Taken(st) \union ready) \in Nat
          /\ Cardinality(Taken(st) \intersect ready) \in Nat
      BY <1>2, <2>3, CellsAreFinite
    <3>2. Cardinality(Taken(st) \union ready)
            = Cardinality(Taken(st)) + Cardinality(ready) - Cardinality(Taken(st) \intersect ready)
      BY <3>1, FS_Union
    <3> QED BY <3>1, <3>2
  <2>8. /\ Cardinality(Taken(state')) <= Cardinality(Taken(st) \union ready)
        /\ Cardinality(Taken(state')) \in Nat
    BY <1>2, <2>3, <2>4, FewerCells, CellsAreFinite
  <2>9. Capacity(st) \in Nat
    BY <1>2, CellsAreFinite, ConstantsAssumption DEF Capacity, Taken
  <2> QED BY <2>5, <2>6, <2>7, <2>8, <2>9, ConstantsAssumption DEF RoomInv
<1>5. ASSUME Check PROVE RoomInv'
  BY <1>1, <1>3, <1>5, CancelAllFacts DEF Check, Taken
<1>6. ASSUME Receive PROVE RoomInv'
  <2>1. CASE UNCHANGED state
    BY <1>3, <2>1
  <2>2. CASE ~ UNCHANGED state
    <3> DEFINE c == Head(channel)
               v == IF state[c] = "cancel_requested" THEN "cancelled" ELSE found[c]
               st == [state EXCEPT ![c] = v]
    <3>1. state' \in {st, CancelAll(st)} /\ c \in Cells /\ state[c] \in Active
      BY <1>6, <2>2 DEF Receive, TypeOK
    <3>2. v \in Verdicts
      <4>1. worker[c] = "sent"
        BY <1>6 DEF Receive, WorkerInv, Delivered, TypeOK
      <4> QED BY <3>1, <4>1 DEF WorkerInv, Followed, Verdicts
    <3>3. st \in [Cells -> CellState] /\ Taken(st) \subseteq Taken(state)
      BY <1>1, <3>1, <3>2 DEF CellState, Taken, Verdicts, Active
    <3> HIDE DEF st
    <3>4. Taken(CancelAll(st)) \subseteq Taken(st)
      BY <3>3, CancelAllFacts DEF Taken
    <3> QED BY <1>3, <3>1, <3>3, <3>4
  <2> QED BY <2>1, <2>2
<1>7. ASSUME UNCHANGED state PROVE RoomInv'
  BY <1>3, <1>7
<1>8. Dispatch \/ Check \/ Receive \/ UNCHANGED state
  BY DEF Next, SupervisorStep, WorkerStep, ReceiveTimeout, Arrive, Grab, StopWaiting, Factory,
    Run, Cleanup, Drop, CellDeadline, MatrixDeadline, supervisor, vars
<1> QED BY <1>4, <1>5, <1>6, <1>7, <1>8

\* No more than max_parallel workers at any time, also while cells that were asked
\* to stop are still cleaning up (MatrixScheduler::dispatch_ready).
THEOREM WorkersBounded == Spec => []ParallelBounded
<1>1. Init => RoomInv
  <2> SUFFICES ASSUME Init PROVE RoomInv
    OBVIOUS
  <2>1. Taken(state) = {}
    BY DEF Init, Taken, Active
  <2> QED BY <2>1, FS_EmptySet, ConstantsAssumption DEF RoomInv
<1>2. WorkerInv /\ RoomInv => ParallelBounded
  <2> SUFFICES ASSUME WorkerInv, RoomInv PROVE ParallelBounded
    OBVIOUS
  <2> DEFINE W == {c \in Cells : worker[c] \notin {"none", "gone", "sent"}}
  <2>1. W \in SUBSET Taken(state) /\ Taken(state) \in SUBSET Cells
    BY DEF WorkerInv, Followed, Taken
  <2>2. Cardinality(W) <= Cardinality(Taken(state))
    BY <2>1, FewerCells
  <2>3. Cardinality(W) \in Nat /\ Cardinality(Taken(state)) \in Nat
    BY <2>1, CellsAreFinite
  <2> QED BY <2>2, <2>3, ConstantsAssumption DEF RoomInv, ParallelBounded
<1> QED BY <1>1, <1>2, RoomStep, Linked, PTL DEF Spec
=============================================================================
