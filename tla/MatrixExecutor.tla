----------------------------- MODULE MatrixExecutor -----------------------------
(***************************************************************************)
(* `gpui check` of a matrix: one supervisor thread schedules the cells of a *)
(* plan and collects their results; every dispatched cell has a worker      *)
(* thread that waits for its resources, creates a runner, runs the cell,   *)
(* cleans up, gives the resources back and sends its result.  Deadlines     *)
(* pass, runners fail, and with fail_fast a failure cancels the rest.       *)
(*                                                                         *)
(* The clock is two facts: the deadline of the matrix is over, a cell is    *)
(* late.  A worker's deadline is the earlier of the two.                    *)
(***************************************************************************)
EXTENDS Integers, FiniteSets, Sequences

CONSTANTS
  NumCells,     \* the cells of the plan are 1..NumCells, in its order
  Resources,
  Needs,        \* Needs[c]: the resource ids of cell c
  Required,     \* the required cells
  MaxParallel,
  Runs          \* the verdicts that runners come to

Cells == 1 .. NumCells
Verdicts == {"passed", "failed", "inconclusive", "unavailable", "cancelled"}

ASSUME ConstantsAssumption ==
  /\ NumCells \in Nat \ {0}
  /\ Needs \in [Cells -> SUBSET Resources]
  /\ Required \subseteq Cells
  /\ MaxParallel \in Nat \ {0}
  /\ Runs \subseteq Verdicts

VARIABLES
  failFast,           \* the plan's fail_fast
  state,              \* MatrixCellState of each cell
  stopped,            \* deadline_exceeded or fail_fast_triggered
  active,             \* active_workers
  pc,                 \* the supervisor
  report,             \* MatrixStatus of the report, "none" before
  worker,             \* where the worker of each cell is
  found,              \* the status a worker is going to report
  held,               \* resources in the pool's set
  channel,            \* cells whose results were sent and not received
  over, late,         \* the clock
  earned              \* history: cells whose runner passed and cleaned up in time

supervisor == <<state, stopped, active, pc, report>>
clock      == <<over, late>>
vars == <<failFast, supervisor, worker, found, held, channel, clock, earned>>

Active   == {"running", "cancel_requested"}
Holding  == {"factory", "run", "cleanup", "drop"}

Expired(c)  == over \/ c \in late
To(c, w)    == worker' = [worker EXCEPT ![c] = w]
Finds(c, v) == found' = [found EXCEPT ![c] = v]
Sends(c)    == To(c, "sent") /\ channel' = Append(channel, c)

-----------------------------------------------------------------------------
(* MatrixScheduler                                                            *)

\* Mutant of CancelAll: active cells are terminal at once.
CancelAtOnce(st) ==
  [c \in Cells |-> IF st[c] = "queued" \/ st[c] = "running" THEN "cancelled" ELSE st[c]]

\* Queued cells are cancelled at once, running ones asked to clean up.
CancelAll(st) ==
  [c \in Cells |-> CASE st[c] = "queued"  -> "cancelled"
                     [] st[c] = "running" -> "cancel_requested"
                     [] OTHER             -> st[c]]

ApplyDeadlines ==
  IF over THEN CancelAll(state)
  ELSE [c \in Cells |-> IF state[c] = "running" /\ c \in late THEN "cancel_requested" ELSE state[c]]

\* Mutant of Capacity: a cell asked to stop has left its place.
CapacityWithoutStopping(st) ==
  LET n == Cardinality({c \in Cells : st[c] = "running"})
  IN  IF n < MaxParallel THEN MaxParallel - n ELSE 0

Capacity(st) ==
  LET n == Cardinality({c \in Cells : st[c] \in Active})
  IN  IF n < MaxParallel THEN MaxParallel - n ELSE 0

\* The first queued cells of the plan, as many as there is room for.
Ready(st) ==
  {c \in Cells : /\ st[c] = "queued"
                 /\ Cardinality({d \in Cells : d < c /\ st[d] = "queued"}) < Capacity(st)}

Terminal(st) == \A c \in Cells : st[c] \in Verdicts

\* summarize_cells.
Summary(st) ==
  LET some(v) == \E c \in Required : st[c] = v
  IN  CASE some("failed") -> "failed"
        [] ~some("failed") /\ some("cancelled") -> "cancelled"
        [] ~some("failed") /\ ~some("cancelled") /\ some("inconclusive") -> "inconclusive"
        [] ~some("failed") /\ ~some("cancelled") /\ ~some("inconclusive")
             /\ some("unavailable") -> "unavailable"
        [] OTHER -> IF \A c \in Cells : st[c] = "passed" THEN "passed" ELSE "partial"

-----------------------------------------------------------------------------
(* The supervisor's loop                                                      *)

Dispatch ==
  /\ pc = "dispatch"
  /\ LET st    == ApplyDeadlines
         ready == IF stopped \/ over THEN {} ELSE Ready(st)
     IN  /\ state' = [c \in Cells |-> IF c \in ready THEN "running" ELSE st[c]]
         /\ worker' = [c \in Cells |-> IF c \in ready THEN "arrive" ELSE worker[c]]
         /\ active' = active + Cardinality(ready)
  /\ stopped' = (stopped \/ over)
  /\ pc' = "check"
  /\ UNCHANGED <<failFast, report, found, held, channel, clock, earned>>

\* The report, or one more round, or the wait for a result.
Check ==
  /\ pc = "check"
  /\ IF Terminal(state)
     THEN pc' = "done" /\ report' = Summary(state) /\ UNCHANGED state
     ELSE /\ UNCHANGED report
          /\ IF active = 0 /\ \A c \in Cells : state[c] \notin {"queued", "running"}
             THEN pc' = "dispatch" /\ state' = CancelAll(state)
             ELSE pc' = "receive" /\ UNCHANGED state
  /\ UNCHANGED <<failFast, stopped, active, worker, found, held, channel, clock, earned>>

\* Mutant of Fails: any failure stops the matrix.
FailsAlways(v) == v = "failed"
\* A failure that stops the matrix.
Fails(v) == v = "failed" /\ failFast

\* complete_parallel_result: what a cancelled cell found is not its status.  A
\* cell that is not active is an error of the whole matrix.
Receive ==
  /\ pc = "receive" /\ channel # <<>>
  /\ LET c == Head(channel)
         v == IF state[c] = "cancel_requested" THEN "cancelled" ELSE found[c]
         st == [state EXCEPT ![c] = v]
     IN  IF state[c] \in Active
         THEN /\ state' = IF Fails(v) THEN CancelAll(st) ELSE st
              /\ stopped' = (stopped \/ Fails(v))
              /\ pc' = "dispatch"
              /\ To(c, "gone")
         ELSE pc' = "error" /\ UNCHANGED <<state, stopped, worker>>
  /\ channel' = Tail(channel)
  /\ active' = IF active > 0 THEN active - 1 ELSE 0
  /\ UNCHANGED <<failFast, report, found, held, clock, earned>>

ReceiveTimeout ==
  /\ pc = "receive" /\ channel = <<>>
  /\ pc' = "dispatch"
  /\ UNCHANGED <<failFast, state, stopped, active, report, worker, found, held, channel, clock, earned>>

-----------------------------------------------------------------------------
(* run_parallel_cell                                                          *)

Arrive(c) ==
  /\ worker[c] = "arrive"
  /\ IF Expired(c) THEN Sends(c) /\ Finds(c, "cancelled")
                   ELSE To(c, "wait") /\ UNCHANGED <<found, channel>>
  /\ UNCHANGED <<failFast, supervisor, held, clock, earned>>

\* Mutant of Grab: takes what is free and does not wait for the rest.
GrabFree(c) ==
  /\ worker[c] = "wait"
  /\ held' = held \union Needs[c]
  /\ To(c, "factory")
  /\ UNCHANGED <<failFast, supervisor, found, channel, clock, earned>>

\* All resources at once, whatever the clock says.
Grab(c) ==
  /\ worker[c] = "wait"
  /\ Needs[c] \intersect held = {}
  /\ held' = held \union Needs[c]
  /\ To(c, "factory")
  /\ UNCHANGED <<failFast, supervisor, found, channel, clock, earned>>

StopWaiting(c) ==
  /\ worker[c] = "wait"
  /\ Needs[c] \intersect held # {} /\ Expired(c)
  /\ Sends(c) /\ Finds(c, "cancelled")
  /\ UNCHANGED <<failFast, supervisor, held, clock, earned>>

\* Mutant of Factory: a runner that was not created leaves its resources.
FactoryLeaks(c) ==
  /\ worker[c] = "factory"
  /\ \/ To(c, "run") /\ UNCHANGED <<found, channel>>
     \/ Sends(c) /\ Finds(c, "failed")
  /\ UNCHANGED <<failFast, supervisor, held, clock, earned>>

\* Creates the runner, or fails or panics.
Factory(c) ==
  /\ worker[c] = "factory"
  /\ \/ To(c, "run") /\ UNCHANGED found
     \/ To(c, "drop") /\ Finds(c, "failed")
  /\ UNCHANGED <<failFast, supervisor, held, channel, clock, earned>>

\* The runner's own verdict; an error or a panic is a failure.
Run(c) ==
  /\ worker[c] = "run"
  /\ \E v \in Runs : Finds(c, v)
  /\ To(c, "cleanup")
  /\ UNCHANGED <<failFast, supervisor, held, channel, clock, earned>>

\* Mutant of Cleanup: the verdict of the run stands.
CleanupUnheard(c) ==
  /\ worker[c] = "cleanup"
  /\ \E failed \in BOOLEAN :
       earned' = IF found[c] = "passed" /\ ~failed /\ ~Expired(c) THEN earned \union {c} ELSE earned
  /\ To(c, "drop")
  /\ UNCHANGED <<failFast, supervisor, found, held, channel, clock>>

\* Runs whatever the cell did.  Its failure is the cell's, and a cell that ends
\* past its deadline is cancelled.
Cleanup(c) ==
  /\ worker[c] = "cleanup"
  /\ \E failed \in BOOLEAN :
       /\ Finds(c, IF failed THEN "failed" ELSE IF Expired(c) THEN "cancelled" ELSE found[c])
       /\ earned' = IF found[c] = "passed" /\ ~failed /\ ~Expired(c) THEN earned \union {c} ELSE earned
  /\ To(c, "drop")
  /\ UNCHANGED <<failFast, supervisor, held, channel, clock>>

\* The guard is dropped and the result sent; nobody sees the moment between.
Drop(c) ==
  /\ worker[c] = "drop"
  /\ held' = held \ Needs[c]
  /\ Sends(c)
  /\ UNCHANGED <<failFast, supervisor, found, clock, earned>>

-----------------------------------------------------------------------------
MatrixDeadline ==
  /\ ~over /\ pc # "done"
  /\ over' = TRUE
  /\ UNCHANGED <<failFast, supervisor, worker, found, held, channel, late, earned>>

CellDeadline(c) ==
  /\ ~Expired(c) /\ worker[c] \notin {"none", "gone"}
  /\ late' = late \union {c}
  /\ UNCHANGED <<failFast, supervisor, worker, found, held, channel, over, earned>>

\* Admission has marked the cells that cannot run here.
Init ==
  /\ failFast \in BOOLEAN
  /\ \E refused \in SUBSET Cells :
       state = [c \in Cells |-> IF c \in refused THEN "unavailable" ELSE "queued"]
  /\ stopped = FALSE /\ active = 0 /\ pc = "dispatch" /\ report = "none"
  /\ worker = [c \in Cells |-> "none"]
  /\ found = [c \in Cells |-> "none"]
  /\ held = {} /\ channel = <<>>
  /\ over = FALSE /\ late = {} /\ earned = {}

SupervisorStep == Dispatch \/ Check \/ Receive \/ ReceiveTimeout
WorkerStep(c) ==
  \/ Arrive(c) \/ Grab(c) \/ StopWaiting(c) \/ Factory(c)
  \/ Run(c) \/ Cleanup(c) \/ Drop(c)

Next ==
  \/ SupervisorStep
  \/ \E c \in Cells : WorkerStep(c) \/ CellDeadline(c)
  \/ MatrixDeadline

Spec == Init /\ [][Next]_vars

\* Threads go on, and runners bound their work.  Nothing is asked of the clock.
FairSpec ==
  Spec /\ WF_vars(SupervisorStep) /\ \A c \in Cells : WF_vars(WorkerStep(c))

-----------------------------------------------------------------------------
(* Properties                                                                 *)

\* Every variable keeps its type, and the supervisor meets no inner error.
TypeOK ==
  /\ failFast \in BOOLEAN
  /\ state \in [Cells -> Verdicts \union Active \union {"queued"}]
  /\ stopped \in BOOLEAN
  /\ active \in Nat
  /\ pc \in {"dispatch", "check", "receive", "done"}
  /\ report \in Verdicts \union {"partial", "none"}
  /\ worker \in [Cells -> Holding \union {"none", "arrive", "wait", "sent", "gone"}]
  /\ found \in [Cells -> Verdicts \union {"none"}]
  /\ held \subseteq Resources
  /\ channel \in Seq(Cells)
  /\ over \in BOOLEAN /\ late \subseteq Cells /\ earned \subseteq Cells

\* Two cells that name the same resource do not overlap, cleanup included
\* (execute_matrix_parallel, matrix_executor.rs:168-174).
ResourcesExclusive ==
  \A c, d \in Cells :
    c # d /\ worker[c] \in Holding /\ worker[d] \in Holding => Needs[c] \intersect Needs[d] = {}

\* A cell is never finished while its worker still owns something: the
\* supervisor settles it only when its runner has cleaned up, whatever
\* deadlines or failures cancelled it ("Active cells become terminal only
\* after `complete`", matrix.rs:300-301).
TerminalAfterCleanup ==
  \A c \in Cells : state[c] \in Verdicts => worker[c] \in {"none", "gone"}

\* No more than max_parallel workers at any time, also while cells asked to
\* stop are still cleaning up.
ParallelBounded ==
  Cardinality({c \in Cells : worker[c] \notin {"none", "gone", "sent"}}) <= MaxParallel

\* A matrix passes on earned passes only: each required cell, and each cell
\* when it is not partial, ran to a pass and cleaned up in time.
PassIsEarned ==
  /\ report = "passed" => earned = Cells
  /\ report = "partial" => Required \subseteq earned

\* Without fail_fast a cell that kept its deadlines is reported as its worker
\* found it, whatever happened to the others.
FindingsKept ==
  pc = "done" /\ ~failFast /\ ~over =>
    \A c \in Cells \ late : found[c] # "none" => state[c] = found[c]

\* The report says what the workers found, no more and no less.
ReportIsEarned == PassIsEarned /\ FindingsKept

\* The matrix ends with a report.
EndsWithReport == <>(pc = "done")

=============================================================================
