--------------------------- MODULE BuildCoordinator ---------------------------
(***************************************************************************)
(* Callers in several processes ask for the output of one BuildKey.  The   *)
(* one that gets the output lock leads: it announces an attempt in a       *)
(* record, builds and publishes how the attempt ended.  The others         *)
(* subscribe to the attempt and poll the record; one of them takes over    *)
(* when the leader died.  A preview caller may stop needing the result, and *)
(* `gpui cache clean` may evict the output at any time.                    *)
(*                                                                         *)
(* Ordinary builds and previews keep records of their own beside one lock, *)
(* one subscriber directory and one lock for the records (the state lock). *)
(* What a caller does under the state lock is one step here, except the    *)
(* eviction, which readers without the lock can see half done.             *)
(*                                                                         *)
(* A caller leads at most one attempt (its build closure is consumed), so  *)
(* an attempt, its owner and its fencing token go by the caller's name.    *)
(***************************************************************************)
EXTENDS Naturals, FiniteSets

CONSTANTS
  Callers,     \* calls of coordinate_build and its preview variants
  Cleaners,    \* runs of `gpui cache clean`
  Kinds,       \* records: ordinary builds, previews
  KindOf,      \* KindOf[p]: the record that caller p uses
  Controlled,  \* the kinds whose callers may be cancelled (previews)
  Nobody,      \* no caller, no holder of a lock, no output
  MaxCrashes, MaxFailures, MaxCancels   \* bounds on the environment

Procs == Callers \union Cleaners

ASSUME ConstantsAssumption ==
  /\ Callers \intersect Cleaners = {} /\ Nobody \notin Procs
  /\ KindOf \in [Callers -> Kinds]
  /\ Controlled \subseteq Kinds
  /\ MaxCrashes \in Nat /\ MaxFailures \in Nat /\ MaxCancels \in Nat

VARIABLES
  outputLock,   \* who holds the output lock; the system frees it at a crash
  record,       \* the coordinator record of each kind
  subscribers,  \* per attempt, the callers whose subscription file is locked
  output,       \* per kind, the attempt whose verified artifacts are on disk
  pc,
  seen,         \* the record a caller read and acts upon, while it does
  want,         \* why a caller no longer needs the result, "none" while it does
  result,       \* how the build closure of a leader ended
  outcome,      \* what the call returned
  crashes, failures, cancels

shared == <<outputLock, record, subscribers, output>>
local  == <<pc, seen, want, result, outcome>>
budget == <<crashes, failures, cancels>>
vars   == <<shared, local, budget>>

States  == {"building", "succeeded", "failed", "cancelled"}
Errors  == {"none", "build", "superseded", "cancelled", "abandoned", "stale"}
Reasons == {"cancelled", "superseded"}

NoRecord == [state |-> "none", attempt |-> Nobody, error |-> "none"]
Records  == [state : States, attempt : Callers, error : Errors] \union {NoRecord}

Record(s, p, e) == [state |-> s, attempt |-> p, error |-> e]
Building(p)     == Record("building", p, "none")

-----------------------------------------------------------------------------
(* Shared pieces                                                              *)

Rec(p)       == record[KindOf[p]]
Write(p, r)  == record' = [record EXCEPT ![KindOf[p]] = r]
Verified(p)  == output[KindOf[p]] # Nobody
Owns(p)      == Rec(p) = Building(p)

Go(p, to)     == pc' = [pc EXCEPT ![p] = to]
Note(p, r)    == seen' = [seen EXCEPT ![p] = r]
Return(p, o)  == outcome' = [outcome EXCEPT ![p] = o]

\* The subscription file of p is removed.
Dropped(p) == [a \in Callers |-> subscribers[a] \ {p}]
Others(p)  == subscribers[p] \ {p}

\* The state lock is free: only an eviction holds it for more than one step.
StateFree == \A c \in Cleaners : pc[c] # "clearing"

\* Errors after which a caller may start an attempt of its own: the list that
\* coordinate_* asks, and the one that a waiter asks.
Retryable   == {"superseded", "cancelled", "stale"}
WaiterRetry == Retryable \union {"abandoned"}

-----------------------------------------------------------------------------
(* The loop of coordinate_build: look, join or elect                          *)

GiveUp(p) ==
  /\ pc[p] = "look" /\ want[p] # "none"
  /\ Return(p, "cancelled") /\ Go(p, "done")
  /\ UNCHANGED <<shared, seen, want, result, budget>>

\* What a record without a verified success leads to.
AfterLook(p) ==
  CASE Rec(p).state = "building" -> "join"
    [] Rec(p).state = "failed" /\ Rec(p).error \notin Retryable -> "count"
    [] OTHER -> "elect"

\* Mutant of Look: the record is not kept for the steps that follow.
LookForgets(p) ==
  /\ pc[p] = "look" /\ want[p] = "none"
  /\ \/ /\ Rec(p).state = "succeeded" /\ Verified(p)
        /\ Return(p, "followed") /\ Go(p, "done")
     \/ /\ ~(Rec(p).state = "succeeded" /\ Verified(p))
        /\ Go(p, AfterLook(p)) /\ UNCHANGED outcome
  /\ UNCHANGED <<shared, seen, want, result, budget>>

\* Mutant of Look: a recorded success is believed without its artifacts.
LookUnverified(p) ==
  /\ pc[p] = "look" /\ want[p] = "none"
  /\ \/ /\ Rec(p).state = "succeeded"
        /\ Return(p, "followed") /\ Go(p, "done") /\ UNCHANGED seen
     \/ /\ Rec(p).state # "succeeded"
        /\ Go(p, AfterLook(p)) /\ UNCHANGED outcome
        /\ Note(p, IF AfterLook(p) = "elect" THEN NoRecord ELSE Rec(p))
  /\ UNCHANGED <<shared, want, result, budget>>

Look(p) ==
  /\ pc[p] = "look" /\ want[p] = "none"
  /\ \/ /\ Rec(p).state = "succeeded" /\ Verified(p)
        /\ Return(p, "followed") /\ Go(p, "done") /\ UNCHANGED seen
     \/ /\ ~(Rec(p).state = "succeeded" /\ Verified(p))
        /\ Go(p, AfterLook(p)) /\ UNCHANGED outcome
        /\ Note(p, IF AfterLook(p) = "elect" THEN NoRecord ELSE Rec(p))
  /\ UNCHANGED <<shared, want, result, budget>>

\* A failure is shared while somebody still waits for that attempt.
ShareFailure(p) ==
  /\ pc[p] = "count" /\ StateFree
  /\ IF subscribers[seen[p].attempt] # {}
     THEN /\ Return(p, IF seen[p].error = "abandoned" THEN "abandoned" ELSE "failed")
          /\ Go(p, "done")
     ELSE UNCHANGED outcome /\ Go(p, "elect")
  /\ Note(p, NoRecord)
  /\ UNCHANGED <<shared, want, result, budget>>

\* Mutant of Elect: takes the lock of another process.
ElectAnyway(p) ==
  /\ pc[p] = "elect"
  /\ outputLock' = p /\ Go(p, "enter")
  /\ UNCHANGED <<record, subscribers, output, seen, want, result, outcome, budget>>

Elect(p) ==
  /\ pc[p] = "elect"
  /\ IF outputLock = Nobody
     THEN outputLock' = p /\ Go(p, "enter")
     ELSE UNCHANGED outputLock /\ Go(p, "look")
  /\ UNCHANGED <<record, subscribers, output, seen, want, result, outcome, budget>>

-----------------------------------------------------------------------------
(* Leader                                                                     *)

Enter(p) ==
  /\ pc[p] = "enter" /\ StateFree
  /\ subscribers' = [subscribers EXCEPT ![p] = @ \union {p}]
  /\ Go(p, "announce")
  /\ UNCHANGED <<outputLock, record, output, seen, want, result, outcome, budget>>

Announce(p) ==
  /\ pc[p] = "announce" /\ StateFree
  /\ Write(p, Building(p))
  /\ Go(p, "build")
  /\ UNCHANGED <<outputLock, subscribers, output, seen, want, result, outcome, budget>>

\* The closure looks for verified artifacts before it compiles.
Reuse(p) ==
  /\ pc[p] = "build" /\ Verified(p)
  /\ result' = [result EXCEPT ![p] = "ok"]
  /\ Go(p, "finish")
  /\ UNCHANGED <<shared, seen, want, outcome, budget>>

Miss(p) ==
  /\ pc[p] = "build" /\ ~Verified(p)
  /\ Go(p, "compile")
  /\ UNCHANGED <<shared, seen, want, result, outcome, budget>>

Compile(p) ==
  /\ pc[p] = "compile"
  /\ \/ /\ output' = [output EXCEPT ![KindOf[p]] = p]
        /\ result' = [result EXCEPT ![p] = "ok"]
        /\ UNCHANGED failures
     \/ /\ failures < MaxFailures /\ failures' = failures + 1
        /\ result' = [result EXCEPT ![p] = "failed"]
        /\ UNCHANGED output
  /\ Go(p, "finish")
  /\ UNCHANGED <<outputLock, record, subscribers, seen, want, outcome, crashes, cancels>>

\* Polled while the compiler runs: the leader gives up its own reference, and
\* the build is to stop when its sources changed or nobody else waits.
ShouldAbort(p) ==
  /\ pc[p] = "compile" /\ want[p] # "none" /\ StateFree
  /\ subscribers' = Dropped(p)
  /\ IF want[p] = "superseded" \/ Others(p) = {}
     THEN result' = [result EXCEPT ![p] = want[p]] /\ Go(p, "terminate")
     ELSE UNCHANGED <<result, pc>>
  /\ UNCHANGED <<outputLock, record, output, seen, want, outcome, budget>>

Ended(p, r) ==
  CASE r = "ok"         -> Record("succeeded", p, "none")
    [] r = "failed"     -> Record("failed", p, "build")
    [] r = "superseded" -> Record("failed", p, "superseded")
    [] r = "cancelled"  -> Record("cancelled", p, "cancelled")

\* A terminal record is written only over the own announcement.
Publish(p, r) ==
  IF Owns(p) THEN Write(p, Ended(p, r)) ELSE UNCHANGED record

\* The state lock is taken again, the compiler killed and the end published.
Terminate(p) ==
  /\ pc[p] = "terminate" /\ StateFree
  /\ Publish(p, result[p])
  /\ Return(p, IF Owns(p) THEN result[p] ELSE "lost")
  /\ Go(p, "release")
  /\ UNCHANGED <<outputLock, subscribers, output, seen, want, result, budget>>

\* A leader cancelled while others wait publishes its result all the same.  An
\* ordinary leader keeps its reference until it has released the lock.
Finish(p) ==
  LET ended == IF want[p] = "superseded" \/ (want[p] = "cancelled" /\ Others(p) = {})
               THEN want[p] ELSE result[p]
  IN  /\ pc[p] = "finish" /\ StateFree
      /\ Publish(p, ended)
      /\ subscribers' = IF KindOf[p] \in Controlled THEN Dropped(p) ELSE subscribers
      /\ Return(p, CASE ~Owns(p) -> "lost"
                     [] Owns(p) /\ want[p] # "none" -> want[p]
                     [] OTHER -> IF result[p] = "ok" THEN "built" ELSE "failed")
      /\ Go(p, "release")
      /\ UNCHANGED <<outputLock, output, seen, want, result, budget>>

Release(p) ==
  /\ pc[p] = "release"
  /\ outputLock' = Nobody
  /\ Go(p, IF p \in Callers THEN "leave" ELSE "done")
  /\ UNCHANGED <<record, subscribers, output, seen, want, result, outcome, budget>>

Leave(p) ==
  /\ pc[p] = "leave"
  /\ subscribers' = Dropped(p)
  /\ Go(p, IF outcome[p] = "none" THEN "look" ELSE "done")
  /\ Note(p, NoRecord) /\ result' = [result EXCEPT ![p] = "none"]
  /\ UNCHANGED <<outputLock, record, output, want, outcome, budget>>

-----------------------------------------------------------------------------
(* Follower: wait_for_attempt                                                 *)

\* Only an attempt that is still building is joined.
Join(p) ==
  /\ pc[p] = "join" /\ StateFree
  /\ IF Rec(p) = Building(seen[p].attempt)
     THEN /\ subscribers' = [subscribers EXCEPT ![seen[p].attempt] = @ \union {p}]
          /\ Go(p, "wait") /\ UNCHANGED seen
     ELSE UNCHANGED subscribers /\ Go(p, "look") /\ Note(p, NoRecord)
  /\ UNCHANGED <<outputLock, record, output, want, result, outcome, budget>>

StopWaiting(p) ==
  /\ pc[p] = "wait" /\ want[p] # "none"
  /\ Return(p, "cancelled") /\ Go(p, "leave")
  /\ UNCHANGED <<shared, seen, want, result, budget>>

Awaited(p) == Rec(p) # NoRecord /\ Rec(p).attempt = seen[p].attempt

\* Mutant of AttemptEnded: the cancellation of the leader ends its followers.
AttemptCancelled(p) ==
  /\ pc[p] = "wait" /\ want[p] = "none" /\ Awaited(p) /\ Rec(p).state # "building"
  /\ Return(p, CASE Rec(p).state = "succeeded" -> IF Verified(p) THEN "followed" ELSE "unverified"
                 [] Rec(p).error \in {"superseded", "cancelled"} -> Rec(p).error
                 [] OTHER -> IF Rec(p).error \in WaiterRetry THEN "none" ELSE "failed")
  /\ Go(p, "leave")
  /\ UNCHANGED <<shared, seen, want, result, budget>>

\* The awaited attempt has ended.  Its artifacts are verified again; a failure
\* of the build is returned, any other end sends the follower round the loop.
AttemptEnded(p) ==
  /\ pc[p] = "wait" /\ want[p] = "none" /\ Awaited(p) /\ Rec(p).state # "building"
  /\ Return(p, CASE Rec(p).state = "succeeded" -> IF Verified(p) THEN "followed" ELSE "unverified"
                 [] Rec(p).state # "succeeded" /\ Rec(p).error \in WaiterRetry -> "none"
                 [] OTHER -> "failed")
  /\ Go(p, "leave")
  /\ UNCHANGED <<shared, seen, want, result, budget>>

\* Mutant of Poll: only the record of the awaited attempt is waited for.
PollAwaited(p) ==
  /\ pc[p] = "wait" /\ want[p] = "none"
  /\ Awaited(p) /\ Rec(p).state = "building"
  /\ Go(p, "probe")
  /\ UNCHANGED <<shared, seen, want, result, outcome, budget>>

\* The attempt runs, or another record took its place: is the lock free?
Poll(p) ==
  /\ pc[p] = "wait" /\ want[p] = "none"
  /\ ~Awaited(p) \/ Rec(p).state = "building"
  /\ Go(p, "probe")
  /\ UNCHANGED <<shared, seen, want, result, outcome, budget>>

Probe(p) ==
  /\ pc[p] = "probe"
  /\ IF outputLock = Nobody
     THEN /\ outputLock' = p /\ Go(p, "mark")
          /\ IF Awaited(p) THEN UNCHANGED seen ELSE Note(p, Rec(p))
     ELSE UNCHANGED <<outputLock, seen>> /\ Go(p, "wait")
  /\ UNCHANGED <<record, subscribers, output, want, result, outcome, budget>>

\* Mutant of Mark: writes without reading the record again.
MarkUnread(p) ==
  /\ pc[p] = "mark" /\ StateFree
  /\ seen[p] # NoRecord
  /\ \E e \in {"abandoned", "stale"} : Write(p, Record("failed", seen[p].attempt, e))
  /\ Go(p, "release")
  /\ UNCHANGED <<outputLock, subscribers, output, seen, want, result, outcome, budget>>

\* An announcement whose leader no longer holds the lock is marked abandoned, or
\* stale when its last heartbeat is old.
Mark(p) ==
  /\ pc[p] = "mark" /\ StateFree
  /\ IF Rec(p).state = "building" /\ Rec(p).attempt = seen[p].attempt
     THEN \E e \in {"abandoned", "stale"} : Write(p, Record("failed", seen[p].attempt, e))
     ELSE UNCHANGED record
  /\ Go(p, "release")
  /\ UNCHANGED <<outputLock, subscribers, output, seen, want, result, outcome, budget>>

-----------------------------------------------------------------------------
(* gpui cache clean, for this key                                             *)

TryClean(c) ==
  /\ pc[c] = "idle"
  /\ IF outputLock = Nobody
     THEN outputLock' = c /\ Go(c, "check")
     ELSE UNCHANGED outputLock /\ Go(c, "done")
  /\ UNCHANGED <<record, subscribers, output, seen, want, result, outcome, budget>>

Active == \E a \in Callers : subscribers[a] # {}

\* Mutant of CheckActive: does not ask for subscribers.
CheckNothing(c) ==
  /\ pc[c] = "check" /\ StateFree
  /\ Go(c, "clear")
  /\ UNCHANGED <<shared, seen, want, result, outcome, budget>>

CheckActive(c) ==
  /\ pc[c] = "check" /\ StateFree
  /\ Go(c, IF Active THEN "release" ELSE "clear")
  /\ UNCHANGED <<shared, seen, want, result, outcome, budget>>

BeginClear(c) ==
  /\ pc[c] = "clear" /\ StateFree
  /\ Go(c, "clearing")
  /\ UNCHANGED <<shared, seen, want, result, outcome, budget>>

\* The entries go one after the other, in the order of the directory.
ClearEntry(c) ==
  /\ pc[c] = "clearing"
  /\ \/ \E k \in Kinds : /\ output[k] # Nobody
                         /\ output' = [output EXCEPT ![k] = Nobody]
                         /\ UNCHANGED <<record, subscribers>>
     \/ \E k \in Kinds : /\ record[k] # NoRecord
                         /\ record' = [record EXCEPT ![k] = NoRecord]
                         /\ UNCHANGED <<output, subscribers>>
     \/ /\ Active
        /\ subscribers' = [a \in Callers |-> {}]
        /\ UNCHANGED <<output, record>>
  /\ UNCHANGED <<outputLock, local, budget>>

Cleared(c) ==
  /\ pc[c] = "clearing"
  /\ \A k \in Kinds : output[k] = Nobody /\ record[k] = NoRecord
  /\ ~Active
  /\ Go(c, "release")
  /\ UNCHANGED <<shared, seen, want, result, outcome, budget>>

-----------------------------------------------------------------------------
(* The environment                                                            *)

\* A preview caller stops needing the result: its sources changed, or its
\* session ends, which goes before.
Cancel(p, why) ==
  /\ KindOf[p] \in Controlled /\ pc[p] \notin {"idle", "done", "crashed"}
  /\ cancels < MaxCancels
  /\ want[p] = "none" \/ (want[p] = "superseded" /\ why = "cancelled")
  /\ want' = [want EXCEPT ![p] = why]
  /\ cancels' = cancels + 1
  /\ UNCHANGED <<shared, pc, seen, result, outcome, crashes, failures>>

\* The system frees the locks of a dead process; its announcement stays.
Crash(p) ==
  /\ pc[p] \notin {"idle", "done", "crashed"}
  /\ crashes < MaxCrashes /\ crashes' = crashes + 1
  /\ outputLock' = IF outputLock = p THEN Nobody ELSE outputLock
  /\ subscribers' = IF p \in Callers THEN Dropped(p) ELSE subscribers
  /\ Go(p, "crashed")
  /\ UNCHANGED <<record, output, seen, want, result, outcome, failures, cancels>>

-----------------------------------------------------------------------------
Init ==
  /\ outputLock = Nobody
  /\ record = [k \in Kinds |-> NoRecord]
  /\ subscribers = [a \in Callers |-> {}]
  /\ output = [k \in Kinds |-> Nobody]
  /\ pc = [p \in Procs |-> IF p \in Callers THEN "look" ELSE "idle"]
  /\ seen = [p \in Callers |-> NoRecord]
  /\ want = [p \in Callers |-> "none"]
  /\ result = [p \in Callers |-> "none"]
  /\ outcome = [p \in Callers |-> "none"]
  /\ crashes = 0 /\ failures = 0 /\ cancels = 0

LeaderStep(p) ==
  \/ Enter(p) \/ Announce(p) \/ Reuse(p) \/ Miss(p) \/ Compile(p)
  \/ ShouldAbort(p) \/ Terminate(p) \/ Finish(p)

FollowerStep(p) ==
  \/ Join(p) \/ StopWaiting(p) \/ AttemptEnded(p) \/ Poll(p) \/ Probe(p) \/ Mark(p)

CallerStep(p) ==
  \/ GiveUp(p) \/ Look(p) \/ ShareFailure(p) \/ Elect(p)
  \/ LeaderStep(p) \/ FollowerStep(p) \/ Release(p) \/ Leave(p)

CleanerStep(c) ==
  CheckActive(c) \/ BeginClear(c) \/ ClearEntry(c) \/ Cleared(c) \/ Release(c)

Next ==
  \/ \E p \in Callers : CallerStep(p)
  \/ \E c \in Cleaners : TryClean(c) \/ CleanerStep(c)
  \/ \E p \in Callers, why \in Reasons : Cancel(p, why)
  \/ \E p \in Procs : Crash(p)

Spec == Init /\ [][Next]_vars

\* A running process takes its next step unless it dies; compilers end.
Fairness ==
  /\ \A p \in Callers : WF_vars(CallerStep(p))
  /\ \A c \in Cleaners : WF_vars(CleanerStep(c))

FairSpec == Spec /\ Fairness

-----------------------------------------------------------------------------
(* Properties                                                                 *)

CallerPc == {"look", "count", "elect", "enter", "announce", "build", "compile", "terminate", "finish",
             "release", "leave", "join", "wait", "probe", "mark"}
CleanerPc == {"check", "clear", "clearing", "release"}
Outcomes == {"none", "built", "followed", "failed", "abandoned", "cancelled", "superseded",
             "unverified", "lost"}

\* Every variable keeps its type.
TypeOK ==
  /\ outputLock \in Procs \union {Nobody}
  /\ record \in [Kinds -> Records]
  /\ subscribers \in [Callers -> SUBSET Callers]
  /\ output \in [Kinds -> Callers \union {Nobody}]
  /\ pc \in [Procs -> {"idle", "done", "crashed"} \union CallerPc \union CleanerPc]
  /\ \A p \in Callers : pc[p] \notin {"check", "clear", "clearing"}
  /\ \A c \in Cleaners : pc[c] \in {"idle", "done", "crashed"} \union CleanerPc
  /\ seen \in [Callers -> Records]
  /\ \A p \in Callers : pc[p] \in {"count", "join", "wait", "probe"} => seen[p] # NoRecord
  /\ want \in [Callers -> Reasons \union {"none"}]
  /\ result \in [Callers -> {"none", "ok", "failed"} \union Reasons]
  /\ outcome \in [Callers -> Outcomes]
  /\ crashes \in Nat /\ failures \in Nat /\ cancels \in Nat

\* A leader is never fenced off its own attempt: as long as it builds, the record
\* is its announcement and the lock is its own, whatever waiters that think it
\* dead, other kinds of build and the cache cleaner do.
LeaderOwnsRecord ==
  \A p \in Callers :
    pc[p] \in {"build", "compile", "terminate", "finish"} => Owns(p) /\ outputLock = p

\* Types, and no leader is fenced off.
Inv == TypeOK /\ LeaderOwnsRecord

\* Verified artifacts are not built over: they change only by eviction.
BuiltOnce ==
  [][\A k \in Kinds : output[k] # Nobody => output'[k] \in {output[k], Nobody}]_vars

\* A waiter that finds the output lock free records an attempt as abandoned only
\* when the leader of that attempt died, and never over an end that was published.
AbandonedMeansDead ==
  [][\A k \in Kinds :
       record'[k] # record[k] /\ record'[k].error \in {"abandoned", "stale"}
         => record[k].state = "building" /\ pc[record[k].attempt] = "crashed"]_vars

\* A call returns success only over artifacts that are there at that moment,
\* even when an eviction stopped half way.
SuccessIsVerified ==
  [][\A p \in Callers :
       outcome'[p] # outcome[p] /\ outcome'[p] \in {"built", "followed"} => Verified(p)]_vars

\* Artifacts are built once, and believed only when they are verified.
OutputIsVerified == BuiltOnce /\ SuccessIsVerified

\* The cleaner does not take from a waiting follower the output of the attempt
\* it waits for.
WaiterKeepsOutput == \A p \in Callers : outcome[p] # "unverified"

\* The cancellation of one caller is not the error of another.
CancellationIsOwn ==
  \A p \in Callers : outcome[p] \in Reasons => want[p] # "none"

\* What a call returns is not the doing of another: neither the cleaner nor
\* another caller's cancellation.
OutcomeIsOwn == WaiterKeepsOutput /\ CancellationIsOwn

\* Every call returns, whoever dies and whenever the cleaner runs.
EveryCallReturns == <>(\A p \in Callers : pc[p] \in {"done", "crashed"})

=============================================================================
