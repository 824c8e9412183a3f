------------------------------ MODULE DeviceLease ------------------------------
(***************************************************************************)
(* Sessions of several processes want the same device.  A session holds the *)
(* lease through an exclusive lock of the operating system, and publishes  *)
(* itself in an owner record next to the lock.  A thread refreshes the     *)
(* record; every workload on the device reads it before and after.  A      *)
(* session may hand the lease to a child process, which only reads the     *)
(* record.                                                                 *)
(*                                                                         *)
(* The record carries a random fencing token per session, so the token and *)
(* the session go by one name.  Replacing the record takes two steps: the  *)
(* old file is removed, then the new one is put in its place.              *)
(***************************************************************************)
EXTENDS Naturals

CONSTANTS
  Sessions,    \* DeviceLeaseSession::acquire, for one device
  Nobody,
  MaxCrashes,  \* sessions and children that die
  MaxFaults    \* file operations that fail

ASSUME ConstantsAssumption ==
  Nobody \notin Sessions /\ MaxCrashes \in Nat /\ MaxFaults \in Nat

VARIABLES
  lock,        \* the session whose process holds the lock file
  owner,       \* the session in the owner record; Nobody when there is none
  pc,          \* the thread that works
  hb,          \* the heartbeat thread
  hbFailed,    \* heartbeat_error
  child,       \* the child process the lease was delegated to
  overlapped,  \* history: another session held the lease and worked during
               \* the workload of the child
  crashes, faults

session == <<pc, hb, hbFailed>>
bounds  == <<crashes, faults>>
vars    == <<lock, owner, session, child, overlapped, bounds>>

Live    == {"held", "ready", "working"}
Ending  == {"ending", "release", "remove", "unlock"}
Go(s, to) == pc' = [pc EXCEPT ![s] = to]

\* A file operation fails.
Fault == faults < MaxFaults /\ faults' = faults + 1 /\ UNCHANGED crashes

-----------------------------------------------------------------------------
(* DeviceLease::acquire and DeviceLeaseSession::start                         *)

\* Mutant of Acquire: an old record is taken for a free lock.
AcquireSuspect(s) ==
  /\ pc[s] = "start"
  /\ lock' = s /\ Go(s, "locked")
  /\ UNCHANGED <<owner, hb, hbFailed, child, overlapped, bounds>>

Acquire(s) ==
  /\ pc[s] = "start"
  /\ IF lock = Nobody
     THEN lock' = s /\ Go(s, "locked")
     ELSE UNCHANGED lock /\ Go(s, "done")
  /\ UNCHANGED <<owner, hb, hbFailed, child, overlapped, bounds>>

\* The record of an earlier session is removed.
Unpublish(s) ==
  /\ pc[s] = "locked"
  /\ \/ owner' = Nobody /\ Go(s, "publish") /\ UNCHANGED <<lock, bounds>>
     \/ Fault /\ lock' = Nobody /\ Go(s, "done") /\ UNCHANGED owner
  /\ UNCHANGED <<hb, hbFailed, child, overlapped>>

\* Mutant of Publish: no heartbeat is started.
PublishOnce(s) ==
  /\ pc[s] = "publish"
  /\ \/ owner' = s /\ Go(s, "held") /\ UNCHANGED <<lock, hb, bounds>>
     \/ Fault /\ lock' = Nobody /\ Go(s, "done") /\ UNCHANGED <<owner, hb>>
  /\ UNCHANGED <<hbFailed, child, overlapped>>

\* The last disjunct: the thread does not start and the lease is dropped.
Publish(s) ==
  /\ pc[s] = "publish"
  /\ \/ /\ owner' = s /\ Go(s, "held") /\ hb' = [hb EXCEPT ![s] = "waits"]
        /\ UNCHANGED <<lock, bounds>>
     \/ Fault /\ lock' = Nobody /\ Go(s, "done") /\ UNCHANGED <<owner, hb>>
     \/ Fault /\ owner' = s /\ Go(s, "release") /\ UNCHANGED <<lock, hb>>
  /\ UNCHANGED <<hbFailed, child, overlapped>>

-----------------------------------------------------------------------------
(* The heartbeat.  It holds the mutex of the lease while it writes.           *)

Stopping(s) == pc[s] \in Ending

BeatFails(s) ==
  /\ hbFailed' = [hbFailed EXCEPT ![s] = TRUE]
  /\ hb' = [hb EXCEPT ![s] = "ended"]

Beat(s) ==
  /\ hb[s] = "waits" /\ ~Stopping(s)
  /\ \/ /\ owner = s /\ owner' = Nobody
        /\ hb' = [hb EXCEPT ![s] = "publish"]
        /\ UNCHANGED <<hbFailed, bounds>>
     \/ owner = s /\ Fault /\ BeatFails(s) /\ UNCHANGED owner
     \/ owner # s /\ BeatFails(s) /\ UNCHANGED <<owner, bounds>>
  /\ UNCHANGED <<lock, pc, child, overlapped>>

BeatPublish(s) ==
  /\ hb[s] = "publish"
  /\ \/ owner' = s /\ hb' = [hb EXCEPT ![s] = "waits"] /\ UNCHANGED <<hbFailed, bounds>>
     \/ Fault /\ BeatFails(s) /\ UNCHANGED owner
  /\ UNCHANGED <<lock, pc, child, overlapped>>

\* Mutant of BeatStop: the flag is not looked at after the wait.
BeatOnAndOn(s) ==
  /\ hb[s] = "waits" /\ Stopping(s)
  /\ UNCHANGED vars

BeatStop(s) ==
  /\ hb[s] = "waits" /\ Stopping(s)
  /\ hb' = [hb EXCEPT ![s] = "ended"]
  /\ UNCHANGED <<lock, owner, pc, hbFailed, child, overlapped, bounds>>

-----------------------------------------------------------------------------
(* Workloads: execute, and the assertions of the live loop                    *)

Working(s) == pc[s] = "working" \/ child[s] = "working"

\* A workload of s begins: when s holds the lease, the children of earlier
\* sessions that still work are disturbed.
Disturb(s) ==
  [t \in Sessions |-> overlapped[t] \/ (lock = s /\ t # s /\ child[t] = "working")]

\* assert_owned: the error of the heartbeat, then the record under the mutex.
Owned(s) == ~hbFailed[s] /\ owner = s

Before(s) ==
  /\ pc[s] = "held" /\ hb[s] # "publish"
  /\ Go(s, IF Owned(s) THEN "ready" ELSE "ending")
  /\ UNCHANGED <<lock, owner, hb, hbFailed, child, overlapped, bounds>>

Begin(s) ==
  /\ pc[s] = "ready"
  /\ Go(s, "working")
  /\ overlapped' = Disturb(s)
  /\ UNCHANGED <<lock, owner, hb, hbFailed, child, bounds>>

After(s) ==
  /\ pc[s] = "working" /\ hb[s] # "publish"
  /\ Go(s, IF Owned(s) THEN "held" ELSE "ending")
  /\ UNCHANGED <<lock, owner, hb, hbFailed, child, overlapped, bounds>>

-----------------------------------------------------------------------------
(* Release and drop: the child is killed, the heartbeat joined, the record    *)
(* removed when it is the own one, and then the lock is given up.             *)

Stop(s) ==
  /\ pc[s] = "held"
  /\ Go(s, "ending")
  /\ child' = [child EXCEPT ![s] = IF @ = "none" THEN @ ELSE "killed"]
  /\ UNCHANGED <<lock, owner, hb, hbFailed, overlapped, bounds>>

\* Mutant of Join: does not wait for the thread.
JoinEarly(s) ==
  /\ pc[s] = "ending"
  /\ Go(s, "release")
  /\ child' = [child EXCEPT ![s] = IF @ = "none" THEN @ ELSE "killed"]
  /\ UNCHANGED <<lock, owner, hb, hbFailed, overlapped, bounds>>

\* A session that lost its lease comes here without Stop.
Join(s) ==
  /\ pc[s] = "ending" /\ hb[s] = "ended"
  /\ Go(s, "release")
  /\ child' = [child EXCEPT ![s] = IF @ = "none" THEN @ ELSE "killed"]
  /\ UNCHANGED <<lock, owner, hb, hbFailed, overlapped, bounds>>

CheckOwner(s) ==
  /\ pc[s] = "release"
  /\ Go(s, IF owner = s THEN "remove" ELSE "unlock")
  /\ UNCHANGED <<lock, owner, hb, hbFailed, child, overlapped, bounds>>

Remove(s) ==
  /\ pc[s] = "remove"
  /\ \/ owner' = Nobody /\ UNCHANGED bounds
     \/ Fault /\ UNCHANGED owner
  /\ Go(s, "unlock")
  /\ UNCHANGED <<lock, hb, hbFailed, child, overlapped>>

Unlock(s) ==
  /\ pc[s] = "unlock"
  /\ lock' = Nobody
  /\ Go(s, "done")
  /\ UNCHANGED <<owner, hb, hbFailed, child, overlapped, bounds>>

-----------------------------------------------------------------------------
(* The child: from_delegation and its workloads                               *)

Spawn(s) ==
  /\ pc[s] = "held" /\ child[s] = "none"
  /\ child' = [child EXCEPT ![s] = "opens"]
  /\ UNCHANGED <<lock, owner, session, overlapped, bounds>>

\* Reads the record as it is, whatever the heartbeat is doing.
ReadsOwner(s, from, to) ==
  /\ child[s] = from
  /\ child' = [child EXCEPT ![s] = IF owner = s THEN to ELSE "lost"]
  /\ UNCHANGED <<lock, owner, session, overlapped, bounds>>

ChildOpen(s)   == ReadsOwner(s, "opens", "idle")
ChildBefore(s) == ReadsOwner(s, "idle", "ready")

ChildBegin(s) ==
  /\ child[s] = "ready"
  /\ child' = [child EXCEPT ![s] = "working"]
  /\ overlapped' = [Disturb(s) EXCEPT ![s] = \E t \in Sessions \ {s} : lock = t /\ Working(t)]
  /\ UNCHANGED <<lock, owner, session, bounds>>

\* Mutant of ChildAfter: the record is not read after the workload.
ChildAfterUnread(s) ==
  /\ child[s] = "working"
  /\ child' = [child EXCEPT ![s] = "idle"]
  /\ UNCHANGED <<lock, owner, session, overlapped, bounds>>

ChildAfter(s) == ReadsOwner(s, "working", "idle")

-----------------------------------------------------------------------------
Dies(s) == crashes < MaxCrashes /\ crashes' = crashes + 1 /\ UNCHANGED faults

\* The system frees the lock; the record and the child stay.
Crash(s) ==
  /\ pc[s] \notin {"start", "done", "crashed"} /\ Dies(s)
  /\ lock' = IF lock = s THEN Nobody ELSE lock
  /\ Go(s, "crashed") /\ hb' = [hb EXCEPT ![s] = "ended"]
  /\ UNCHANGED <<owner, hbFailed, child, overlapped>>

ChildCrash(s) ==
  /\ child[s] \notin {"none", "lost", "killed"} /\ Dies(s)
  /\ child' = [child EXCEPT ![s] = "killed"]
  /\ UNCHANGED <<lock, owner, session, overlapped>>

Init ==
  /\ lock = Nobody /\ owner = Nobody
  /\ pc = [s \in Sessions |-> "start"]
  /\ hb = [s \in Sessions |-> "ended"]
  /\ hbFailed = [s \in Sessions |-> FALSE]
  /\ child = [s \in Sessions |-> "none"]
  /\ overlapped = [s \in Sessions |-> FALSE]
  /\ crashes = 0 /\ faults = 0

AcquireStep(s) == Acquire(s) \/ Unpublish(s) \/ Publish(s)
Heartbeat(s)   == Beat(s) \/ BeatPublish(s) \/ BeatStop(s)
Workload(s)    == Before(s) \/ Begin(s) \/ After(s)
ReleaseStep(s) == Join(s) \/ CheckOwner(s) \/ Remove(s) \/ Unlock(s)
ChildStep(s)   == ChildOpen(s) \/ ChildBefore(s) \/ ChildBegin(s) \/ ChildAfter(s)

Next ==
  \E s \in Sessions :
    \/ AcquireStep(s) \/ Heartbeat(s) \/ Workload(s)
    \/ Stop(s) \/ ReleaseStep(s) \/ Spawn(s) \/ ChildStep(s)
    \/ Crash(s) \/ ChildCrash(s)

Spec == Init /\ [][Next]_vars

\* The heartbeat wakes at the latest when its interval is over, and a release,
\* once begun, goes on.  A workload may last for ever.
FairSpec ==
  Spec /\ \A s \in Sessions : WF_vars(Heartbeat(s)) /\ WF_vars(ReleaseStep(s))

-----------------------------------------------------------------------------
(* Properties                                                                 *)

\* Every variable keeps its type, and a lease that is held has its heartbeat.
TypeOK ==
  /\ lock \in Sessions \union {Nobody}
  /\ owner \in Sessions \union {Nobody}
  /\ pc \in [Sessions -> {"start", "locked", "publish", "done", "crashed"} \union Live \union Ending]
  /\ hb \in [Sessions -> {"waits", "publish", "ended"}]
  /\ hbFailed \in [Sessions -> BOOLEAN]
  /\ \A s \in Sessions : pc[s] \in Live => hb[s] # "ended" \/ hbFailed[s]
  /\ child \in [Sessions -> {"none", "opens", "idle", "ready", "working", "lost", "killed"}]
  /\ overlapped \in [Sessions -> BOOLEAN]
  /\ crashes \in Nat /\ faults \in Nat

\* A session that lives and whose heartbeat works is never fenced off its own
\* lease: nobody else replaces or removes its record, be it a session that is
\* on its way in, one that is on its way out, or one thought dead.
LeaseFenced ==
  \A s \in Sessions :
    pc[s] \in Live /\ ~hbFailed[s] /\ hb[s] # "publish" => owner = s

\* A session that is gone leaves no record behind: a late heartbeat does not
\* write it again.  Only a crash or a failed file operation leaves it.
NoOwnerAfterRelease ==
  \A s \in Sessions : pc[s] = "done" /\ owner = s => faults > 0

\* A child whose session died may still work while the next session does.  It
\* is told: no workload of its own that the next session disturbed is a success.
OverlapIsDetected ==
  [][\A s \in Sessions :
       child[s] = "working" /\ child'[s] = "idle" => ~overlapped[s]]_vars

\* A release that was begun ends.
ReleaseEnds ==
  \A s \in Sessions : pc[s] = "ending" ~> pc[s] \in {"done", "crashed"}

=============================================================================
