----------------------------- MODULE ActionDelivery -----------------------------
(***************************************************************************)
(* UI actions of a live session: a control connection submits one, the     *)
(* heartbeat thread delivers it to the connection of the app that owns the *)
(* window, the app executes it and the reader thread of its connection     *)
(* settles the operation.  Deadlines pass, clients cancel, connections are  *)
(* lost and the running revision changes, at any moment.                   *)
(*                                                                         *)
(* The operation store, the queue of undelivered requests and the map of   *)
(* deliveries have one mutex each; a step is what a thread does under one  *)
(* of them.  The event that announces a transition is part of its step.    *)
(*                                                                         *)
(* An operation goes by its request.  The clock is one fact per action:    *)
(* its deadline is due.                                                    *)
(***************************************************************************)
EXTENDS Naturals, FiniteSets, Sequences, SequencesExt

CONSTANTS
  Actions,    \* requests to act
  Controls,   \* control connections, each handles one request at a time
  Conns,      \* connections of the app
  Heart, Live,   \* the heartbeat thread and the live loop
  None,
  MaxActive,  \* MAX_ACTIVE_OPERATIONS
  MaxCancels, \* bound on cancellations
  QueueSize   \* MAX_ACTION_QUEUE

Threads == Controls \union Conns \union {Heart, Live}

ASSUME ConstantsAssumption ==
  /\ Heart # Live
  /\ {Heart, Live} \intersect (Controls \union Conns) = {} /\ Controls \intersect Conns = {}
  /\ None \notin Actions \union Conns
  /\ MaxCancels \in Nat /\ MaxActive \in Nat \ {0} /\ QueueSize \in Nat \ {0}

VARIABLES
  status,      \* the operation store; "none" before submission
  due,         \* actions whose deadline is not in the future any more
  queue,       \* action_dispatches
  deliveries,  \* action_deliveries
  target,      \* the connection a request is for
  owner,       \* the connection that registered the window last
  app,         \* what the app does with an action
  pc, then,    \* where a thread is, and goes after expire_operations
  now, took,   \* expire_operations: what is due, and the deliveries taken out
  job,         \* the action a thread works on
  todo,        \* a lost connection: its actions that are not settled yet
  cancels,     \* cancellations so far
  batch, ready \* the heartbeat: requests taken, and found fit for delivery

store  == <<status, queue, deliveries>>
world  == <<due, owner, app>>
sweep  == <<then, now, took>>
rounds == <<todo, batch, ready>>
vars   == <<store, target, world, pc, sweep, job, rounds, cancels>>

Active == {"queued", "running"}
Executed == {"hit", "late"}
Ended  == {"succeeded", "failed", "cancelled", "timed_out", "unknown"}

\* VecDeque::retain: a queue without the actions of a set.
Without(s, S) ==
  LET kept[i \in 0 .. Len(s)] ==
        IF i = 0 THEN <<>>
        ELSE IF s[i] \in S THEN kept[i - 1] ELSE Append(kept[i - 1], s[i])
  IN  kept[Len(s)]

Go(t, to) == pc' = [pc EXCEPT ![t] = to]
Takes(t, a) == job' = [job EXCEPT ![t] = a]

Connected(c) == pc[c] \in {"read", "take", "accept"}

-----------------------------------------------------------------------------
(* The operation store                                                        *)

\* expire_locked, also on behalf of prune_locked: it knows no deliveries.
Expired(st, late) ==
  [a \in Actions |-> IF a \in late /\ st[a] \in Active THEN "timed_out" ELSE st[a]]

\* Mutant of Finished: a late result is taken as it is.
FinishedLate(st, a, v, late) ==
  IF st[a] = "running" THEN [st EXCEPT ![a] = v] ELSE st

\* finish
Finished(st, a, v, late) ==
  LET x == Expired(st, late) IN IF x[a] = "running" THEN [x EXCEPT ![a] = v] ELSE x

\* finish_unknown looks at no deadline.
Unknown(st, a) == IF st[a] = "running" THEN [st EXCEPT ![a] = "unknown"] ELSE st

\* Somebody reads the store: get, find_observation, a repeated request.
Read ==
  /\ status' = Expired(status, due)
  /\ UNCHANGED <<queue, deliveries, target, world, pc, sweep, job, rounds, cancels>>

-----------------------------------------------------------------------------
(* expire_operations, called by every thread                                  *)

Sweep(t, next) == Go(t, "sweep") /\ then' = [then EXCEPT ![t] = next] /\ UNCHANGED <<now, took>>

\* Mutant of MaySweep: the live loop does not look at deadlines.
MaySweepOthers(t) == pc[t] = "sweep"

\* The live loop does nothing else.
MaySweep(t) == pc[t] = (IF t = Live THEN "idle" ELSE "sweep")

\* What a sweep can change: an action that ended and is not delivered stays so.
Stale == {a \in due : a \in deliveries \/ status[a] \in Active}

\* Mutant of TakeDue: the deliveries of operations that ended are kept.
TakeDueRunning(t) ==
  /\ MaySweep(t) /\ Stale # {}
  /\ now' = [now EXCEPT ![t] = Stale]
  /\ took' = [took EXCEPT ![t] = {a \in deliveries \intersect due : status[a] = "running"}]
  /\ deliveries' = deliveries \ {a \in due : status[a] = "running"}
  /\ Go(t, "settle")
  /\ UNCHANGED <<status, queue, target, world, then, job, rounds, cancels>>

TakeDue(t) ==
  /\ MaySweep(t) /\ Stale # {}
  /\ now' = [now EXCEPT ![t] = Stale]
  /\ took' = [took EXCEPT ![t] = deliveries \intersect due]
  /\ deliveries' = deliveries \ due
  /\ Go(t, "settle")
  /\ UNCHANGED <<status, queue, target, world, then, job, rounds, cancels>>

NothingDue(t) ==
  /\ MaySweep(t) /\ Stale = {}
  /\ Go(t, then[t]) /\ then' = [then EXCEPT ![t] = "idle"]
  /\ UNCHANGED <<store, target, world, now, took, job, rounds, cancels>>

\* Each delivery taken out becomes unknown, then the rest of what was due then is
\* timed out.  These are calls of the store one after the other.
Expire(t) ==
  /\ pc[t] = "settle"
  /\ status' = Expired([a \in Actions |-> IF a \in took[t] THEN Unknown(status, a)[a] ELSE status[a]], now[t])
  /\ now' = [now EXCEPT ![t] = {}] /\ took' = [took EXCEPT ![t] = {}]
  /\ then' = [then EXCEPT ![t] = "idle"] /\ Go(t, then[t])
  /\ UNCHANGED <<queue, deliveries, target, world, job, rounds, cancels>>

\* finish_operation(Failed), after its expire_operations.
After(t) == IF t \in Conns THEN "refuse" ELSE "idle"

Fail(t) ==
  /\ pc[t] = "fail"
  /\ status' = Finished(status, job[t], "failed", due)
  /\ Go(t, After(t)) /\ Takes(t, None)
  /\ UNCHANGED <<queue, deliveries, target, world, sweep, rounds, cancels>>

-----------------------------------------------------------------------------
(* submit_action                                                              *)

\* The store prunes and admits; then the observation and the window are looked
\* at, and tell where the action goes.
Submit(k, a) ==
  /\ pc[k] = "idle" /\ status[a] = "none"
  /\ LET st == Expired(status, due)
         busy == Cardinality({b \in Actions : st[b] \in Active}) >= MaxActive
     IN  IF busy
         THEN status' = st /\ UNCHANGED <<target, pc, sweep, job>>
         ELSE /\ status' = [st EXCEPT ![a] = "queued"]
              /\ Takes(k, a)
              /\ \/ /\ owner # None /\ target' = [target EXCEPT ![a] = owner]
                    /\ Sweep(k, "start")
                 \/ UNCHANGED target /\ Sweep(k, "refused")
  /\ UNCHANGED <<queue, deliveries, world, rounds, cancels>>

Started(a) ==
  LET x == Expired(status, due) IN IF x[a] = "queued" THEN [x EXCEPT ![a] = "running"] ELSE x

Start(k) ==
  /\ pc[k] = "start"
  /\ status' = Started(job[k])
  /\ IF status'[job[k]] = "running"
     THEN Go(k, "push") /\ UNCHANGED job
     ELSE Go(k, "idle") /\ Takes(k, None)
  /\ UNCHANGED <<queue, deliveries, target, world, sweep, rounds, cancels>>

\* Mutant of Push: the queue has no limit.
PushUnbounded(k) ==
  /\ pc[k] = "push"
  /\ queue' = Append(queue, job[k]) /\ Go(k, "idle") /\ Takes(k, None)
  /\ UNCHANGED <<status, deliveries, target, world, sweep, rounds, cancels>>

Push(k) ==
  /\ pc[k] = "push"
  /\ IF Len(queue) >= QueueSize
     THEN Sweep(k, "refused") /\ UNCHANGED <<queue, job>>
     ELSE queue' = Append(queue, job[k]) /\ Go(k, "idle") /\ Takes(k, None) /\ UNCHANGED sweep
  /\ UNCHANGED <<status, deliveries, target, world, rounds, cancels>>

\* fail_admitted_action: an action that was not started is started first.
Refuse(k) ==
  /\ pc[k] = "refused"
  /\ status' = Started(job[k])
  /\ Sweep(k, "fail")
  /\ UNCHANGED <<queue, deliveries, target, world, job, rounds, cancels>>

-----------------------------------------------------------------------------
(* The heartbeat: take_action_dispatches, mark_action_dispatched, send_to     *)

Drain ==
  /\ pc[Heart] = "idle" /\ batch = <<>> /\ ready = <<>> /\ queue # <<>>
  /\ batch' = queue /\ queue' = <<>>
  /\ UNCHANGED <<status, deliveries, target, world, pc, sweep, job, todo, ready, cancels>>

\* Reads the operation, then compares run, revision, window, epoch and owner.
Judge ==
  /\ pc[Heart] = "idle" /\ batch # <<>>
  /\ status' = Expired(status, due)
  /\ batch' = Tail(batch)
  /\ LET a == Head(batch)
         stays(ok) == ready' = (IF ok THEN Append(ready, a) ELSE ready) /\ UNCHANGED <<pc, sweep, job>>
     IN  \/ status'[a] # "running" /\ stays(FALSE)
         \/ status'[a] = "running" /\ owner = target[a] /\ stays(TRUE)
         \/ status'[a] = "running" /\ UNCHANGED ready /\ Sweep(Heart, "fail") /\ Takes(Heart, a)
  /\ UNCHANGED <<queue, deliveries, target, world, todo, cancels>>

MarkCheck ==
  /\ pc[Heart] = "idle" /\ batch = <<>> /\ ready # <<>>
  /\ status' = Expired(status, due)
  /\ IF status'[Head(ready)] = "running"
     THEN Go(Heart, "mark") /\ UNCHANGED ready
     ELSE ready' = Tail(ready) /\ UNCHANGED pc
  /\ UNCHANGED <<queue, deliveries, target, world, sweep, job, todo, batch, cancels>>

Mark ==
  /\ pc[Heart] = "mark"
  /\ deliveries' = deliveries \union {Head(ready)}
  /\ Go(Heart, "send")
  /\ UNCHANGED <<status, queue, target, world, sweep, job, rounds, cancels>>

\* The frame goes into the queue of the writer, which may be full or gone.  The
\* app rejects one whose deadline is over when it comes.
Send ==
  /\ pc[Heart] = "send"
  /\ LET a == Head(ready) IN
     \/ /\ Connected(target[a])
        /\ app' = [app EXCEPT ![a] = IF a \in due THEN "rejected" ELSE "sent"]
        /\ ready' = Tail(ready) /\ Go(Heart, "idle")
     \/ UNCHANGED <<app, ready>> /\ Go(Heart, "unmark")
  /\ UNCHANGED <<store, target, due, owner, sweep, job, todo, batch, cancels>>

\* fail_action_delivery
Unmark ==
  /\ pc[Heart] = "unmark"
  /\ deliveries' = deliveries \ {Head(ready)}
  /\ ready' = Tail(ready)
  /\ Sweep(Heart, "fail") /\ Takes(Heart, Head(ready))
  /\ UNCHANGED <<status, queue, target, world, todo, batch, cancels>>

-----------------------------------------------------------------------------
(* The app: it checks the deadline, dispatches to the window and reports      *)

Reject(a) ==
  /\ app[a] = "sent"
  /\ app' = [app EXCEPT ![a] = "rejected"]
  /\ UNCHANGED <<store, target, due, owner, pc, sweep, job, rounds, cancels>>

\* The window gets the event, before the deadline or when it has just passed.
Execute(a) ==
  /\ app[a] = "sent"
  /\ app' = [app EXCEPT ![a] = IF a \in due THEN "late" ELSE "hit"]
  /\ UNCHANGED <<store, target, due, owner, pc, sweep, job, rounds, cancels>>

-----------------------------------------------------------------------------
(* The reader of a connection: accept_action_result                           *)

Connect(c) ==
  /\ pc[c] = "idle"
  /\ owner' = c
  /\ Go(c, "read")
  /\ UNCHANGED <<store, target, due, app, sweep, job, rounds, cancels>>

\* The result of a delivery of this connection arrives; one that never does, or
\* that names another run, revision or target, changes nothing.
Lookup(c, a) ==
  /\ pc[c] = "read" /\ target[a] = c
  /\ app[a] \in {"rejected"} \union Executed /\ a \in deliveries
  /\ Go(c, "take") /\ Takes(c, a)
  /\ UNCHANGED <<store, target, world, sweep, rounds, cancels>>

Take(c) ==
  /\ pc[c] = "take"
  /\ deliveries' = deliveries \ {job[c]}
  /\ Go(c, "accept")
  /\ UNCHANGED <<status, queue, target, world, sweep, job, rounds, cancels>>

\* A success is booked at the time the app reports, in the worst case the very
\* millisecond of the deadline; without the target's confirmation, or after the
\* deadline, it is unknown; a rejection is booked now.
Settle(c) ==
  /\ pc[c] = "accept"
  /\ LET a == job[c] IN
     \/ app[a] = "rejected" /\ status' = Finished(status, a, "failed", due)
     \/ /\ app[a] \in Executed
        /\ \E before \in SUBSET (due \ {a}) :
             status' = Finished(status, a, "succeeded",
                                before \union (IF app[a] = "late" THEN {a} ELSE {}))
     \/ app[a] \in Executed /\ status' = Unknown(status, a)
  /\ Go(c, "read") /\ Takes(c, None)
  /\ UNCHANGED <<queue, deliveries, target, world, sweep, rounds, cancels>>

-----------------------------------------------------------------------------
(* The connection is lost: action_connection_disconnected                     *)

Lose(c) ==
  /\ pc[c] = "read"
  /\ Go(c, "sever")
  /\ UNCHANGED <<store, target, world, sweep, job, rounds, cancels>>

Sever(c) ==
  /\ pc[c] = "sever"
  /\ todo' = [todo EXCEPT ![c] = {a \in deliveries : target[a] = c}]
  /\ deliveries' = {a \in deliveries : target[a] # c}
  /\ Go(c, "severed")
  /\ UNCHANGED <<status, queue, target, world, sweep, job, batch, ready, cancels>>

\* Mutant of SettleLost: what was delivered is taken for not executed.
FailLost(c, a) ==
  /\ pc[c] = "severed" /\ a \in todo[c]
  /\ status' = Finished(status, a, "failed", due)
  /\ todo' = [todo EXCEPT ![c] = @ \ {a}]
  /\ UNCHANGED <<queue, deliveries, target, world, pc, sweep, job, batch, ready, cancels>>

SettleLost(c, a) ==
  /\ pc[c] = "severed" /\ a \in todo[c]
  /\ status' = Unknown(status, a)
  /\ todo' = [todo EXCEPT ![c] = @ \ {a}]
  /\ UNCHANGED <<queue, deliveries, target, world, pc, sweep, job, batch, ready, cancels>>

For(c, a) == target[a] = c

Withdraw(c) ==
  /\ pc[c] = "severed" /\ todo[c] = {}
  /\ todo' = [todo EXCEPT ![c] = {a \in ToSet(queue) : For(c, a)}]
  /\ queue' = Without(queue, {a \in Actions : For(c, a)})
  /\ Go(c, "refuse")
  /\ UNCHANGED <<status, deliveries, target, world, sweep, job, batch, ready, cancels>>

RefuseLost(c, a) ==
  /\ pc[c] = "refuse" /\ a \in todo[c]
  /\ todo' = [todo EXCEPT ![c] = @ \ {a}]
  /\ deliveries' = deliveries \ {a}
  /\ Sweep(c, "fail") /\ Takes(c, a)
  /\ UNCHANGED <<status, queue, target, world, batch, ready, cancels>>

Closed(c) ==
  /\ pc[c] = "refuse" /\ todo[c] = {}
  /\ Go(c, "done")
  /\ UNCHANGED <<store, target, world, sweep, job, rounds, cancels>>

-----------------------------------------------------------------------------
(* operation.cancel                                                           *)

Cancel(k, a) ==
  /\ pc[k] = "idle" /\ status[a] # "none" /\ cancels < MaxCancels
  /\ cancels' = cancels + 1
  /\ Takes(k, a) /\ Sweep(k, "cancel")
  /\ UNCHANGED <<store, target, world, rounds>>

\* A delivered action is taken out, any other one out of the queue.
TakeBack(k) ==
  /\ pc[k] = "cancel"
  /\ deliveries' = deliveries \ {job[k]}
  /\ Go(k, IF job[k] \in deliveries THEN "disown" ELSE "unqueue")
  /\ UNCHANGED <<status, queue, target, world, sweep, job, rounds, cancels>>

Disown(k) ==
  /\ pc[k] = "disown"
  /\ status' = Unknown(status, job[k])
  /\ Go(k, "idle") /\ Takes(k, None)
  /\ UNCHANGED <<queue, deliveries, target, world, sweep, rounds, cancels>>

Unqueue(k) ==
  /\ pc[k] = "unqueue"
  /\ queue' = Without(queue, {job[k]})
  /\ Sweep(k, "stop")
  /\ UNCHANGED <<status, deliveries, target, world, job, rounds, cancels>>

Stop(k) ==
  /\ pc[k] = "stop"
  /\ LET x == Expired(status, due)
     IN  status' = IF x[job[k]] \in Active THEN [x EXCEPT ![job[k]] = "cancelled"] ELSE x
  /\ Go(k, "idle") /\ Takes(k, None)
  /\ UNCHANGED <<queue, deliveries, target, world, sweep, rounds, cancels>>

-----------------------------------------------------------------------------
(* Time                                                                       *)

\* The clock of an action that ended and is not delivered concerns nobody.
Pass(a) ==
  /\ status[a] \in Active \/ a \in deliveries
  /\ a \notin due /\ due' = due \union {a}
  /\ UNCHANGED <<store, target, owner, app, pc, sweep, job, rounds, cancels>>

-----------------------------------------------------------------------------
Init ==
  /\ status = [a \in Actions |-> "none"]
  /\ due = {}
  /\ queue = <<>> /\ deliveries = {}
  /\ target = [a \in Actions |-> None]
  /\ owner = None /\ app = [a \in Actions |-> "none"]
  /\ pc = [t \in Threads |-> "idle"]
  /\ then = [t \in Threads |-> "idle"]
  /\ now = [t \in Threads |-> {}] /\ took = [t \in Threads |-> {}]
  /\ job = [t \in Threads |-> None]
  /\ todo = [c \in Conns |-> {}] /\ batch = <<>> /\ ready = <<>> /\ cancels = 0

SweepStep(t)  == NothingDue(t) \/ TakeDue(t) \/ Expire(t)
ControlStep(k) ==
  \/ Start(k) \/ Push(k) \/ Refuse(k) \/ Fail(k)
  \/ TakeBack(k) \/ Disown(k) \/ Unqueue(k) \/ Stop(k) \/ SweepStep(k)
HeartStep     == Drain \/ Judge \/ MarkCheck \/ Mark \/ Send \/ Unmark \/ Fail(Heart) \/ SweepStep(Heart)
ReaderStep(c) ==
  \/ \E a \in Actions : Lookup(c, a) \/ SettleLost(c, a) \/ RefuseLost(c, a)
  \/ Take(c) \/ Settle(c) \/ Sever(c) \/ Withdraw(c)
  \/ Closed(c) \/ Fail(c) \/ SweepStep(c)
AppStep(a)    == Reject(a) \/ Execute(a)

Next ==
  \/ \E k \in Controls : ControlStep(k) \/ \E a \in Actions : Submit(k, a) \/ Cancel(k, a)
  \/ \E a \in Actions : AppStep(a) \/ Pass(a)
  \/ \E c \in Conns : Connect(c) \/ Lose(c) \/ ReaderStep(c)
  \/ HeartStep \/ SweepStep(Live) \/ Read

Spec == Init /\ [][Next]_vars

\* Threads go on and time passes.  The app may never answer.
FairSpec ==
  /\ Spec
  /\ \A k \in Controls : WF_vars(ControlStep(k))
  /\ \A a \in Actions : WF_vars(Pass(a))
  /\ \A c \in Conns : WF_vars(ReaderStep(c))
  /\ WF_vars(HeartStep) /\ WF_vars(SweepStep(Live))

-----------------------------------------------------------------------------
(* Properties                                                                 *)

Sweeping == {"sweep", "settle"}
PcOf(t) ==
  CASE t \in Controls -> {"idle", "start", "push", "refused", "fail",
                          "cancel", "disown", "unqueue", "stop"} \union Sweeping
    [] t \in Conns   -> {"idle", "read", "take", "accept", "sever", "severed",
                         "refuse", "fail", "done"} \union Sweeping
    [] t = Heart     -> {"idle", "mark", "send", "unmark", "fail"} \union Sweeping
    [] OTHER         -> {"idle"} \union Sweeping

\* Every variable keeps its type, the queue its limit, and a request is in one
\* place only on its way to the app.
TypeOK ==
  /\ status \in [Actions -> Active \union Ended \union {"none"}]
  /\ queue \in Seq(Actions) /\ batch \in Seq(Actions) /\ ready \in Seq(Actions)
  /\ Len(queue) <= QueueSize
  /\ IsInjective(queue \o batch \o ready)
  /\ due \subseteq Actions /\ deliveries \subseteq Actions
  /\ target \in [Actions -> Conns \union {None}]
  /\ owner \in Conns \union {None}
  /\ app \in [Actions -> {"none", "sent", "rejected"} \union Executed]
  /\ DOMAIN pc = Threads /\ DOMAIN then = Threads
  /\ \A t \in Threads : pc[t] \in PcOf(t) /\ then[t] \in PcOf(t) \union {"idle"}
  /\ now \in [Threads -> SUBSET Actions] /\ took \in [Threads -> SUBSET Actions]
  /\ job \in [Threads -> Actions \union {None}]
  /\ todo \in [Conns -> SUBSET Actions] /\ cancels \in 0 .. MaxCancels

\* An action ends once, a success was executed, and what is reported as failed
\* neither was nor will be executed, so that it can safely be tried again.
Promise == INSTANCE UiAction WITH executed <- {a \in Actions : app[a] \in Executed},
                                  inTime <- {a \in Actions : app[a] = "hit"}
KeepsPromise == Promise!Spec

\* Every accepted action ends, if the app, the client and the connections say
\* nothing more.
EveryActionEnds == \A a \in Actions : status[a] \in Active ~> status[a] \in Ended

\* No delivery is kept for ever, not even one marked after its action ended.
DeliveriesEnd == \A a \in Actions : a \in deliveries ~> a \notin deliveries

\* Nothing waits for ever for an app that may never answer.
EverythingEnds == EveryActionEnds /\ DeliveriesEnd

=============================================================================
