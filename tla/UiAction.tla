-------------------------------- MODULE UiAction --------------------------------
(***************************************************************************)
(* What a live session promises of a UI action: it ends once, a success    *)
(* was executed by the app before the deadline, however late that was      *)
(* heard of, and a failure was not executed and never will be.  Of an      *)
(* action that ended in another way nothing is promised, except that it is *)
(* not executed twice.  ActionDelivery implements this.                    *)
(***************************************************************************)
CONSTANTS Actions

VARIABLES status, executed, inTime   \* inTime: executed before the deadline

Ended  == {"succeeded", "failed", "cancelled", "timed_out", "unknown"}
Status == {"none", "queued", "running"} \union Ended

\* The life of an operation: only a running one can succeed, fail or be unknown.
Follows(s, t) ==
  \/ s = t
  \/ s = "none" /\ t = "queued"
  \/ s = "queued" /\ t \in {"running", "cancelled", "timed_out"}
  \/ s = "running" /\ t \in Ended

\* The app executes an action.
Execute(a) ==
  /\ a \notin executed
  /\ status[a] \notin {"none", "queued", "failed"}
  /\ executed' = executed \union {a}
  /\ inTime' \in {inTime, inTime \union {a}}
  /\ UNCHANGED status

\* The supervisor moves any number of operations on.
Advance ==
  /\ status' \in [Actions -> Status]
  /\ \A a \in Actions :
       /\ Follows(status[a], status'[a])
       /\ status'[a] # status[a] /\ status'[a] = "succeeded" => a \in inTime
       /\ status'[a] # status[a] /\ status'[a] = "failed" => a \notin executed
  /\ UNCHANGED <<executed, inTime>>

Init == status = [a \in Actions |-> "none"] /\ executed = {} /\ inTime = {}
Next == Advance \/ \E a \in Actions : Execute(a)
Spec == Init /\ [][Next]_<<status, executed, inTime>>
=============================================================================
