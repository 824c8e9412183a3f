---------------------------- MODULE ArtifactStore ----------------------------
(***************************************************************************)
(* The artifacts of a project: every session keeps its own under one root, *)
(* and all of them count against the quota of the project.  A transfer is  *)
(* declared, received in chunks into a part file, verified, and published  *)
(* by a rename.  For each artifact a session has a record in memory and    *)
(* one on disk; other sessions see the one on disk only, and expire by it  *)
(* what nobody used for the time to live.                                  *)
(*                                                                         *)
(* Every call holds the file lock of the project ("op" is the call that    *)
(* has it) except the read of a file and the release of a reference.  The  *)
(* steps of a call are the points between which its process may die.  The  *)
(* time to live passes for all records at once (Age); what is written      *)
(* later is fresh again.  Removing a file does not fail.                   *)
(***************************************************************************)
EXTENDS Naturals, FiniteSets, FiniteSetsExt

CONSTANTS
  Sessions, Ids,
  Bytes,          \* the declared size of each artifact, in chunks
  SessionQuota, ProjectQuota,
  MaxActive,      \* max_active_transfers_per_run; all transfers are of one run
  MaxReaders, MaxAges, MaxFaults, MaxCrashes,   \* bounds
  None

Slots == Sessions \X Ids

\* What a record says of an artifact, and what is in a file.
Statuses == {"receiving", "verified", "published", "expired"}
Infos == [status : Statuses, got : Nat, pinned : BOOLEAN, refs : Nat, fresh : BOOLEAN]
Files == [got : Nat, good : BOOLEAN]

ASSUME ConstantsAssumption ==
  /\ None \notin Sessions \union Ids /\ None \notin Infos /\ None \notin Files
  /\ IsFiniteSet(Sessions) /\ IsFiniteSet(Ids)
  /\ Bytes \in [Ids -> Nat \ {0}] /\ SessionQuota \in Nat /\ ProjectQuota \in Nat
  /\ MaxActive \in Nat /\ MaxReaders \in Nat
  /\ MaxAges \in Nat /\ MaxFaults \in Nat /\ MaxCrashes \in Nat

VARIABLES
  up,           \* the sessions that run
  record,       \* the records in the memory of their sessions
  json,         \* the records on disk
  part, data,   \* the files: what was received, what was published
  readers,      \* calls that read a published file
  op,           \* the call that holds the lock
  ages, faults, crashes

files == <<part, data>>
bounds == <<ages, faults, crashes>>
vars == <<up, record, json, files, readers, op, bounds>>

NoCall == [at |-> "none", s |-> None]
Idle == op = NoCall

\* Which record a session goes by: its own from memory, of others what is on disk.
Seen(s, x) == IF x[1] = s THEN record[x] ELSE json[x]
Reserved(i) == i # None /\ i.status # "expired"
Declared(slots) == MapThenSumSet(LAMBDA x : Bytes[x[2]], slots)

\* persist_info_at: references are never written.  It may fail, and the call
\* that made it fails with it.
WrittenWithRefs(x, info) == json' = [json EXCEPT ![x] = info]
Written(x, info) == json' = [json EXCEPT ![x] = [info EXCEPT !.refs = 0]]
Persist(x, info, ok) ==
  IF ok THEN Written(x, info) /\ UNCHANGED faults
  ELSE faults < MaxFaults /\ faults' = faults + 1 /\ UNCHANGED json

Keep(x, info) == record' = [record EXCEPT ![x] = info]
Touched(info, status) == [info EXCEPT !.status = status, !.fresh = TRUE]
Expired(info) == [Touched(info, "expired") EXCEPT !.got = 0]
Return == op' = NoCall

-----------------------------------------------------------------------------
(* Expiry: on request, every minute, and before a transfer begins. *)

\* Pins are not looked at.
StaleUnpinned(s, x) ==
  LET i == Seen(s, x) IN Reserved(i) /\ i.refs = 0 /\ ~i.fresh

Stale(s, x) ==
  LET i == Seen(s, x) IN
  /\ Reserved(i) /\ ~i.pinned /\ i.refs = 0 /\ ~i.fresh

\* expire (for = None), or the beginning of begin
Expire(s, for) ==
  /\ Idle /\ s \in up
  /\ op' = [at |-> "sweep", s |-> s, for |-> for]
  /\ UNCHANGED <<up, record, json, files, readers, bounds>>

RemoveStale(x) ==
  /\ op.at = "sweep" /\ Stale(op.s, x)
  /\ part' = [part EXCEPT ![x] = None] /\ data' = [data EXCEPT ![x] = None]
  /\ op' = [at |-> "swept", s |-> op.s, for |-> op.for, x |-> x, i |-> Seen(op.s, x)]
  /\ UNCHANGED <<up, record, json, readers, bounds>>

\* Only a record of its own is expired in memory; a failure ends the call.
RecordStale(ok) ==
  /\ op.at = "swept"
  /\ LET i == Expired(op.i) IN
     /\ IF op.x[1] = op.s THEN Keep(op.x, i) ELSE UNCHANGED record
     /\ Persist(op.x, i, ok)
  /\ op' = IF ok THEN [at |-> "sweep", s |-> op.s, for |-> op.for] ELSE NoCall
  /\ UNCHANGED <<up, files, readers, ages, crashes>>

Swept == op.at = "sweep" /\ \A x \in Slots : ~Stale(op.s, x)

ExpireEnds ==
  /\ Swept /\ op.for = None /\ Return
  /\ UNCHANGED <<up, record, json, files, readers, bounds>>

-----------------------------------------------------------------------------
(* begin *)

SessionUsage(s) == Declared({x \in Slots : x[1] = s /\ Reserved(record[x])})
ProjectUsage == Declared({x \in Slots : Reserved(json[x])})
Active(s) == {x \in Slots : /\ x[1] = s /\ record[x] # None
                            /\ record[x].status \in {"receiving", "verified"}}
\* The quota of the project is judged by the records of this session.
FreeBySession(s, a) ==
  /\ ~Reserved(record[<<s, a>>])
  /\ Cardinality(Active(s)) < MaxActive
  /\ SessionUsage(s) + Bytes[a] <= SessionQuota

Free(s, a) ==
  /\ ~Reserved(record[<<s, a>>])
  /\ Cardinality(Active(s)) < MaxActive
  /\ SessionUsage(s) + Bytes[a] <= SessionQuota
  /\ ProjectUsage + Bytes[a] <= ProjectQuota

\* The same artifact again, one too many, or too large: nothing changes.
BeginRefused ==
  /\ Swept /\ op.for # None /\ ~Free(op.s, op.for) /\ Return
  /\ UNCHANGED <<up, record, json, files, readers, bounds>>

\* What is left of an expired artifact of that name goes first.
BeginAnew ==
  /\ Swept /\ op.for # None /\ Free(op.s, op.for)
  /\ LET x == <<op.s, op.for>> IN
     /\ Keep(x, None)
     /\ IF record[x] = None THEN UNCHANGED <<json, files>>
        ELSE /\ json' = [json EXCEPT ![x] = None]
             /\ part' = [part EXCEPT ![x] = None] /\ data' = [data EXCEPT ![x] = None]
     /\ op' = [at |-> "create", s |-> op.s, x |-> x]
  /\ UNCHANGED <<up, readers, bounds>>

\* The part file must be new.
CreatePart ==
  /\ op.at = "create"
  /\ IF part[op.x] # None THEN Return /\ UNCHANGED part
     ELSE /\ part' = [part EXCEPT ![op.x] = [got |-> 0, good |-> TRUE]]
          /\ op' = [op EXCEPT !.at = "declare"]
  /\ UNCHANGED <<up, record, json, data, readers, bounds>>

Declare(ok) ==
  LET i == [status |-> "receiving", got |-> 0, pinned |-> FALSE, refs |-> 0, fresh |-> TRUE] IN
  /\ op.at = "declare" /\ Persist(op.x, i, ok) /\ Return
  /\ IF ok THEN Keep(op.x, i) /\ UNCHANGED part
     ELSE part' = [part EXCEPT ![op.x] = None] /\ UNCHANGED record
  /\ UNCHANGED <<up, data, readers, ages, crashes>>

-----------------------------------------------------------------------------
(* write_chunk, finish, abort *)

Is(x, status) == record[x] # None /\ record[x].status = status

\* The next chunk, right or wrong; others are refused or were stored before.
\* Dying between the write and the record is a failed write of the record
\* followed by Crash.
WriteChunk(x, good, ok) ==
  /\ Idle /\ x[1] \in up /\ Is(x, "receiving")
  /\ record[x].got < Bytes[x[2]] /\ part[x] # None
  /\ LET i == [Touched(record[x], "receiving") EXCEPT !.got = @ + 1] IN
     /\ part' = [part EXCEPT ![x] = [got |-> i.got, good |-> good /\ @.good]]
     /\ Keep(x, i) /\ Persist(x, i, ok)
  /\ UNCHANGED <<up, data, readers, op, ages, crashes>>

\* The hash is compared with the one declared; a wrong transfer is discarded,
\* and one whose part file another session removed cannot be read.
Finish(x, ok) ==
  /\ Idle /\ x[1] \in up /\ Is(x, "receiving")
  /\ record[x].got = Bytes[x[2]] /\ part[x] # None
  /\ IF part[x].good
     THEN LET i == Touched(record[x], "verified") IN
          /\ Keep(x, i) /\ Persist(x, i, ok)
          /\ op' = IF ok THEN [at |-> "rename", s |-> x[1], x |-> x] ELSE NoCall
     ELSE /\ ok /\ op' = [at |-> "discard", s |-> x[1], x |-> x]
          /\ UNCHANGED <<record, json, faults>>
  /\ UNCHANGED <<up, files, readers, ages, crashes>>

Rename(ok) ==
  /\ op.at = "rename"
  /\ IF ok
     THEN /\ data' = [data EXCEPT ![op.x] = part[op.x]]
          /\ part' = [part EXCEPT ![op.x] = None]
          /\ op' = [op EXCEPT !.at = "publish"] /\ UNCHANGED faults
     ELSE /\ faults < MaxFaults /\ faults' = faults + 1
          /\ op' = [op EXCEPT !.at = "discard"] /\ UNCHANGED files
  /\ UNCHANGED <<up, record, json, readers, ages, crashes>>

Publish(ok) ==
  /\ op.at = "publish" /\ Return
  /\ LET i == Touched(record[op.x], "published") IN Keep(op.x, i) /\ Persist(op.x, i, ok)
  /\ UNCHANGED <<up, files, readers, ages, crashes>>

Abort(x) ==
  /\ Idle /\ x[1] \in up /\ record[x] # None /\ record[x].status # "published"
  /\ op' = [at |-> "discard", s |-> x[1], x |-> x]
  /\ UNCHANGED <<up, record, json, files, readers, bounds>>

\* The record goes first.
DiscardRecordFirst ==
  /\ op.at = "discard" /\ Keep(op.x, None)
  /\ json' = [json EXCEPT ![op.x] = None]
  /\ op' = [op EXCEPT !.at = "forget"]
  /\ UNCHANGED <<up, files, readers, bounds>>

Discard ==
  /\ op.at = "discard" /\ Keep(op.x, None)
  /\ part' = [part EXCEPT ![op.x] = None] /\ data' = [data EXCEPT ![op.x] = None]
  /\ op' = [op EXCEPT !.at = "forget"]
  /\ UNCHANGED <<up, json, readers, bounds>>

Forget ==
  /\ op.at = "forget" /\ Return
  /\ json' = [json EXCEPT ![op.x] = None]
  /\ UNCHANGED <<up, record, files, readers, bounds>>

-----------------------------------------------------------------------------
(* Published artifacts. *)

\* info, retain, read_chunk and export find that the file is gone.
FindMissing(x, ok) ==
  /\ Idle /\ x[1] \in up /\ Is(x, "published") /\ data[x] = None
  /\ LET i == Expired(record[x]) IN Keep(x, i) /\ Persist(x, i, ok)
  /\ UNCHANGED <<up, files, readers, op, ages, crashes>>

\* acquire_path: when its record cannot be written the call fails, and the
\* reference it counted is not given back.
Acquire(x, ok) ==
  /\ Idle /\ x[1] \in up /\ Is(x, "published") /\ data[x] # None
  /\ readers[x] < MaxReaders
  /\ LET i == [Touched(record[x], "published") EXCEPT !.refs = @ + 1] IN
     Keep(x, i) /\ Persist(x, i, ok)
  /\ readers' = IF ok THEN [readers EXCEPT ![x] = @ + 1] ELSE readers
  /\ UNCHANGED <<up, files, op, ages, crashes>>

\* The end of a read or an export, whatever came of it; it takes no file lock.
Release(x) ==
  /\ readers[x] > 0 /\ readers' = [readers EXCEPT ![x] = @ - 1]
  /\ record' = IF record[x] = None \/ record[x].refs = 0 THEN record
               ELSE [record EXCEPT ![x].refs = @ - 1]
  /\ UNCHANGED <<up, json, files, op, bounds>>

\* pin does not look at the file.
Pin(x, pinned, ok) ==
  /\ Idle /\ x[1] \in up /\ Is(x, "published")
  /\ LET i == [Touched(record[x], "published") EXCEPT !.pinned = pinned] IN
     Keep(x, i) /\ Persist(x, i, ok)
  /\ UNCHANGED <<up, files, readers, op, ages, crashes>>

-----------------------------------------------------------------------------
(* Sessions start, stop and die. *)

Gone(s) ==
  /\ up' = up \ {s}
  /\ record' = [x \in Slots |-> IF x[1] = s THEN None ELSE record[x]]
  /\ readers' = [x \in Slots |-> IF x[1] = s THEN 0 ELSE readers[x]]

Crash(s) ==
  /\ s \in up /\ crashes < MaxCrashes /\ crashes' = crashes + 1
  /\ Gone(s) /\ op' = IF op.s = s THEN NoCall ELSE op
  /\ UNCHANGED <<json, files, ages, faults>>

\* Drop, when no call of the session is left: transfers that are under way are
\* removed.  Like load_existing it takes no lock.
Unfinished(x) ==
  Is(x, "receiving") \/ (Is(x, "verified") /\ data[x] = None)

Close(s) ==
  /\ s \in up /\ op.s # s /\ \A x \in Slots : x[1] = s => readers[x] = 0
  /\ Gone(s)
  /\ LET mine == {x \in Slots : x[1] = s /\ Unfinished(x)} IN
     /\ json' = [x \in Slots |-> IF x \in mine THEN None ELSE json[x]]
     /\ part' = [x \in Slots |-> IF x \in mine THEN None ELSE part[x]]
  /\ UNCHANGED <<data, op, bounds>>

\* A verified artifact is removed with the transfers that were cut short.
LoadedPublished(x) ==
  LET i == json[x] IN
  IF i = None \/ i.status \in {"receiving", "verified"} THEN None ELSE i

\* load_existing, of each artifact: a verified one whose file was renamed is
\* published; what was not published, or lost its file, is removed.
Loaded(x) ==
  LET i == json[x] IN
  IF i = None THEN None
  ELSE IF i.status = "expired" THEN i
  ELSE IF i.status = "receiving" \/ data[x] = None THEN None
  ELSE [i EXCEPT !.status = "published"]

Open(s) ==
  /\ s \notin up /\ up' = up \union {s}
  /\ LET Mine(x) == x[1] = s IN
     /\ record' = [x \in Slots |-> IF Mine(x) THEN Loaded(x) ELSE record[x]]
     /\ json' = [x \in Slots |-> IF Mine(x) THEN Loaded(x) ELSE json[x]]
     /\ part' = [x \in Slots |-> IF Mine(x) THEN None ELSE part[x]]
  /\ UNCHANGED <<data, readers, op, bounds>>

Age ==
  /\ ages < MaxAges /\ ages' = ages + 1
  /\ LET Aged(i) == IF i = None THEN None ELSE [i EXCEPT !.fresh = FALSE] IN
     /\ record' = [x \in Slots |-> Aged(record[x])]
     /\ json' = [x \in Slots |-> Aged(json[x])]
  /\ UNCHANGED <<up, files, readers, op, faults, crashes>>

-----------------------------------------------------------------------------
Init ==
  /\ up = Sessions
  /\ record = [x \in Slots |-> None] /\ json = [x \in Slots |-> None]
  /\ part = [x \in Slots |-> None] /\ data = [x \in Slots |-> None]
  /\ readers = [x \in Slots |-> 0] /\ op = NoCall
  /\ ages = 0 /\ faults = 0 /\ crashes = 0

CallStep ==
  \/ \E x \in Slots : RemoveStale(x)
  \/ ExpireEnds \/ BeginRefused \/ BeginAnew \/ CreatePart
  \/ Discard \/ Forget
  \/ \E ok \in BOOLEAN : RecordStale(ok) \/ Declare(ok) \/ Rename(ok) \/ Publish(ok)

SessionStep(s) ==
  \/ \E for \in Ids \union {None} : Expire(s, for)
  \/ Crash(s) \/ Close(s) \/ Open(s)

SlotStep(x) ==
  \/ Abort(x) \/ Release(x)
  \/ \E ok \in BOOLEAN :
       \/ \E good \in BOOLEAN : WriteChunk(x, good, ok)
       \/ \E pinned \in BOOLEAN : Pin(x, pinned, ok)
       \/ Finish(x, ok) \/ FindMissing(x, ok) \/ Acquire(x, ok)

Next ==
  \/ CallStep \/ Age
  \/ \E s \in Sessions : SessionStep(s)
  \/ \E x \in Slots : SlotStep(x)

Spec == Init /\ [][Next]_vars

-----------------------------------------------------------------------------
(* What holds of it. *)

\* The variables have their types, a session that does not run has no memory,
\* and no reference outlives its process: what is on disk counts none
\* (persist_info_at clears active_references).
TypeOK ==
  /\ up \subseteq Sessions
  /\ record \in [Slots -> Infos \union {None}]
  /\ json \in [Slots -> Infos \union {None}]
  /\ part \in [Slots -> Files \union {None}] /\ data \in [Slots -> Files \union {None}]
  /\ readers \in [Slots -> Nat]
  /\ op = NoCall \/ op.s \in up
  /\ \A x \in Slots : json[x] # None => json[x].refs = 0
  /\ \A x \in Slots : x[1] \notin up => record[x] = None /\ readers[x] = 0
  /\ ages \in Nat /\ faults \in Nat /\ crashes \in Nat

\* Whatever was interrupted before, a published file of a running session is the
\* whole transfer, of the right hash, and the session knows it as published --
\* but for the moment in which finish publishes it.
PublishedIsWhole ==
  \A x \in Slots :
    x[1] \in up /\ data[x] # None /\ ~(op.at = "publish" /\ op.x = x)
      => Is(x, "published") /\ data[x] = [got |-> Bytes[x[2]], good |-> TRUE]

\* The types, and that nothing in part or of the wrong bytes is published.
Inv == TypeOK /\ PublishedIsWhole

\* The bytes that are stored, by all sessions, living or dead, never exceed the
\* quota of the project, although sessions expire each other's artifacts and
\* may die before they wrote that down.
Stored(x) == data[x] # None \/ (part[x] # None /\ part[x].got > 0)
QuotaHolds == Declared({x \in Slots : Stored(x)}) <= ProjectQuota

\* A published file is not removed, by its session or by another, as long as it
\* was used in the time to live, or is pinned and nobody unpinned it.
Kept(x) ==
  /\ data[x] # None /\ json[x] # None
  /\ json[x].fresh \/ (json[x].pinned /\ (record[x] = None \/ record[x].pinned))
PublishedIsKept == [][\A x \in Slots : Kept(x) => data'[x] # None]_vars

=============================================================================
