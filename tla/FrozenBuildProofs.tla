--------------------------- MODULE FrozenBuildProofs ---------------------------
(***************************************************************************)
(* Proofs about FrozenBuild: its type invariant, that an output with a     *)
(* manifest was made from what its key says, and that a reusable result    *)
(* was made from the plan of the command that returns it.                  *)
(***************************************************************************)
EXTENDS FrozenBuild, TLAPS

Early == {"idle", "frozen", "identify", "copy", "verify_copy", "name", "planned"}

\* A plan names versions that were current when it read them, and only those that
\* the kind of build has; a copy was made no earlier than the plan.
Planned(c) ==
  /\ pc[c] # "idle" => plan[c]["source"] # None
  /\ \A i \in Inputs : plan[c][i] # None => plan[c][i] <= now[i]
  /\ plan[c]["signing"] # None => Signed
  /\ plan[c]["distribution"] # None => Android
  /\ pc[c] \in {"idle", "frozen", "identify", "copy"} => copied[c] = None
  /\ copied[c] # None =>
       /\ copied[c] <= now["signing"]
       /\ plan[c]["signing"] # None => plan[c]["signing"] <= copied[c]
  /\ pc[c] \in Early => ~reusable[c]
  /\ reusable[c] => why[c] = "none"
PlanInv == \A c \in Commands : Planned(c)

\* One command at a time works in an output root.
LockInv ==
  \A c, d \in Commands :
    pc[c] \in Inside /\ pc[d] \in Inside /\ plan[c] = plan[d] => c = d

\* A finished artifact made in the root of key k, from the sources of k and from
\* identities no older than those of k.
MadeFor(a, k) ==
  /\ a # None /\ a.hidden # "unfinished" /\ a.source = k["source"]
  /\ \A i \in {"signing", "distribution"} :
       k[i] # None => a[i] # None /\ k[i] <= a[i] /\ a[i] <= now[i]

\* The command that has built is sure of what its root holds, and the one that is
\* about to publish has seen that the identities are still those of its plan.
Made(c) ==
  /\ pc[c] \in {"check", "publish"} =>
       /\ MadeFor(At(files, plan[c]), plan[c])
       /\ Android /\ why[c] = "none" => At(files, plan[c]).hidden = None
  /\ pc[c] = "publish" =>
       /\ plan[c]["signing"] \in {None, At(files, plan[c]).signing}
       /\ Android /\ reusable[c] =>
            plan[c]["distribution"] \in {None, At(files, plan[c]).distribution}
MadeInv == \A c \in Commands : Made(c)

\* OutputMatchesKey is about outputs that verify.  It holds because no manifest
\* ever lists anything else.
Honest(a, k) == Matches(a, k) /\ (Android => a.hidden = None)
ManifestInv == \A k \in DOMAIN manifest : manifest[k] # None => Honest(manifest[k], k)

IInv == TypeOK /\ PlanInv /\ LockInv /\ MadeInv /\ ManifestInv

-----------------------------------------------------------------------------
(* Outputs                                                                    *)

\* Writing an output keeps the types of the outputs.
LEMMA PutType ==
  ASSUME NEW f, DOMAIN f \subseteq Keys, \A k \in DOMAIN f : f[k] \in Artifact \union {None},
         NEW k \in Keys, NEW v \in Artifact \union {None}
  PROVE  /\ DOMAIN Put(f, k, v) \subseteq Keys
         /\ \A x \in DOMAIN Put(f, k, v) : Put(f, k, v)[x] \in Artifact \union {None}
BY DEF Put

\* So does reading one.
LEMMA AtType ==
  ASSUME TypeOK, NEW k
  PROVE  At(files, k) \in Artifact \union {None} /\ At(manifest, k) \in Artifact \union {None}
BY DEF At, TypeOK

\* What a compiler makes in the workspace of a command fits its plan.
LEMMA BuiltFacts ==
  ASSUME TypeOK, NEW c \in Commands, Planned(c), pc[c] # "idle", NEW t \in Nat
  PROVE  /\ Built(c, t) \in Artifact /\ [Built(c, t) EXCEPT !.hidden = "unfinished"] \in Artifact
         /\ MadeFor(Built(c, t), plan[c])
         /\ why[c] # "hidden" => Built(c, t).hidden = None
<1>1. plan[c]["source"] \in Nat /\ now["signing"] \in Nat /\ now["distribution"] \in Nat
  BY DEF TypeOK, Keys, Versions, Inputs, Planned
<1>2. Built(c, t) \in Artifact /\ [Built(c, t) EXCEPT !.hidden = "unfinished"] \in Artifact
  BY <1>1 DEF Built, Artifact, Versions, TypeOK
<1>3. Built(c, t) # None
  BY <1>2, ConstantsAssumption
<1>4. Built(c, t).hidden # "unfinished" /\ (why[c] # "hidden" => Built(c, t).hidden = None)
  BY ConstantsAssumption DEF Built
<1>5. Built(c, t)["source"] = plan[c]["source"]
  BY DEF Built
<1>6. ASSUME plan[c]["signing"] # None
      PROVE  /\ Built(c, t)["signing"] \in Nat /\ plan[c]["signing"] <= Built(c, t)["signing"]
             /\ Built(c, t)["signing"] <= now["signing"]
  <2>1. Signed /\ plan[c]["signing"] \in Nat /\ plan[c]["signing"] <= now["signing"]
    BY <1>6 DEF Planned, TypeOK, Keys, Versions, Inputs
  <2>2. copied[c] # None => copied[c] \in Nat /\ copied[c] <= now["signing"]
                              /\ plan[c]["signing"] <= copied[c]
    BY <1>6 DEF Planned, TypeOK, Versions
  <2>3. Built(c, t)["signing"] = IF copied[c] # None THEN copied[c] ELSE now["signing"]
    BY <2>1 DEF Built
  <2> QED BY <1>1, <2>1, <2>2, <2>3
<1>7. ASSUME plan[c]["distribution"] # None
      PROVE  /\ Built(c, t)["distribution"] \in Nat
             /\ plan[c]["distribution"] <= Built(c, t)["distribution"]
             /\ Built(c, t)["distribution"] <= now["distribution"]
  <2>1. Android /\ plan[c]["distribution"] <= now["distribution"]
    BY <1>7 DEF Planned, Inputs
  <2>2. Built(c, t)["distribution"] = now["distribution"]
    BY <2>1 DEF Built
  <2> QED BY <1>1, <2>1, <2>2
<1> QED BY <1>2, <1>3, <1>4, <1>5, <1>6, <1>7, ConstantsAssumption DEF MadeFor

-----------------------------------------------------------------------------
(* What a step leaves alone                                                   *)

\* A step of command c moves no other command and changes no input.
Alone(c) ==
  /\ UNCHANGED <<kind, now>>
  /\ \A d \in Commands \ {c} :
       /\ pc'[d] = pc[d] /\ plan'[d] = plan[d] /\ why'[d] = why[d]
       /\ copied'[d] = copied[d] /\ reusable'[d] = reusable[d]

LEMMA StepAlone ==
  ASSUME TypeOK, NEW c \in Commands, Step(c) \/ Fail(c)
  PROVE  Alone(c)
<1> USE DEF TypeOK, Alone, Goto, Move, world, command
<1>1. CASE Freeze(c) \/ Fingerprint(c) \/ Identify(c) \/ CopySigning(c)
  BY <1>1 DEF Freeze, Fingerprint, Identify, CopySigning
<1>2. CASE VerifyCopy(c) \/ Name(c) \/ Admit(c)
  BY <1>2 DEF VerifyCopy, Name, Admit
<1>3. CASE Lead(c) \/ LockAlone(c) \/ Follow(c)
  BY <1>3 DEF Lead, LockAlone, Follow, Enter
<1>4. CASE Lookup(c) \/ TakeHit(c) \/ Check(c)
  BY <1>4 DEF Lookup, TakeHit, Check
<1>5. CASE Compile(c) \/ Package(c) \/ Publish(c) \/ Recheck(c) \/ Close(c)
  BY <1>5 DEF Compile, Package, Publish, Recheck, Close
<1>6. CASE Final(c) \/ CargoRun(c) \/ Fail(c)
  BY <1>6 DEF Final, CargoRun, Fail
<1> QED BY <1>1, <1>2, <1>3, <1>4, <1>5, <1>6 DEF Step

\* Planning writes no output and ends before the output lock.
Plans(c) ==
  \/ Freeze(c) \/ Fingerprint(c) \/ Identify(c) \/ CopySigning(c) \/ VerifyCopy(c)
  \/ Name(c) \/ Admit(c)
\* Where the lock is taken, used and given back.
Works(c) ==
  \/ Lead(c) \/ LockAlone(c) \/ Follow(c) \/ Lookup(c) \/ TakeHit(c) \/ Compile(c)
  \/ Package(c) \/ Check(c) \/ Publish(c) \/ Recheck(c) \/ Close(c) \/ Final(c) \/ CargoRun(c)

LEMMA PlanningFrame ==
  ASSUME TypeOK, NEW c \in Commands, Plans(c)
  PROVE  pc[c] \in Early /\ pc'[c] \notin Inside /\ UNCHANGED outputs
BY DEF Plans, Freeze, Fingerprint, Identify, CopySigning, VerifyCopy, Name, Admit, TypeOK,
  Move, Goto, Early, Inside

LEMMA WorkingFrame ==
  ASSUME TypeOK, NEW c \in Commands, Works(c) \/ Fail(c)
  PROVE  /\ pc[c] # "idle" /\ pc'[c] \notin Early
         /\ UNCHANGED <<plan, why, copied>>
<1> USE DEF TypeOK, Goto, Move, world, command, Early
<1>1. CASE Lead(c) \/ LockAlone(c) \/ Follow(c)
  BY <1>1 DEF Lead, LockAlone, Follow, Enter
<1>2. CASE Lookup(c) \/ TakeHit(c) \/ Check(c)
  BY <1>2 DEF Lookup, TakeHit, Check
<1>3. CASE Compile(c) \/ Package(c) \/ Publish(c) \/ Recheck(c) \/ Close(c)
  BY <1>3 DEF Compile, Package, Publish, Recheck, Close
<1>4. CASE Final(c) \/ CargoRun(c) \/ Fail(c)
  BY <1>4 DEF Final, CargoRun, Fail
<1> QED BY <1>1, <1>2, <1>3, <1>4 DEF Works

-----------------------------------------------------------------------------
(* Types                                                                      *)

LEMMA TypeStep == TypeOK /\ PlanInv /\ [Next]_vars => TypeOK'
<1> SUFFICES ASSUME TypeOK, PlanInv, [Next]_vars PROVE TypeOK'
  OBVIOUS
<1>a. ASSUME NEW c \in Commands, Plans(c) PROVE TypeOK'
  <2> USE DEF TypeOK, Keys, Versions, Labels, Inside, Reasons, Goto, Move, Inputs, outputs, world, command
  <2>1. CASE Freeze(c)
    BY <2>1 DEF Freeze
  <2>2. CASE Fingerprint(c)
    BY <2>2 DEF Fingerprint
  <2>3. CASE Identify(c)
    <3>1. plan' \in [Commands -> [Inputs -> Nat \union {None}]]
      <4>1. plan' = plan \/ plan' = [plan EXCEPT ![c]["signing"] = now["signing"]]
        BY <2>3 DEF Identify
      <4>2. ASSUME NEW i \in Inputs, plan' = [plan EXCEPT ![c][i] = now[i]]
            PROVE  plan' \in [Commands -> [Inputs -> Nat \union {None}]]
        BY <4>2
      <4> QED BY <4>1, <4>2
    <3>2. pc' \in [Commands -> Labels]
      BY <2>3 DEF Identify
    <3> QED BY <2>3, <3>1, <3>2 DEF Identify
  <2>4. CASE CopySigning(c)
    BY <2>4 DEF CopySigning
  <2>5. CASE VerifyCopy(c)
    BY <2>5 DEF VerifyCopy
  <2>6. CASE Name(c)
    <3>1. plan' \in [Commands -> [Inputs -> Nat \union {None}]]
      <4>1. plan' = plan \/ plan' = [plan EXCEPT ![c]["distribution"] = now["distribution"]]
        BY <2>6 DEF Name
      <4>2. ASSUME NEW i \in Inputs, plan' = [plan EXCEPT ![c][i] = now[i]]
            PROVE  plan' \in [Commands -> [Inputs -> Nat \union {None}]]
        BY <4>2
      <4> QED BY <4>1, <4>2
    <3>2. pc' \in [Commands -> Labels]
      BY <2>6 DEF Name
    <3> QED BY <2>6, <3>1, <3>2 DEF Name
  <2>7. CASE Admit(c)
    BY <2>7 DEF Admit
  <2> QED BY <1>a, <2>1, <2>2, <2>3, <2>4, <2>5, <2>6, <2>7 DEF Plans
<1>b. ASSUME NEW c \in Commands, Lead(c) \/ LockAlone(c) \/ Follow(c) PROVE TypeOK'
  <2>1. pc' \in [Commands -> Labels]
    BY <1>b DEF Lead, LockAlone, Follow, Enter, TypeOK, Labels, Inside, Goto, Move
  <2>2. role' \in [Commands -> {None, "leader", "alone", "follower"}] /\ succeeded' \subseteq Keys
    BY <1>b DEF Lead, LockAlone, Follow, Enter, TypeOK, outputs
  <2>3. UNCHANGED <<kind, now, plan, why, copied, reusable, got, files, manifest, changes, failures>>
    BY <1>b DEF Lead, LockAlone, Follow, Enter, outputs, world
  <2> QED BY <2>1, <2>2, <2>3 DEF TypeOK
<1>c. ASSUME NEW c \in Commands, Lookup(c) \/ TakeHit(c) \/ Check(c) PROVE TypeOK'
  <2>1. StillReusable(c) \in BOOLEAN
    BY DEF StillReusable, TypeOK, DistributionMatches
  <2> QED BY <1>c, <2>1 DEF Lookup, TakeHit, Check, TypeOK, Labels, Inside, Goto, Move, outputs, world
<1>d. ASSUME NEW c \in Commands, Compile(c) \/ Package(c) \/ CargoRun(c) PROVE TypeOK'
  <2>1. pc[c] # "idle" /\ Planned(c) /\ plan[c] \in Keys
    BY <1>d DEF Compile, Package, CargoRun, Move, PlanInv, TypeOK
  <2>2. PICK v \in Artifact : files' = Put(files, plan[c], v)
    <3>1. CASE Compile(c) \/ CargoRun(c)
      <4>1. now["toolchain"] \in Nat
        BY DEF TypeOK, Inputs
      <4> QED BY <2>1, <3>1, <4>1, BuiltFacts DEF Compile, CargoRun, Unfinished
    <3>2. CASE Package(c)
      <4>1. files[plan[c]].toolchain \in Nat
        BY <3>2, ConstantsAssumption DEF Package, At, TypeOK, Artifact
      <4> QED BY <2>1, <3>2, <4>1, BuiltFacts DEF Package
    <3> QED BY <1>d, <3>1, <3>2
  <2>3. DOMAIN files' \subseteq Keys /\ \A k \in DOMAIN files' : files'[k] \in Artifact \union {None}
    BY <2>1, <2>2, PutType DEF TypeOK
  <2>4. /\ pc' \in [Commands -> Labels]
        /\ UNCHANGED <<kind, now, plan, why, copied, reusable, role, got, manifest, succeeded, changes, failures>>
    BY <1>d DEF Compile, Package, CargoRun, TypeOK, Labels, Inside, Goto, Move, command, world
  <2> QED BY <2>3, <2>4 DEF TypeOK
<1>e. ASSUME NEW c \in Commands, Publish(c) PROVE TypeOK'
  <2>1. plan[c] \in Keys /\ At(files, plan[c]) \in Artifact \union {None}
    BY AtType DEF TypeOK
  <2>2. DOMAIN manifest' \subseteq Keys /\ \A k \in DOMAIN manifest' : manifest'[k] \in Artifact \union {None}
    BY <1>e, <2>1, PutType DEF Publish, TypeOK
  <2>3. /\ pc' \in [Commands -> Labels]
        /\ UNCHANGED <<kind, now, plan, why, copied, reusable, role, got, files, succeeded, changes, failures>>
    BY <1>e DEF Publish, TypeOK, Labels, Inside, Goto, Move, command, world
  <2> QED BY <2>2, <2>3 DEF TypeOK
<1>f. ASSUME NEW c \in Commands, Recheck(c) \/ Close(c) \/ Fail(c) PROVE TypeOK'
  BY <1>f DEF Recheck, Close, Fail, TypeOK, Labels, Inside, Goto, Move, outputs, command, world
<1>g. ASSUME NEW c \in Commands, Final(c) PROVE TypeOK'
  <2>1. StillReusable(c) \in BOOLEAN /\ At(files, plan[c]) \in Artifact \union {None}
    BY AtType DEF StillReusable, TypeOK, DistributionMatches
  <2> QED BY <1>g, <2>1 DEF Final, TypeOK, Labels, Goto, outputs, world
<1>h. ASSUME NEW i \in Inputs, Change(i) PROVE TypeOK'
  BY <1>h DEF Change, TypeOK, command, outputs
<1>i. ASSUME NEW k \in DOMAIN files, Evict(k) PROVE TypeOK'
  <2>1. k \in Keys
    BY DEF TypeOK
  <2>2. /\ DOMAIN files' \subseteq Keys /\ \A x \in DOMAIN files' : files'[x] \in Artifact \union {None}
        /\ DOMAIN manifest' \subseteq Keys /\ \A x \in DOMAIN manifest' : manifest'[x] \in Artifact \union {None}
    BY <1>i, <2>1, PutType DEF Evict, TypeOK
  <2> QED BY <1>i, <2>2 DEF Evict, TypeOK, command
<1>j. CASE UNCHANGED vars
  BY <1>j DEF TypeOK, vars
<1> QED
  BY <1>a, <1>b, <1>c, <1>d, <1>e, <1>f, <1>g, <1>h, <1>i, <1>j DEF Next, Step, Plans

-----------------------------------------------------------------------------
(* Plans                                                                      *)

\* The version of an input that is not None is a number.
LEMMA PlanNumbers ==
  ASSUME TypeOK, NEW c \in Commands, NEW i \in Inputs
  PROVE  /\ now[i] \in Nat /\ now[i] # None
         /\ plan[c][i] \in Nat \union {None} /\ copied[c] \in Nat \union {None}
BY ConstantsAssumption DEF TypeOK, Keys, Versions

LEMMA PlanningStep ==
  ASSUME TypeOK, NEW c \in Commands, Planned(c), Plans(c)
  PROVE  Planned(c)'
<1> USE DEF Goto, Move, Early, Inputs
<1> DEFINE n == now
<1>1. UNCHANGED <<now, kind>>
  BY DEF Plans, Freeze, Fingerprint, Identify, CopySigning, VerifyCopy, Name, Admit, world
<1>2. /\ \A i \in Inputs : /\ n[i] \in Nat /\ n[i] # None /\ n[i] <= n[i]
                           /\ plan[c][i] \in Nat \union {None}
      /\ copied[c] \in Nat \union {None}
  BY PlanNumbers
<1>3. ASSUME NEW i \in Inputs, plan' = [plan EXCEPT ![c][i] = now[i]]
      PROVE  plan'[c][i] = n[i] /\ \A j \in Inputs : j # i => plan'[c][j] = plan[c][j]
  BY <1>3 DEF TypeOK, Keys
<1> HIDE DEF n
<1>4. CASE Freeze(c)
  <2>1. plan'[c]["source"] = n["source"] /\ \A j \in Inputs : j # "source" => plan'[c][j] = plan[c][j]
    BY <1>3, <1>4 DEF Freeze, n
  <2>2. /\ pc[c] = "idle" /\ pc'[c] = "frozen"
        /\ UNCHANGED <<why, copied, reusable>>
    BY <1>4 DEF Freeze, TypeOK
  <2> QED BY <1>1, <1>2, <2>1, <2>2 DEF Planned, Signed, Android, n
<1>5. CASE Fingerprint(c)
  <2>1. plan'[c]["toolchain"] = n["toolchain"] /\ \A j \in Inputs : j # "toolchain" => plan'[c][j] = plan[c][j]
    BY <1>3, <1>5 DEF Fingerprint, n
  <2>2. /\ pc[c] = "frozen" /\ pc'[c] = "identify"
        /\ UNCHANGED <<copied, reusable>>
    BY <1>5 DEF Fingerprint, TypeOK
  <2> QED BY <1>1, <1>2, <2>1, <2>2 DEF Planned, Signed, Android, n
<1>6. CASE Identify(c)
  <2>1. /\ pc[c] = "identify" /\ pc'[c] \in {"copy", "name"}
        /\ UNCHANGED <<why, copied, reusable>>
    BY <1>6 DEF Identify, TypeOK
  <2>2. CASE UNCHANGED plan
    BY <1>1, <1>2, <2>1, <2>2 DEF Planned, Signed, Android
  <2>3. CASE ~ UNCHANGED plan
    <3>1. Signed /\ plan' = [plan EXCEPT ![c]["signing"] = now["signing"]]
      BY <1>6, <2>3 DEF Identify
    <3>2. plan'[c]["signing"] = n["signing"] /\ \A j \in Inputs : j # "signing" => plan'[c][j] = plan[c][j]
      BY <1>3, <3>1 DEF n
    <3>3. copied[c] = None
      BY <2>1 DEF Planned
    <3> QED BY <1>1, <1>2, <2>1, <3>1, <3>2, <3>3 DEF Planned, Signed, Android, n
  <2> QED BY <2>2, <2>3
<1>7. CASE CopySigning(c)
  <2>1. /\ pc[c] = "copy" /\ pc'[c] = "verify_copy" /\ copied'[c] = n["signing"]
        /\ UNCHANGED <<plan, why, reusable>>
    BY <1>7 DEF CopySigning, TypeOK, n
  <2> QED BY <1>1, <1>2, <2>1 DEF Planned, Signed, Android, n
<1>8. CASE VerifyCopy(c)
  <2>1. /\ pc[c] = "verify_copy" /\ pc'[c] \in {"name", "failed"}
        /\ UNCHANGED <<plan, why, copied, reusable>>
    BY <1>8 DEF VerifyCopy, TypeOK, command
  <2> QED BY <1>1, <1>2, <2>1 DEF Planned, Signed, Android
<1>9. CASE Name(c)
  <2>1. /\ pc[c] = "name" /\ pc'[c] = "planned"
        /\ UNCHANGED <<why, copied, reusable>>
    BY <1>9 DEF Name, TypeOK
  <2>2. CASE UNCHANGED plan
    BY <1>1, <1>2, <2>1, <2>2 DEF Planned, Signed, Android
  <2>3. CASE ~ UNCHANGED plan
    <3>1. Android /\ plan' = [plan EXCEPT ![c]["distribution"] = now["distribution"]]
      BY <1>9, <2>3 DEF Name
    <3>2. plan'[c]["distribution"] = n["distribution"] /\ \A j \in Inputs : j # "distribution" => plan'[c][j] = plan[c][j]
      BY <1>3, <3>1 DEF n
    <3> QED BY <1>1, <1>2, <2>1, <3>1, <3>2 DEF Planned, Signed, Android, n
  <2> QED BY <2>2, <2>3
<1>10. CASE Admit(c)
  <2>1. /\ pc[c] = "planned" /\ pc'[c] \in {"admitted", "failed"}
        /\ UNCHANGED <<plan, why, copied>>
        /\ reusable'[c] => why[c] = "none"
    BY <1>10 DEF Admit, TypeOK
  <2>2. pc[c] # "idle" /\ pc'[c] \notin Early
    BY <2>1
  <2> QED BY <1>1, <2>1, <2>2 DEF Planned, Signed, Android
<1> QED BY <1>4, <1>5, <1>6, <1>7, <1>8, <1>9, <1>10 DEF Plans

LEMMA WorkingStep ==
  ASSUME TypeOK, NEW c \in Commands, Planned(c), Works(c) \/ Fail(c)
  PROVE  Planned(c)'
<1>1. pc[c] # "idle" /\ pc'[c] \notin Early /\ UNCHANGED <<plan, why, copied>>
  BY WorkingFrame
<1>2. UNCHANGED <<kind, now>>
  BY StepAlone DEF Alone, Works, Step
<1>3. reusable'[c] => reusable[c]
  BY DEF Works, Lead, LockAlone, Follow, Enter, Lookup, TakeHit, Compile, Package, Check,
    Publish, Recheck, Close, Final, CargoRun, Fail, StillReusable, command, TypeOK
<1> QED BY <1>1, <1>2, <1>3 DEF Planned, Early, Signed, Android

\* Plans stay true as the world goes on: versions only grow.
LEMMA PlanStep == TypeOK /\ PlanInv /\ [Next]_vars => PlanInv'
<1> SUFFICES ASSUME TypeOK, PlanInv, [Next]_vars PROVE PlanInv'
  OBVIOUS
<1>1. ASSUME NEW c \in Commands, Step(c) \/ Fail(c) PROVE PlanInv'
  <2>1. Alone(c)
    BY <1>1, StepAlone
  <2>2. Planned(c)'
    BY <1>1, PlanningStep, WorkingStep DEF PlanInv, Step, Plans, Works
  <2>3. ASSUME NEW d \in Commands \ {c} PROVE Planned(d)'
    BY <2>1 DEF PlanInv, Planned, Alone, Signed, Android
  <2> QED BY <2>2, <2>3 DEF PlanInv
<1>2. ASSUME NEW i \in Inputs, Change(i) PROVE PlanInv'
  <2>1. UNCHANGED <<kind, pc, plan, why, copied, reusable>>
    BY <1>2 DEF Change, command
  <2>2. \A j \in Inputs : now[j] \in Nat /\ now'[j] \in Nat /\ now[j] <= now'[j]
    BY <1>2 DEF Change, TypeOK
  <2>3. ASSUME NEW c \in Commands PROVE Planned(c)'
    <3>1. Planned(c)
      BY DEF PlanInv
    <3>2. \A j \in Inputs : plan[c][j] # None => plan[c][j] \in Nat /\ plan[c][j] <= now'[j]
      BY <2>2, <3>1, PlanNumbers DEF Planned
    <3>3. copied[c] # None => copied[c] <= now'["signing"]
      BY <2>2, <3>1, PlanNumbers DEF Planned, Inputs
    <3> QED BY <2>1, <3>1, <3>2, <3>3 DEF Planned, Signed, Android
  <2> QED BY <2>3 DEF PlanInv
<1>3. ASSUME NEW k \in DOMAIN files, Evict(k) PROVE PlanInv'
  BY <1>3 DEF Evict, command, PlanInv, Planned, Signed, Android
<1>4. CASE UNCHANGED vars
  BY <1>4 DEF vars, PlanInv, Planned, Signed, Android
<1> QED BY <1>1, <1>2, <1>3, <1>4 DEF Next

-----------------------------------------------------------------------------
(* The output lock                                                            *)

\* A command is in a root because it was, or because nobody was.
LEMMA EntersFree ==
  ASSUME TypeOK, NEW c \in Commands, Works(c) \/ Fail(c)
  PROVE  pc'[c] \in Inside => pc[c] \in Inside \/ ~Locked(plan[c])
<1> USE DEF TypeOK, Goto, Move, Inside
<1>1. CASE Lead(c) \/ LockAlone(c) \/ Follow(c)
  BY <1>1 DEF Lead, LockAlone, Follow, Enter
<1>2. CASE Lookup(c) \/ TakeHit(c) \/ Check(c)
  BY <1>2 DEF Lookup, TakeHit, Check
<1>3. CASE Compile(c) \/ Package(c) \/ Publish(c) \/ Recheck(c) \/ Close(c)
  BY <1>3 DEF Compile, Package, Publish, Recheck, Close
<1>4. CASE Final(c) \/ CargoRun(c) \/ Fail(c)
  BY <1>4 DEF Final, CargoRun, Fail
<1> QED BY <1>1, <1>2, <1>3, <1>4 DEF Works

LEMMA LockStep == TypeOK /\ LockInv /\ [Next]_vars => LockInv'
<1> SUFFICES ASSUME TypeOK, LockInv, [Next]_vars PROVE LockInv'
  OBVIOUS
<1>1. ASSUME NEW c \in Commands, Step(c) \/ Fail(c) PROVE LockInv'
  <2>1. Alone(c)
    BY <1>1, StepAlone
  <2>2. CASE pc'[c] \notin Inside
    BY <2>1, <2>2 DEF LockInv, Alone
  <2>3. CASE pc'[c] \in Inside
    <3>1. Works(c) \/ Fail(c)
      BY <1>1, <2>3, PlanningFrame DEF Step, Works, Plans
    <3>2. plan' = plan /\ (pc[c] \in Inside \/ ~Locked(plan[c]))
      BY <2>3, <3>1, WorkingFrame, EntersFree
    <3> QED BY <2>1, <3>2 DEF LockInv, Alone, Locked
  <2> QED BY <2>2, <2>3
<1>2. ASSUME NEW i \in Inputs, Change(i) PROVE LockInv'
  BY <1>2 DEF Change, command, LockInv
<1>3. ASSUME NEW k \in DOMAIN files, Evict(k) PROVE LockInv'
  BY <1>3 DEF Evict, command, LockInv
<1>4. CASE UNCHANGED vars
  BY <1>4 DEF vars, LockInv
<1> QED BY <1>1, <1>2, <1>3, <1>4 DEF Next

-----------------------------------------------------------------------------
(* What a root holds                                                          *)

\* A step writes into the root that its command has locked, or is `cargo run`.
LEMMA WritesOwnRoot ==
  ASSUME TypeOK, NEW c \in Commands, Step(c) \/ Fail(c)
  PROVE  \/ UNCHANGED files
         \/ CargoRun(c)
         \/ pc[c] \in Inside /\ \A k : k # plan[c] => At(files, k)' = At(files, k)
<1>1. CASE Compile(c) \/ Package(c)
  <2>1. pc[c] \in Inside /\ \E v : files' = Put(files, plan[c], v)
    BY <1>1 DEF Compile, Package, Move, Inside
  <2>2. \A k : k # plan[c] => At(files', k) = At(files, k)
    BY <2>1 DEF Put, At
  <2> QED BY <2>1, <2>2 DEF At
<1>2. CASE ~(Compile(c) \/ Package(c) \/ CargoRun(c))
  BY <1>2 DEF Step, Freeze, Fingerprint, Identify, CopySigning, VerifyCopy, Name, Admit, Lead,
    LockAlone, Enter, Follow, Lookup, TakeHit, Check, Publish, Recheck, Close, Final, Fail, outputs
<1> QED BY <1>1, <1>2

\* `cargo run` makes in the root what anybody else would have made there.
LEMMA CargoFits ==
  ASSUME TypeOK, PlanInv, NEW c \in Commands, CargoRun(c), NEW d \in Commands, Made(d),
         pc'[d] = pc[d], plan'[d] = plan[d], UNCHANGED <<kind, now>>
  PROVE  Made(d)'
<1>1. ~Android /\ ~Signed /\ pc[c] # "idle" /\ now["toolchain"] \in Nat
  BY DEF CargoRun, Move, Android, Signed, TypeOK, Inputs
<1>2. files' = Put(files, plan[c], Built(c, now["toolchain"]))
  BY DEF CargoRun
<1>3. At(files', plan[c]) = Built(c, now["toolchain"])
      /\ \A k : k # plan[c] => At(files', k) = At(files, k)
  BY <1>2 DEF Put, At
<1>4. MadeFor(Built(c, now["toolchain"]), plan[c])
  BY <1>1, BuiltFacts DEF PlanInv
<1>5. pc[d] \in {"check", "publish"} => MadeFor(At(files', plan[d]), plan[d])
  <2>1. CASE plan[d] = plan[c]
    BY <1>3, <1>4, <2>1
  <2>2. CASE plan[d] # plan[c]
    BY <1>3, <2>2 DEF Made
  <2> QED BY <2>1, <2>2
<1>6. ~Android' /\ plan[d]["signing"] = None
  BY <1>1 DEF PlanInv, Planned, Android
<1> QED BY <1>5, <1>6 DEF Made, MadeFor, At

\* What a command knows of its own root.
LEMMA OwnRoot ==
  ASSUME TypeOK, PlanInv, NEW c \in Commands, Made(c), Step(c) \/ Fail(c)
  PROVE  Made(c)'
<1> SUFFICES ASSUME pc'[c] \in {"check", "publish"} PROVE Made(c)'
  BY DEF Made
<1>1. Alone(c)
  BY StepAlone
<1>2. Package(c) \/ Check(c)
  BY DEF Step, Freeze, Fingerprint, Identify, CopySigning, VerifyCopy, Name, Admit, Lead,
    LockAlone, Enter, Follow, Lookup, TakeHit, Compile, Publish, Recheck, Close, Final, CargoRun,
    Fail, Goto, Move, TypeOK
<1>3. CASE Package(c)
  <2>1. /\ pc[c] # "idle" /\ pc'[c] = "check" /\ UNCHANGED <<plan, why>>
        /\ files[plan[c]].toolchain \in Nat
    BY <1>3, ConstantsAssumption DEF Package, Move, Goto, command, At, TypeOK, Artifact
  <2> DEFINE b == Built(c, files[plan[c]].toolchain)
  <2>2. MadeFor(b, plan[c]) /\ (why[c] = "none" => b.hidden = None)
    BY <2>1, BuiltFacts DEF PlanInv
  <2>3. At(files', plan[c]) = b
    BY <1>3 DEF Package, Put, At
  <2> HIDE DEF b
  <2> QED BY <1>1, <2>1, <2>2, <2>3 DEF Made, MadeFor, At, Alone, Android
<1>4. CASE Check(c)
  <2> DEFINE a == At(files, plan[c])
  <2>1. /\ pc[c] = "check" /\ pc'[c] = "publish" /\ SigningUnchanged(c)
        /\ reusable'[c] = StillReusable(c) /\ UNCHANGED <<plan, why, files>>
    BY <1>4 DEF Check, Goto, outputs, TypeOK
  <2>2. MadeFor(a, plan[c]) /\ (Android /\ why[c] = "none" => a.hidden = None)
    BY <2>1 DEF Made
  <2>3. a \in Artifact
    BY <2>2, AtType DEF MadeFor
  <2>4. plan[c]["signing"] \in {None, a["signing"]}
    <3>1. now["signing"] \in Nat /\ plan[c]["signing"] \in Nat \union {None} /\ a["signing"] \in Nat \union {None}
      BY <2>3, PlanNumbers DEF Inputs, Artifact, Versions
    <3> QED BY <2>1, <2>2, <3>1 DEF MadeFor, SigningUnchanged
  <2>5. Android /\ reusable'[c] => plan[c]["distribution"] \in {None, a["distribution"]}
    <3>1. /\ now["distribution"] \in Nat /\ plan[c]["distribution"] \in Nat \union {None}
          /\ a["distribution"] \in Nat \union {None}
      BY <2>3, PlanNumbers DEF Inputs, Artifact, Versions
    <3>2. Android /\ reusable'[c] => plan[c]["distribution"] = now["distribution"]
      BY <2>1 DEF StillReusable, DistributionMatches
    <3>3. plan[c]["distribution"] # None =>
            plan[c]["distribution"] <= a["distribution"] /\ a["distribution"] <= now["distribution"]
              /\ a["distribution"] # None
      BY <2>2 DEF MadeFor
    <3> HIDE DEF a
    <3> QED BY <3>1, <3>2, <3>3
  <2>6. At(files, plan[c])' = a /\ UNCHANGED <<kind, now>>
    BY <1>1, <2>1 DEF Alone, At
  <2> HIDE DEF a
  <2> QED BY <2>1, <2>2, <2>4, <2>5, <2>6 DEF Made, MadeFor, Android
<1> QED BY <1>2, <1>3, <1>4

LEMMA MadeStep == TypeOK /\ PlanInv /\ LockInv /\ MadeInv /\ [Next]_vars => MadeInv'
<1> SUFFICES ASSUME TypeOK, PlanInv, LockInv, MadeInv, [Next]_vars PROVE MadeInv'
  OBVIOUS
<1>1. ASSUME NEW d \in Commands, At(files, plan[d])' = At(files, plan[d]), UNCHANGED kind,
             pc'[d] = pc[d], plan'[d] = plan[d], why'[d] = why[d], reusable'[d] = reusable[d],
             \A i \in Inputs : now[i] <= now'[i] /\ now'[i] \in Nat
      PROVE  Made(d)'
  <2> SUFFICES ASSUME pc[d] \in {"check", "publish"} PROVE Made(d)'
    BY <1>1 DEF Made
  <2>1. Made(d) /\ MadeFor(At(files, plan[d]), plan[d])
    BY DEF MadeInv, Made
  <2>2. At(files, plan[d]) \in Artifact
    BY <2>1, AtType DEF MadeFor
  <2>3. \A i \in {"signing", "distribution"} :
          /\ i \in Inputs /\ At(files, plan[d])[i] \in Nat \union {None}
          /\ now[i] \in Nat
    BY <2>2, PlanNumbers DEF Inputs, Artifact, Versions
  <2>4. MadeFor(At(files, plan[d]), plan[d])'
    BY <1>1, <2>1, <2>3 DEF MadeFor
  <2> QED BY <1>1, <2>1, <2>4 DEF Made, Android
<1>2. ASSUME NEW c \in Commands, Step(c) \/ Fail(c) PROVE MadeInv'
  <2>1. Alone(c)
    BY <1>2, StepAlone
  <2>2. \A i \in Inputs : now[i] <= now'[i] /\ now'[i] \in Nat
    BY <2>1, PlanNumbers DEF Alone, TypeOK
  <2>3. ASSUME NEW d \in Commands \ {c} PROVE Made(d)'
    <3>1. CASE CargoRun(c)
      BY <2>1, <3>1, CargoFits DEF Alone, MadeInv
    <3>2. CASE UNCHANGED files
      BY <1>1, <2>1, <2>2, <3>2 DEF Alone, At
    <3>3. CASE pc[c] \in Inside /\ \A k : k # plan[c] => At(files, k)' = At(files, k)
      <4>1. CASE pc[d] \in {"check", "publish"}
        <5>1. plan[d] # plan[c]
          BY <3>3, <4>1 DEF LockInv, Inside
        <5>2. At(files, plan[d])' = At(files, plan[d])
          BY <2>1, <3>3, <5>1 DEF Alone, At
        <5> QED BY <1>1, <2>1, <2>2, <5>2 DEF Alone
      <4>2. CASE pc[d] \notin {"check", "publish"}
        BY <2>1, <4>2 DEF Made, Alone
      <4> QED BY <4>1, <4>2
    <3> QED BY <1>2, <3>1, <3>2, <3>3, WritesOwnRoot
  <2> QED BY <1>2, <2>3, OwnRoot DEF MadeInv
<1>3. ASSUME NEW i \in Inputs, Change(i) PROVE MadeInv'
  <2>1. UNCHANGED <<kind, pc, plan, why, reusable, files>>
    BY <1>3 DEF Change, command, outputs
  <2>2. \A j \in Inputs : now[j] <= now'[j] /\ now'[j] \in Nat
    BY <1>3 DEF Change, TypeOK
  <2> QED BY <1>1, <2>1, <2>2 DEF MadeInv, At
<1>4. ASSUME NEW k \in DOMAIN files, Evict(k) PROVE MadeInv'
  <2>1. UNCHANGED <<kind, now, pc, plan, why, reusable>> /\ ~Locked(k) /\ files' = Put(files, k, None)
    BY <1>4 DEF Evict, command
  <2>2. ASSUME NEW d \in Commands PROVE Made(d)'
    <3>1. CASE pc[d] \in {"check", "publish"}
      <4>1. plan[d] # k
        BY <2>1, <3>1 DEF Locked, Inside
      <4>2. At(files', plan[d]) = At(files, plan[d])
        BY <2>1, <4>1 DEF Put, At
      <4>3. \A j \in Inputs : now[j] <= now'[j] /\ now'[j] \in Nat
        BY <2>1, PlanNumbers DEF TypeOK
      <4> QED BY <1>1, <2>1, <4>2, <4>3 DEF At
    <3>2. CASE pc[d] \notin {"check", "publish"}
      BY <2>1, <3>2 DEF Made
    <3> QED BY <3>1, <3>2
  <2> QED BY <2>2 DEF MadeInv
<1>5. CASE UNCHANGED vars
  BY <1>5 DEF vars, MadeInv, Made, MadeFor, At, Android
<1> QED BY <1>2, <1>3, <1>4, <1>5 DEF Next

-----------------------------------------------------------------------------
(* Manifests                                                                  *)

\* What is published matches its key.
LEMMA PublishedIsHonest ==
  ASSUME TypeOK, PlanInv, MadeInv, NEW c \in Commands, pc[c] = "publish", Android => reusable[c]
  PROVE  Honest(At(files, plan[c]), plan[c])
<1> DEFINE a == At(files, plan[c])
<1>1. MadeFor(a, plan[c]) /\ plan[c]["signing"] \in {None, a["signing"]}
  BY DEF MadeInv, Made
<1>2. plan[c]["distribution"] \in {None, a["distribution"]}
  BY DEF MadeInv, Made, PlanInv, Planned
<1>3. Android => a.hidden = None
  BY DEF MadeInv, Made, PlanInv, Planned
<1> HIDE DEF a
<1>4. Matches(a, plan[c])
  BY <1>1, <1>2 DEF Matches, Answers, MadeFor
<1> QED BY <1>3, <1>4 DEF Honest, a

LEMMA ManifestStep ==
  TypeOK /\ PlanInv /\ MadeInv /\ ManifestInv /\ [Next]_vars => ManifestInv'
<1> SUFFICES ASSUME TypeOK, PlanInv, MadeInv, ManifestInv, [Next]_vars PROVE ManifestInv'
  OBVIOUS
<1>1. ASSUME UNCHANGED <<kind, manifest>> PROVE ManifestInv'
  BY <1>1 DEF ManifestInv, Honest, Matches, Android
<1>2. ASSUME NEW k, NEW v, manifest' = Put(manifest, k, v), UNCHANGED kind,
             v # None => Honest(v, k)
      PROVE  ManifestInv'
  <2>1. /\ DOMAIN manifest' = DOMAIN manifest \union {k} /\ manifest'[k] = v
        /\ \A x \in DOMAIN manifest : x # k => manifest'[x] = manifest[x]
    BY <1>2 DEF Put
  <2>2. \A x \in DOMAIN manifest' : manifest'[x] # None => Honest(manifest'[x], x)
    BY <1>2, <2>1 DEF ManifestInv
  <2> QED BY <1>2, <2>2 DEF ManifestInv, Honest, Matches, Android
<1>3. ASSUME NEW c \in Commands, Step(c) \/ Fail(c) PROVE ManifestInv'
  <2>1. UNCHANGED kind
    BY <1>3, StepAlone DEF Alone
  <2>2. CASE Publish(c) /\ (Android => reusable[c])
    <3>1. pc[c] = "publish" /\ manifest' = Put(manifest, plan[c], At(files, plan[c]))
      BY <2>2 DEF Publish, Move
    <3> QED BY <1>2, <2>1, <2>2, <3>1, PublishedIsHonest
  <2>3. CASE ~(Publish(c) /\ (Android => reusable[c]))
    BY <1>1, <1>3, <2>1, <2>3 DEF Step, Freeze, Fingerprint, Identify, CopySigning, VerifyCopy,
      Name, Admit, Lead, LockAlone, Enter, Follow, Lookup, TakeHit, Compile, Package, Check,
      Publish, Recheck, Close, Final, CargoRun, Fail, outputs
  <2> QED BY <2>2, <2>3
<1>4. ASSUME NEW i \in Inputs, Change(i) PROVE ManifestInv'
  BY <1>1, <1>4 DEF Change, outputs
<1>5. ASSUME NEW k \in DOMAIN files, Evict(k) PROVE ManifestInv'
  BY <1>2, <1>5 DEF Evict
<1>6. CASE UNCHANGED vars
  BY <1>1, <1>6 DEF vars
<1> QED BY <1>3, <1>4, <1>5, <1>6 DEF Next

-----------------------------------------------------------------------------
(* The theorems                                                               *)

LEMMA InitInv == Init => IInv
<1> SUFFICES ASSUME Init PROVE IInv
  OBVIOUS
<1>1. \A c \in Commands : pc[c] = "idle" /\ plan[c] = NoPlan /\ copied[c] = None /\ reusable[c] = FALSE
  BY DEF Init
<1>2. TypeOK
  <2>1. plan \in [Commands -> Keys] /\ now \in [Inputs -> Nat]
    BY DEF Init, Keys, Versions, NoPlan
  <2>2. pc \in [Commands -> Labels] /\ why \in [Commands -> Reasons]
        /\ copied \in [Commands -> Versions] /\ reusable \in [Commands -> BOOLEAN]
        /\ role \in [Commands -> {None, "leader", "alone", "follower"}]
        /\ got \in [Commands -> Artifact \union {None}]
    BY DEF Init, Labels, Reasons, Versions
  <2>3. DOMAIN files = {} /\ DOMAIN manifest = {} /\ succeeded = {}
    BY DEF Init
  <2> QED BY <2>1, <2>2, <2>3 DEF TypeOK, Init
<1>3. PlanInv
  BY <1>1 DEF PlanInv, Planned, NoPlan, Inputs
<1>4. LockInv /\ MadeInv
  BY <1>1 DEF LockInv, MadeInv, Made, Inside
<1>5. ManifestInv
  BY DEF Init, ManifestInv
<1> QED BY <1>2, <1>3, <1>4, <1>5 DEF IInv

LEMMA InvHolds == Spec => []IInv
<1>1. IInv /\ [Next]_vars => IInv'
  BY TypeStep, PlanStep, LockStep, MadeStep, ManifestStep DEF IInv
<1> QED BY <1>1, InitInv, PTL DEF Spec

\* What verifies is what a manifest lists.
LEMMA VerifiedIsHonest ==
  ASSUME ManifestInv, NEW k, Verified(k)
  PROVE  k \in DOMAIN files /\ Honest(files[k], k) /\ At(files, k) = files[k]
BY DEF ManifestInv, Verified, At

\* The types are kept, and an output that verifies was made from what its key says,
\* whatever changed while it was built and whoever else wrote in its root
\* (lookup_verified of build_cache.rs, verify_unchanged of build_inputs.rs, and the
\* manifests that run.rs publishes after a build).
THEOREM OutputsMatchKeys == Spec => []Inv
<1>1. IInv => Inv
  BY VerifiedIsHonest DEF IInv, Inv, OutputMatchesKey, Honest
<1> QED BY <1>1, InvHolds, PTL

\* A mobile build returned as reusable was whole and made from the plan of the
\* command that returns it (build_ios_app and build_android_apk of run.rs).
THEOREM ResultsArePlanned == Spec => ReturnedIsPlanned
<1>1. ASSUME IInv, Next, NEW c \in Commands, pc[c] # "returned", pc'[c] = "returned",
             kind # "desktop", Android => reusable'[c]
      PROVE  Matches(got'[c], plan[c]) /\ (Android => got'[c].hidden = None)
  <2>1. Final(c)
    <3>1. PICK d \in Commands : Step(d) \/ Fail(d)
      BY <1>1 DEF Next, Change, Evict, command
    <3>2. d = c
      BY <1>1, <3>1, StepAlone DEF IInv, Alone
    <3> QED
      BY <1>1, <3>1, <3>2 DEF Step, Freeze, Fingerprint, Identify, CopySigning, VerifyCopy,
        Name, Admit, Lead, LockAlone, Enter, Follow, Lookup, TakeHit, Compile, Package, Check,
        Publish, Recheck, Close, CargoRun, Fail, Goto, Move, IInv, TypeOK
  <2>2. reusable'[c] = StillReusable(c)
    <3>1. reusable' = [reusable EXCEPT ![c] = StillReusable(c)]
      BY <2>1 DEF Final
    <3>2. c \in DOMAIN reusable
      BY <1>1 DEF IInv, TypeOK
    <3> HIDE DEF StillReusable
    <3> QED BY <3>1, <3>2
  <2>3. Verified(plan[c]) /\ got'[c] = At(files, plan[c])
    BY <1>1, <2>1, <2>2 DEF Final, Goto, IInv, TypeOK
  <2> QED BY <1>1, <2>3, VerifiedIsHonest DEF IInv, Honest
<1>2. ASSUME IInv, [Next]_vars
      PROVE  [\A c \in Commands :
                /\ pc[c] # "returned" /\ pc'[c] = "returned"
                /\ kind # "desktop" /\ (Android => reusable'[c])
                => Matches(got'[c], plan[c]) /\ (Android => got'[c].hidden = None)]_vars
  BY <1>1, <1>2
<1>3. IInv /\ [Next]_vars
        => [\A c \in Commands :
              /\ pc[c] # "returned" /\ pc'[c] = "returned"
              /\ kind # "desktop" /\ (Android => reusable'[c])
              => Matches(got'[c], plan[c]) /\ (Android => got'[c].hidden = None)]_vars
  BY <1>2
<1> QED BY <1>3, InvHolds, PTL DEF Spec, ReturnedIsPlanned
====
