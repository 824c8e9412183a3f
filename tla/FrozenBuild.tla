------------------------------ MODULE FrozenBuild ------------------------------
(***************************************************************************)
(* `gpui build` and `gpui run` reuse an output by the name of what it was  *)
(* built from.  A command freezes the sources in a workspace of its own,   *)
(* reads the identities of the toolchain, the signing inputs and the       *)
(* Gradle distribution, and derives the BuildKey and its output root from  *)
(* them.  Then it compiles in that root, or takes what it finds verified   *)
(* there, while the user, rustup, Gradle or `gpui cache clean` may change  *)
(* anything that is not frozen.                                            *)
(*                                                                         *)
(* What a key cannot carry (a build script, global Gradle settings) makes  *)
(* a plan unfit for reuse; the command then builds under the output lock   *)
(* alone.  The election of a leader is BuildCoordinator; here a command    *)
(* leads, or follows a success that it verified.                           *)
(*                                                                         *)
(* An input that changes gets a version it never had before: a change      *)
(* that is undone before the next comparison is not seen by the code.      *)
(***************************************************************************)
EXTENDS Naturals, FiniteSets

CONSTANTS
  Commands,     \* runs of `gpui build` or `gpui run` for one platform
  Kinds,        \* the kinds of build: see AllKinds
  None,         \* no identity, no output
  MaxChanges,   \* bound on the changes of inputs
  MaxFailures   \* bound on the steps that fail and on the evictions

\* A desktop binary, an app for the iOS simulator or for a device, an APK with
\* the default debug key or with the project's own key.
AllKinds == {"desktop", "simulator", "device", "debug", "custom"}

\* What an artifact was made from: the version of each input, and the command
\* whose own settings went into it, if any.
Versions == Nat \union {None}
Artifact == [source : Nat, toolchain : Nat, signing : Versions, distribution : Versions,
             hidden : Commands \union {None, "unfinished"}]

ASSUME ConstantsAssumption ==
  /\ Kinds \subseteq AllKinds
  /\ MaxChanges \in Nat /\ MaxFailures \in Nat
  /\ None \notin Nat \union Commands \union {"unfinished"}
  /\ None \notin Artifact /\ "unfinished" \notin Commands

VARIABLES
  kind,       \* what is built
  now,        \* the inputs as they are: the version of each
  pc,
  plan,       \* the identities a command read: its BuildKey
  why,        \* why its plan may not be reused, if so
  copied,     \* the version of the signing inputs in its frozen workspace
  reusable,   \* its variable of that name
  role,       \* how it entered the output root
  files,      \* the artifacts in the output root of a key
  manifest,   \* the artifacts that the manifest of that root describes
  succeeded,  \* the keys whose coordinator record is Succeeded
  got,        \* the artifacts at the path a command returned
  changes, failures

vars == <<kind, now, pc, plan, why, copied, reusable, role, files, manifest,
          succeeded, got, changes, failures>>
command == <<plan, why, copied, reusable, role, got>>
outputs == <<files, manifest, succeeded>>
world == <<kind, now, changes, failures>>

Inputs == {"source", "toolchain", "signing", "distribution"}
Reasons == {"none", "hidden", "unidentified"}

Android == kind \in {"debug", "custom"}
Ios == kind \in {"simulator", "device"}
\* The builds that sign, and the one whose keys are copied in its workspace.
Signed == kind \in {"device", "debug", "custom"}
Copies == kind = "custom"

NoPlan == [i \in Inputs |-> None]

Init ==
  /\ kind \in Kinds
  /\ now = [i \in Inputs |-> 0]
  /\ pc = [c \in Commands |-> "idle"]
  /\ plan = [c \in Commands |-> NoPlan]
  /\ why = [c \in Commands |-> "none"]
  /\ copied = [c \in Commands |-> None]
  /\ reusable = [c \in Commands |-> FALSE]
  /\ role = [c \in Commands |-> None]
  /\ files = <<>> /\ manifest = <<>> /\ succeeded = {}
  /\ got = [c \in Commands |-> None]
  /\ changes = 0 /\ failures = 0

At(f, k) == IF k \in DOMAIN f THEN f[k] ELSE None
Put(f, k, v) == [x \in DOMAIN f \union {k} |-> IF x = k THEN v ELSE f[x]]

\* The manifest is there and the files hash to what it lists.
Verified(k) == At(manifest, k) # None /\ At(files, k) = At(manifest, k)

\* The output lock of a root is held from the choice to reuse or build to the
\* end of the build closure.
Inside == {"lookup", "hit", "compile", "package", "check", "publish", "recheck", "close"}
Locked(k) == \E c \in Commands : pc[c] \in Inside /\ plan[c] = k

Goto(c, label) == pc' = [pc EXCEPT ![c] = label]
Move(c, from, to) == pc[c] = from /\ Goto(c, to)

(***************************************************************************)
(* Identities: what verify_unchanged and matches_current compare.           *)
(***************************************************************************)
SigningUnchanged(c) == plan[c]["signing"] \in {None, now["signing"]}
DistributionMatches(c) == plan[c]["distribution"] = now["distribution"]
\* A step of an Android build looks at the distribution again; a mismatch
\* means that the result will not be shared, and nothing more.
StillReusable(c) == reusable[c] /\ (Android => DistributionMatches(c))
\* The debug key store is compared only for a result that may be shared.
Compares(c, shared) == kind # "debug" \/ shared

(***************************************************************************)
(* The plan                                                                *)
(***************************************************************************)
Freeze(c) ==
  /\ Move(c, "idle", "frozen")
  /\ plan' = [plan EXCEPT ![c]["source"] = now["source"]]
  /\ UNCHANGED <<why, copied, reusable, role, got, outputs, world>>

\* The toolchain is identified; a project, an environment or a machine that
\* the planner cannot account for disables reuse.
Fingerprint(c) ==
  /\ Move(c, "frozen", "identify")
  /\ plan' = [plan EXCEPT ![c]["toolchain"] = now["toolchain"]]
  /\ \E r \in Reasons : why' = [why EXCEPT ![c] = r]
  /\ UNCHANGED <<copied, reusable, role, got, outputs, world>>

Identify(c) ==
  /\ Move(c, "identify", IF Copies /\ why[c] # "unidentified" THEN "copy" ELSE "name")
  /\ IF Signed /\ why[c] # "unidentified"
       THEN plan' = [plan EXCEPT ![c]["signing"] = now["signing"]]
       ELSE UNCHANGED plan
  /\ UNCHANGED <<why, copied, reusable, role, got, outputs, world>>

CopySigning(c) ==
  /\ Move(c, "copy", "verify_copy")
  /\ copied' = [copied EXCEPT ![c] = now["signing"]]
  /\ UNCHANGED <<plan, why, reusable, role, got, outputs, world>>

VerifyCopy(c) ==
  /\ pc[c] = "verify_copy"
  /\ Goto(c, IF SigningUnchanged(c) THEN "name" ELSE "failed")
  /\ UNCHANGED <<command, outputs, world>>

\* The last identity, the key, and the output root it names.
Name(c) ==
  /\ Move(c, "name", "planned")
  /\ IF Android /\ why[c] # "unidentified"
       THEN plan' = [plan EXCEPT ![c]["distribution"] = now["distribution"]]
       ELSE UNCHANGED plan
  /\ UNCHANGED <<why, copied, reusable, role, got, outputs, world>>

Admit(c) ==
  /\ pc[c] = "planned"
  /\ LET shared == why[c] = "none" /\ (Android => DistributionMatches(c))
     IN  /\ reusable' = [reusable EXCEPT ![c] = shared]
         /\ Goto(c, IF Compares(c, shared) => SigningUnchanged(c)
                      THEN "admitted" ELSE "failed")
  /\ UNCHANGED <<plan, why, copied, role, got, outputs, world>>

(***************************************************************************)
(* The output root: coordinated_build and the build closure                *)
(***************************************************************************)
Enter(c, how) ==
  /\ Move(c, "admitted", "lookup")
  /\ ~Locked(plan[c])
  /\ role' = [role EXCEPT ![c] = how]
  /\ UNCHANGED <<plan, why, copied, reusable, got, files, manifest, world>>

\* A new attempt replaces the record of the last one.
Lead(c) ==
  /\ reusable[c] /\ Enter(c, "leader")
  /\ succeeded' = succeeded \ {plan[c]}

LockAlone(c) ==
  /\ ~reusable[c] /\ Enter(c, "alone")
  /\ UNCHANGED succeeded

\* Another command's success is taken when the output verifies.
Follow(c) ==
  /\ reusable[c] /\ plan[c] \in succeeded /\ Verified(plan[c])
  /\ Move(c, "admitted", "final")
  /\ role' = [role EXCEPT ![c] = "follower"]
  /\ UNCHANGED <<plan, why, copied, reusable, got, outputs, world>>

\* The closure looks at the identities again before it looks for a hit.
Lookup(c) ==
  /\ pc[c] = "lookup"
  /\ reusable' = [reusable EXCEPT ![c] = StillReusable(c)]
  /\ \/ /\ Compares(c, StillReusable(c)) /\ ~SigningUnchanged(c)
        /\ Goto(c, "failed")
     \/ /\ Compares(c, StillReusable(c)) => SigningUnchanged(c)
        /\ Goto(c, IF StillReusable(c) /\ Verified(plan[c]) THEN "hit" ELSE "compile")
  /\ UNCHANGED <<plan, why, copied, role, got, outputs, world>>

\* An Android hit counts only if nothing changed while it was verified.
TakeHit(c) ==
  /\ pc[c] = "hit"
  /\ reusable' = [reusable EXCEPT ![c] = StillReusable(c)]
  /\ Goto(c, IF ~Android THEN "close"
             ELSE IF ~StillReusable(c) THEN "compile"
             ELSE IF SigningUnchanged(c) THEN "close" ELSE "failed")
  /\ UNCHANGED <<plan, why, copied, role, got, outputs, world>>

\* What a compiler that runs now in c's frozen workspace makes of its inputs.
Built(c, toolchain) ==
  [source |-> plan[c]["source"],
   toolchain |-> toolchain,
   signing |-> IF ~Signed THEN None ELSE IF copied[c] # None THEN copied[c] ELSE now["signing"],
   distribution |-> IF Android THEN now["distribution"] ELSE None,
   hidden |-> IF why[c] = "hidden" THEN c ELSE None]
Unfinished(c) == [Built(c, now["toolchain"]) EXCEPT !.hidden = "unfinished"]

\* Cargo writes in the output root first; Xcode or Gradle then signs and
\* packages what it made.
Compile(c) ==
  /\ Move(c, "compile", "package")
  /\ files' = Put(files, plan[c], Unfinished(c))
  /\ UNCHANGED <<command, manifest, succeeded, world>>

Package(c) ==
  /\ Move(c, "package", "check")
  /\ At(files, plan[c]) # None
  /\ files' = Put(files, plan[c], Built(c, files[plan[c]].toolchain))
  /\ UNCHANGED <<command, manifest, succeeded, world>>

\* The signing inputs are not compared again after the build.
CheckSharingOnly(c) ==
  /\ Move(c, "check", "publish")
  /\ reusable' = [reusable EXCEPT ![c] = StillReusable(c)]
  /\ UNCHANGED <<plan, why, copied, role, got, outputs, world>>

\* Nothing is published when the signing inputs changed since the plan.
Check(c) ==
  /\ pc[c] = "check"
  /\ reusable' = [reusable EXCEPT ![c] = StillReusable(c)]
  /\ Goto(c, IF SigningUnchanged(c) THEN "publish" ELSE "failed")
  /\ UNCHANGED <<plan, why, copied, role, got, outputs, world>>

\* Every result gets a manifest.
PublishAlways(c) ==
  /\ Move(c, "publish", "recheck")
  /\ manifest' = Put(manifest, plan[c], At(files, plan[c]))
  /\ UNCHANGED <<command, files, succeeded, world>>

\* Android publishes a manifest for a result that may be shared; the others
\* publish one for every result.
Publish(c) ==
  /\ Move(c, "publish", "recheck")
  /\ IF Android => reusable[c]
       THEN manifest' = Put(manifest, plan[c], At(files, plan[c]))
       ELSE UNCHANGED manifest
  /\ UNCHANGED <<command, files, succeeded, world>>

Recheck(c) ==
  /\ pc[c] = "recheck"
  /\ Goto(c, IF kind = "debug" \/ SigningUnchanged(c) THEN "close" ELSE "failed")
  /\ UNCHANGED <<command, outputs, world>>

\* A leader succeeds only with an output that verifies.
Close(c) ==
  /\ pc[c] = "close"
  /\ LET ended == role[c] = "leader" => Verified(plan[c])
     IN  /\ Goto(c, IF ended THEN "final" ELSE "failed")
         /\ IF role[c] = "leader" /\ ended
              THEN succeeded' = succeeded \union {plan[c]}
              ELSE UNCHANGED succeeded
  /\ UNCHANGED <<command, files, manifest, world>>

\* The success of the build is enough.
ReturnUnverified(c) ==
  /\ Move(c, "final", "returned")
  /\ reusable' = [reusable EXCEPT ![c] = StillReusable(c)]
  /\ got' = [got EXCEPT ![c] = At(files, plan[c])]
  /\ UNCHANGED <<plan, why, copied, role, outputs, world>>

\* The lock is free again: the command compares and verifies for the last
\* time, and returns the path.  What cannot be shared is returned as it is.
Final(c) ==
  /\ pc[c] = "final"
  /\ reusable' = [reusable EXCEPT ![c] = StillReusable(c)]
  /\ LET compared == Compares(c, StillReusable(c)) => SigningUnchanged(c)
         verified == \/ kind = "desktop"
                     \/ Android /\ ~StillReusable(c)
                     \/ Verified(plan[c])
     IN  IF compared /\ verified
           THEN Goto(c, "returned") /\ got' = [got EXCEPT ![c] = At(files, plan[c])]
           ELSE Goto(c, "failed") /\ UNCHANGED got
  /\ UNCHANGED <<plan, why, copied, role, outputs, world>>

\* `gpui run` on the desktop runs Cargo again, in its own frozen workspace and
\* in the output root, whose lock it no longer holds.
CargoRun(c) ==
  /\ kind = "desktop" /\ Move(c, "returned", "running")
  /\ files' = Put(files, plan[c], Built(c, now["toolchain"]))
  /\ UNCHANGED <<command, manifest, succeeded, world>>

(***************************************************************************)
(* The world                                                               *)
(***************************************************************************)
Change(i) ==
  /\ changes < MaxChanges
  /\ changes' = changes + 1
  /\ now' = [now EXCEPT ![i] = @ + 1]
  /\ UNCHANGED <<kind, pc, command, outputs, failures>>

\* A step fails or the process dies, and the operating system frees its lock.
Fail(c) ==
  /\ pc[c] \notin {"idle", "failed", "returned", "running"}
  /\ failures < MaxFailures
  /\ failures' = failures + 1
  /\ Goto(c, "failed")
  /\ UNCHANGED <<command, outputs, kind, now, changes>>

\* The cleaner empties a root whose lock it gets: nothing but the lock stays.
Evict(k) ==
  /\ failures < MaxFailures
  /\ failures' = failures + 1
  /\ ~Locked(k)
  /\ files' = Put(files, k, None) /\ manifest' = Put(manifest, k, None)
  /\ succeeded' = succeeded \ {k}
  /\ UNCHANGED <<command, pc, kind, now, changes>>

Step(c) ==
  \/ Freeze(c) \/ Fingerprint(c) \/ Identify(c) \/ CopySigning(c) \/ VerifyCopy(c)
  \/ Name(c) \/ Admit(c) \/ Lead(c) \/ LockAlone(c) \/ Follow(c) \/ Lookup(c)
  \/ TakeHit(c) \/ Compile(c) \/ Package(c) \/ Check(c) \/ Publish(c) \/ Recheck(c)
  \/ Close(c) \/ Final(c) \/ CargoRun(c)

Next ==
  \/ \E c \in Commands : Step(c) \/ Fail(c)
  \/ \E i \in Inputs : Change(i)
  \/ \E k \in DOMAIN files : Evict(k)

Spec == Init /\ [][Next]_vars

(***************************************************************************)
(* Properties                                                              *)
(***************************************************************************)
Keys == [Inputs -> Versions]
Labels == Inside \union {"idle", "frozen", "identify", "copy", "verify_copy", "name",
                         "planned", "admitted", "final", "returned", "running", "failed"}
TypeOK ==
  /\ kind \in Kinds
  /\ now \in [Inputs -> Nat]
  /\ pc \in [Commands -> Labels]
  /\ plan \in [Commands -> Keys]
  /\ why \in [Commands -> Reasons]
  /\ copied \in [Commands -> Versions]
  /\ reusable \in [Commands -> BOOLEAN]
  /\ role \in [Commands -> {None, "leader", "alone", "follower"}]
  /\ DOMAIN files \subseteq Keys /\ DOMAIN manifest \subseteq Keys /\ succeeded \subseteq Keys
  /\ \A k \in DOMAIN files : files[k] \in Artifact \union {None}
  /\ \A k \in DOMAIN manifest : manifest[k] \in Artifact \union {None}
  /\ got \in [Commands -> Artifact \union {None}]
  /\ changes \in Nat /\ failures \in Nat

\* What a key stands for in an artifact.  rustc, Xcode and the NDK are named by
\* the key but never compared again, so the key does not answer for them.
Answers == {"source", "signing", "distribution"}
Matches(artifact, k) ==
  /\ artifact # None
  /\ artifact.hidden # "unfinished"
  /\ \A i \in Answers : k[i] \in {None, artifact[i]}

\* Whatever changed while it was built, and whoever else wrote in its root, an
\* output that verifies was made from what its key says; an APK that verifies,
\* moreover, owes nothing to an input that the key does not carry.
OutputMatchesKey ==
  \A k \in DOMAIN manifest :
    Verified(k) => Matches(files[k], k) /\ (Android => files[k].hidden = None)

\* The app a mobile build returns as reusable was, at that moment, whole and
\* made from the plan of the command that returns it, whoever had built it and
\* whatever was evicted or built in the same root since.
ReturnedIsPlanned ==
  [][\A c \in Commands :
       /\ pc[c] # "returned" /\ pc'[c] = "returned"
       /\ kind # "desktop" /\ (Android => reusable'[c])
       => Matches(got'[c], plan[c]) /\ (Android => got'[c].hidden = None)]_vars

Inv == TypeOK /\ OutputMatchesKey
=============================================================================
