------------------------- MODULE ArtifactStoreProofs --------------------------
(***************************************************************************)
(* Proofs about ArtifactStore: what is published is whole and verified at  *)
(* every point of every call, the bytes that all sessions store stay       *)
(* within the quota of the project, and a published file that is pinned or *)
(* was used lately stays.                                                  *)
(*                                                                         *)
(* The inductive invariant says for each artifact what its record in       *)
(* memory, its record on disk and its files tell of one another at each    *)
(* point of the call that holds the lock, and counts a transfer that was   *)
(* granted room, and is yet to be declared on disk, as if it were.         *)
(***************************************************************************)
EXTENDS ArtifactStore, FiniteSetTheorems, WellFoundedInduction, TLAPS

-----------------------------------------------------------------------------
(* The sum of declared sizes. *)

\* Declared is a fold.  The library has no facts about folds, and its induction
\* theorems cannot be instantiated here, so they are proved from the smallest set
\* of which they would be false.
Pick(S) == CHOOSE x \in S : TRUE
SumRule(S, f) ==
  [U \in SUBSET S |-> IF U = {} THEN 0 ELSE Bytes[Pick(U)[2]] + f[U \ {Pick(U)}]]

\* There are finitely many artifacts, so every set of them has a sum.
LEMMA SlotsFinite == IsFiniteSet(Slots) /\ \A S \in SUBSET Slots : IsFiniteSet(S)
BY ConstantsAssumption, FS_Product, FS_Subset DEF Slots

\* A declared size is a number of chunks.
LEMMA SizesAreNumbers == \A x \in Slots : Bytes[x[2]] \in Nat
BY ConstantsAssumption DEF Slots

\* A set of sets of artifacts has a smallest one: what stands in for induction on
\* the set whose sizes session_usage and project_usage add up.
LEMMA SmallestSet ==
  ASSUME NEW T \in SUBSET (SUBSET Slots), T # {}
  PROVE  \E U \in T : \A V \in T : V \subseteq U => V = U
<1> DEFINE R == StrictSubsetOrdering(Slots)
<1>1. IsWellFoundedOn(R, SUBSET Slots)
  BY SlotsFinite, FS_StrictSubsetOrderingWellFounded, FS_FiniteSubsetsOfFinite
<1>2. PICK U \in T : \A V \in T : ~ (<<V, U>> \in R)
  <2> HIDE DEF R
  <2> QED BY <1>1, WFMin
<1>3. \A V \in T : V \subseteq U /\ V # U => <<V, U>> \in R
  BY DEF StrictSubsetOrdering
<1> HIDE DEF R
<1>4. ASSUME NEW V \in T, V \subseteq U, V # U PROVE FALSE
  BY <1>2, <1>3, <1>4
<1> QED BY <1>2, <1>4

\* Declared, the sum of reserved_bytes, is what the rule of the sum gives.
LEMMA DeclaredIsSum == \A S : Declared(S) = (CHOOSE f : f = SumRule(S, f))[S]
BY DEF Declared, MapThenSumSet, MapThenFoldSet, SumRule, Pick

\* What a function that obeys the rule says of one set.
LEMMA SumStep ==
  ASSUME NEW S, NEW f, f = SumRule(S, f), NEW U \in SUBSET S
  PROVE  /\ U = {} => f[U] = 0
         /\ U # {} => /\ Pick(U) \in U
                      /\ U \ {Pick(U)} \in SUBSET S /\ U \ {Pick(U)} # U
                      /\ f[U] = Bytes[Pick(U)[2]] + f[U \ {Pick(U)}]
<1>1. f[U] = SumRule(S, f)[U]
  OBVIOUS
<1>2. U # {} => Pick(U) \in U
  BY DEF Pick
<1>3. SumRule(S, f)[U] = IF U = {} THEN 0 ELSE Bytes[Pick(U)[2]] + f[U \ {Pick(U)}]
  BY DEF SumRule
<1> QED BY <1>1, <1>2, <1>3

\* Two functions that obey the rule agree where both are defined.
LEMMA SumsAgree ==
  ASSUME NEW S \in SUBSET Slots, NEW T \in SUBSET Slots, NEW f, NEW g,
         f = SumRule(S, f), g = SumRule(T, g),
         NEW U \in SUBSET Slots, U \subseteq S, U \subseteq T
  PROVE  f[U] = g[U]
<1> DEFINE B == {V \in SUBSET Slots : V \subseteq S /\ V \subseteq T /\ f[V] # g[V]}
<1> SUFFICES ASSUME B # {} PROVE FALSE
  OBVIOUS
<1>1. PICK V \in B : \A W \in B : W \subseteq V => W = V
  <2>1. B \in SUBSET (SUBSET Slots)
    OBVIOUS
  <2> HIDE DEF B
  <2> QED BY <2>1, SmallestSet
<1>2. V # {}
  BY <1>1, SumStep
<1> DEFINE W == V \ {Pick(V)}
<1>3. f[V] = Bytes[Pick(V)[2]] + f[W] /\ g[V] = Bytes[Pick(V)[2]] + g[W] /\ W # V
  BY <1>1, <1>2, SumStep
<1>4. f[W] = g[W]
  BY <1>1, <1>3
<1> HIDE DEF W
<1> QED BY <1>1, <1>3, <1>4

\* There is a function that obeys the rule.
LEMMA SumsExist == \A S \in SUBSET Slots : \E f : f = SumRule(S, f)
<1> DEFINE B == {S \in SUBSET Slots : \A f : f # SumRule(S, f)}
<1> SUFFICES ASSUME B # {} PROVE FALSE
  OBVIOUS
<1>1. PICK S \in B : \A T \in B : T \subseteq S => T = S
  <2>1. B \in SUBSET (SUBSET Slots)
    OBVIOUS
  <2> HIDE DEF B
  <2> QED BY <2>1, SmallestSet
<1> DEFINE F(T) == CHOOSE f : f = SumRule(T, f)
           G(T) == F(T)[T]
           h == [U \in SUBSET S |-> IF U = {} THEN 0 ELSE Bytes[Pick(U)[2]] + G(U \ {Pick(U)})]
<1>2. ASSUME NEW T \in SUBSET S, T # S PROVE F(T) = SumRule(T, F(T))
  <2>1. \E f : f = SumRule(T, f)
    BY <1>1, <1>2
  <2> QED BY <2>1
<1>3. ASSUME NEW T \in SUBSET S, T # S PROVE h[T] = G(T)
  <2>1. F(T) = SumRule(T, F(T))
    BY <1>2, <1>3
  <2>2. CASE T = {}
    <3>1. F(T)[T] = 0
      <4> HIDE DEF F
      <4> QED BY <2>1, <2>2, SumStep
    <3>2. h[T] = 0
      BY <2>2
    <3> QED BY <3>1, <3>2
  <2>3. CASE T # {}
    <3> DEFINE W == T \ {Pick(T)}
    <3>1. F(T)[T] = Bytes[Pick(T)[2]] + F(T)[W] /\ W \in SUBSET T /\ W # T
      <4>1. T \in SUBSET T
        OBVIOUS
      <4> HIDE DEF F
      <4>2. F(T)[T] = Bytes[Pick(T)[2]] + F(T)[T \ {Pick(T)}]
        BY <2>1, <2>3, <4>1, SumStep
      <4>3. T \ {Pick(T)} \in SUBSET T /\ T \ {Pick(T)} # T
        BY <2>1, <2>3, <4>1, SumStep
      <4> QED BY <4>2, <4>3
    <3>2. F(W) = SumRule(W, F(W))
      BY <3>1, <1>2, <1>3
    <3>3. F(T)[W] = F(W)[W]
      <4>1. T \in SUBSET Slots /\ W \in SUBSET Slots
        BY <1>1
      <4> HIDE DEF F, W
      <4> QED BY <2>1, <3>1, <3>2, <4>1, SumsAgree
    <3>4. h[T] = Bytes[Pick(T)[2]] + G(W)
      BY <2>3
    <3> HIDE DEF F, W, h
    <3> QED BY <3>1, <3>3, <3>4
  <2> QED BY <2>2, <2>3
<1>4. ASSUME NEW U \in SUBSET S
      PROVE  h[U] = IF U = {} THEN 0 ELSE Bytes[Pick(U)[2]] + h[U \ {Pick(U)}]
  <2>1. CASE U = {}
    BY <2>1
  <2>2. CASE U # {}
    <3>1. Pick(U) \in U
      BY <2>2 DEF Pick
    <3>2. U \ {Pick(U)} \in SUBSET S /\ U \ {Pick(U)} # S
      BY <3>1
    <3>3. h[U \ {Pick(U)}] = G(U \ {Pick(U)})
      <4> HIDE DEF h, G
      <4> QED BY <1>3, <3>2
    <3>4. h[U] = Bytes[Pick(U)[2]] + G(U \ {Pick(U)})
      BY <2>2
    <3> QED BY <2>2, <3>3, <3>4
  <2> QED BY <2>1, <2>2
<1>5. h = SumRule(S, h)
  <2>1. DOMAIN h = SUBSET S
    OBVIOUS
  <2>2. h = [U \in SUBSET S |-> h[U]]
    OBVIOUS
  <2> HIDE DEF h
  <2> QED BY <1>4, <2>2 DEF SumRule
<1> HIDE DEF h
<1> QED BY <1>1, <1>5

\* The sum of no sizes is 0; the sum of some is the size of one and the rest.
LEMMA DeclaredStep ==
  ASSUME NEW S \in SUBSET Slots
  PROVE  /\ S = {} => Declared(S) = 0
         /\ S # {} => /\ Pick(S) \in S
                      /\ Declared(S) = Bytes[Pick(S)[2]] + Declared(S \ {Pick(S)})
<1> DEFINE F(T) == CHOOSE f : f = SumRule(T, f)
           W == S \ {Pick(S)}
<1>1. \A T \in SUBSET Slots : F(T) = SumRule(T, F(T)) /\ Declared(T) = F(T)[T]
  BY SumsExist, DeclaredIsSum
<1> HIDE DEF F
<1>2. W \in SUBSET Slots
  OBVIOUS
<1>3. S = {} => F(S)[S] = 0
  BY <1>1, SumStep
<1>4. S # {} => Pick(S) \in S /\ F(S)[S] = Bytes[Pick(S)[2]] + F(S)[W]
  <2>1. F(S) = SumRule(S, F(S)) /\ S \in SUBSET S
    BY <1>1
  <2>2. ASSUME S # {}
        PROVE  Pick(S) \in S /\ F(S)[S] = Bytes[Pick(S)[2]] + F(S)[S \ {Pick(S)}]
    <3>1. PICK f : f = F(S)
      OBVIOUS
    <3>2. f = SumRule(S, f)
      BY <2>1, <3>1
    <3>3. Pick(S) \in S /\ f[S] = Bytes[Pick(S)[2]] + f[S \ {Pick(S)}]
      BY <2>1, <2>2, <3>2, SumStep
    <3> QED BY <3>1, <3>3
  <2> QED BY <2>2
<1>5. F(S)[W] = F(W)[W]
  <2>1. F(S) = SumRule(S, F(S)) /\ F(W) = SumRule(W, F(W)) /\ W \subseteq S
    BY <1>1, <1>2
  <2> HIDE DEF W
  <2> QED BY <1>2, <2>1, SumsAgree
<1> HIDE DEF W
<1>6. S # {} => Declared(S) = Bytes[Pick(S)[2]] + Declared(W)
  BY <1>1, <1>2, <1>4, <1>5
<1> QED BY <1>1, <1>3, <1>4, <1>6 DEF W

\* A sum of declared sizes is a number.
LEMMA DeclaredNat == \A S \in SUBSET Slots : Declared(S) \in Nat
<1> DEFINE B == {S \in SUBSET Slots : Declared(S) \notin Nat}
<1> SUFFICES ASSUME B # {} PROVE FALSE
  OBVIOUS
<1>1. PICK S \in B : \A T \in B : T \subseteq S => T = S
  <2>1. B \in SUBSET (SUBSET Slots)
    OBVIOUS
  <2> HIDE DEF B
  <2> QED BY <2>1, SmallestSet
<1>2. S # {}
  <2>1. S \in SUBSET Slots /\ Declared(S) \notin Nat
    BY <1>1
  <2> QED BY <2>1, DeclaredStep
<1>3. Pick(S) \in S /\ Declared(S) = Bytes[Pick(S)[2]] + Declared(S \ {Pick(S)})
  BY <1>1, <1>2, DeclaredStep
<1>4. Declared(S \ {Pick(S)}) \in Nat
  BY <1>1, <1>3
<1>5. Bytes[Pick(S)[2]] \in Nat
  BY <1>1, <1>3, SizesAreNumbers
<1>6. Declared(S) \in Nat
  BY <1>3, <1>4, <1>5
<1> QED BY <1>1, <1>6

\* Any element may be taken out first.
LEMMA DeclaredTake ==
  \A S \in SUBSET Slots : \A x \in S : Declared(S) = Bytes[x[2]] + Declared(S \ {x})
<1> DEFINE B == {S \in SUBSET Slots : \E x \in S : Declared(S) # Bytes[x[2]] + Declared(S \ {x})}
<1> SUFFICES ASSUME B # {} PROVE FALSE
  OBVIOUS
<1>1. PICK S \in B : \A T \in B : T \subseteq S => T = S
  <2>1. B \in SUBSET (SUBSET Slots)
    OBVIOUS
  <2> HIDE DEF B
  <2> QED BY <2>1, SmallestSet
<1>2. PICK x \in S : Declared(S) # Bytes[x[2]] + Declared(S \ {x})
  BY <1>1
<1> DEFINE p == Pick(S)
<1>3. p \in S /\ Declared(S) = Bytes[p[2]] + Declared(S \ {p})
  BY <1>1, <1>2, DeclaredStep
<1> HIDE DEF p
<1>4. p # x
  BY <1>2, <1>3
<1>5. Declared(S \ {p}) = Bytes[x[2]] + Declared((S \ {p}) \ {x})
  <2>1. S \ {p} \in SUBSET Slots /\ S \ {p} # S /\ x \in S \ {p}
    BY <1>1, <1>3, <1>4
  <2> QED BY <1>1, <2>1
<1>6. Declared(S \ {x}) = Bytes[p[2]] + Declared((S \ {x}) \ {p})
  <2>1. S \ {x} \in SUBSET Slots /\ S \ {x} # S /\ p \in S \ {x}
    BY <1>1, <1>3, <1>4
  <2> QED BY <1>1, <2>1
<1>7. (S \ {p}) \ {x} = (S \ {x}) \ {p} /\ (S \ {p}) \ {x} \in SUBSET Slots
  BY <1>1
<1>8. Bytes[x[2]] \in Nat /\ Bytes[p[2]] \in Nat /\ Declared((S \ {p}) \ {x}) \in Nat
  BY <1>1, <1>3, <1>7, SizesAreNumbers, DeclaredNat
<1>9. \A i, j, k \in Nat : i + (j + k) = j + (i + k)
  OBVIOUS
<1>10. Declared(S) = Bytes[p[2]] + (Bytes[x[2]] + Declared((S \ {p}) \ {x}))
  BY <1>3, <1>5
<1>11. Bytes[x[2]] + Declared(S \ {x}) = Bytes[x[2]] + (Bytes[p[2]] + Declared((S \ {p}) \ {x}))
  BY <1>6, <1>7
<1> QED BY <1>2, <1>8, <1>9, <1>10, <1>11

\* One more artifact adds at most its size: what begin adds to the usage.
LEMMA DeclaredAdd ==
  ASSUME NEW S \in SUBSET Slots, NEW x \in Slots
  PROVE  Declared(S \union {x}) <= Declared(S) + Bytes[x[2]]
<1>1. Declared(S) \in Nat /\ Bytes[x[2]] \in Nat
  BY DeclaredNat, SizesAreNumbers
<1>2. CASE x \in S
  <2>1. S \union {x} = S
    BY <1>2
  <2>2. \A m, n \in Nat : m <= m + n
    OBVIOUS
  <2>3. Declared(S) <= Declared(S) + Bytes[x[2]]
    BY <1>1, <2>2
  <2> QED BY <2>1, <2>3
<1>3. CASE x \notin S
  <2>1. (S \union {x}) \ {x} = S /\ S \union {x} \in SUBSET Slots
    BY <1>3
  <2>2. Declared(S \union {x}) = Bytes[x[2]] + Declared(S)
    BY <2>1, DeclaredTake
  <2> QED BY <1>1, <2>2
<1> QED BY <1>2, <1>3

\* Fewer artifacts have no larger a sum: expiry and abort never raise the usage.
LEMMA DeclaredMonotone ==
  \A T \in SUBSET Slots : \A S \in SUBSET T : Declared(S) <= Declared(T)
<1> DEFINE B == {T \in SUBSET Slots : \E S \in SUBSET T : ~ (Declared(S) <= Declared(T))}
<1> SUFFICES ASSUME B # {} PROVE FALSE
  OBVIOUS
<1>1. PICK T \in B : \A U \in B : U \subseteq T => U = T
  <2>1. B \in SUBSET (SUBSET Slots)
    OBVIOUS
  <2> HIDE DEF B
  <2> QED BY <2>1, SmallestSet
<1>2. PICK S \in SUBSET T : ~ (Declared(S) <= Declared(T))
  BY <1>1
<1>3. T \in SUBSET Slots /\ S \in SUBSET Slots /\ Declared(T) \in Nat /\ Declared(S) \in Nat
  BY <1>1, DeclaredNat
<1>4. PICK x \in T : x \notin S
  BY <1>2, <1>3
<1>5. Declared(T) = Bytes[x[2]] + Declared(T \ {x}) /\ Bytes[x[2]] \in Nat
  BY <1>3, DeclaredTake, SizesAreNumbers
<1>6. Declared(S) <= Declared(T \ {x}) /\ Declared(T \ {x}) \in Nat
  <2>1. T \ {x} \in SUBSET Slots /\ T \ {x} # T /\ S \in SUBSET (T \ {x})
    BY <1>3, <1>4
  <2> QED BY <1>1, <2>1, DeclaredNat
<1> QED BY <1>2, <1>3, <1>5, <1>6

-----------------------------------------------------------------------------
(* The inductive invariant. *)

At(l, x) == op.at = l /\ op.x = x

\* The types of what belongs to an artifact (TypeOK).
SlotTypes(x) ==
  /\ record[x] \in Infos \union {None} /\ json[x] \in Infos \union {None}
  /\ part[x] \in Files \union {None} /\ data[x] \in Files \union {None}
  /\ readers[x] \in Nat
  /\ json[x] # None => json[x].refs = 0
  /\ x[1] \notin up => record[x] = None /\ readers[x] = 0

\* A part file is as long as its record says, and a published file is whole, is so
\* by its record on disk, and its session, if it runs, knows it -- but for the
\* moment in which finish publishes it.
Whole(x) == [got |-> Bytes[x[2]], good |-> TRUE]
Filed(x) ==
  /\ Is(x, "receiving") /\ part[x] # None => part[x].got = record[x].got
  /\ Is(x, "published") => part[x] = None
  /\ data[x] # None =>
       /\ data[x] = Whole(x)
       /\ json[x] # None /\ json[x].status \in {"verified", "published"}
       /\ x[1] \in up /\ ~At("publish", x) => Is(x, "published")

\* A session knows of its file what was used as late as the disk does.
Freshened(x) ==
  (data[x] # None \/ At("rename", x)) /\ record[x] # None /\ json[x].fresh => record[x].fresh

\* Bytes that are received are declared on disk.
Covered(x) ==
  part[x] # None => \/ Reserved(json[x])
                    \/ (At("declare", x) \/ x[1] \notin up) /\ part[x].got = 0

SlotInv == \A x \in Slots : SlotTypes(x) /\ Filed(x) /\ Freshened(x) /\ Covered(x)

\* The call that holds the lock, and what it goes by.
Placed == {"create", "declare", "rename", "publish", "discard", "forget"}
Calls ==
  {NoCall}
  \union [at : {"sweep"}, s : Sessions, for : Ids \union {None}]
  \union [at : {"swept"}, s : Sessions, for : Ids \union {None}, x : Slots, i : Infos]
  \union [at : Placed, s : Sessions, x : Slots]
CallInv ==
  /\ op \in Calls /\ (op = NoCall \/ op.s \in up)
  /\ op.at \in Placed => op.x[1] = op.s
  /\ op.at = "swept" => op.i.refs = 0
  /\ op.at \in {"create", "declare"} => record[op.x] = None
  /\ op.at \in {"rename", "publish"} => Is(op.x, "verified")
  /\ op.at = "rename" => /\ json[op.x] # None /\ json[op.x].status = "verified"
                         /\ part[op.x] = Whole(op.x)
  /\ op.at = "declare" => part[op.x] # None /\ part[op.x].got = 0
  /\ op.at \in {"swept", "publish", "forget"} => part[op.x] = None
  /\ op.at \in {"swept", "create", "declare", "discard", "forget"} => data[op.x] = None

\* What is declared on disk and has a file, with the transfer that is about to
\* begin, is within the quota of the project.
Claimed == {x \in Slots : data[x] # None \/ (part[x] # None /\ Reserved(json[x]))}
Promised == IF op.at \in {"create", "declare"} THEN Claimed \union {op.x} ELSE Claimed
ClaimInv == Declared(Promised) <= ProjectQuota

Shape ==
  /\ up \subseteq Sessions
  /\ record = [x \in Slots |-> record[x]]
  /\ json = [x \in Slots |-> json[x]]
  /\ part = [x \in Slots |-> part[x]]
  /\ data = [x \in Slots |-> data[x]]
  /\ readers = [x \in Slots |-> readers[x]]
  /\ ages \in Nat /\ faults \in Nat /\ crashes \in Nat

IInv == Shape /\ SlotInv /\ CallInv /\ ClaimInv

-----------------------------------------------------------------------------
(* Steps that concern one artifact. *)

SlotOK(x) == SlotTypes(x) /\ Filed(x) /\ Freshened(x) /\ Covered(x)

\* A step that leaves all other artifacts alone.
Same(y) ==
  /\ record'[y] = record[y] /\ json'[y] = json[y] /\ readers'[y] = readers[y]
  /\ part'[y] = part[y] /\ data'[y] = data[y]
Away(y) == \A l \in {"declare", "rename", "publish"} : At(l, y)' <=> At(l, y)
Only(x) == \A y \in Slots : y # x => Same(y) /\ Away(y)

\* A step that touches one artifact leaves what is known of the others.
LEMMA OthersKept ==
  ASSUME SlotInv, NEW x \in Slots, Only(x), up' = up, SlotOK(x)'
  PROVE  SlotInv'
<1>1. ASSUME NEW y \in Slots, y # x PROVE SlotOK(y)'
  <2>1. SlotOK(y) /\ Same(y) /\ Away(y)
    BY <1>1 DEF SlotInv, SlotOK, Only
  <2>2. (At("declare", y)' <=> At("declare", y)) /\ (At("rename", y)' <=> At("rename", y))
        /\ (At("publish", y)' <=> At("publish", y))
    BY <2>1 DEF Away
  <2> QED BY <2>1, <2>2 DEF SlotOK, SlotTypes, Filed, Freshened, Covered, Same, Is, Whole, Reserved
<1> QED BY <1>1 DEF SlotInv, SlotOK

\* Only artifacts are promised room.
LEMMA PromisedSlots == CallInv => Promised \in SUBSET Slots
BY DEF Promised, Claimed, CallInv, Calls, NoCall, Placed

\* The quotas stay kept when nothing new is promised room.
LEMMA ClaimsKept ==
  ASSUME ClaimInv, CallInv, Promised' \subseteq Promised
  PROVE  ClaimInv'
<1>1. Promised \in SUBSET Slots
  BY PromisedSlots
<1>2. Declared(Promised') <= Declared(Promised) /\ Declared(Promised') \in Nat /\ Declared(Promised) \in Nat
  BY <1>1, DeclaredMonotone, DeclaredNat
<1>3. Declared(Promised)' = Declared(Promised')
  BY DEF Declared, MapThenSumSet, MapThenFoldSet
<1> QED BY <1>2, <1>3, ConstantsAssumption DEF ClaimInv

\* The frame of most steps: one artifact is touched, the call goes on as it should,
\* and nothing new is promised room.
LEMMA OneSlot ==
  ASSUME IInv, NEW x \in Slots, Only(x), up' = up, Shape', SlotOK(x)', CallInv',
         x \in Promised' => x \in Promised,
         op'.at \in {"create", "declare"} => op.at \in {"create", "declare"} /\ op'.x = op.x
  PROVE  IInv'
<1>1. \A y \in Slots : y # x /\ y \in Claimed' => y \in Claimed
  BY DEF Claimed, Only, Same, Reserved
<1>2. Promised' \subseteq Promised
  BY <1>1, PromisedSlots DEF Promised, IInv, Claimed
<1> QED BY <1>2, OthersKept, ClaimsKept DEF IInv

\* The frame of the steps that only begin, go on with or end a call.
LEMMA CallOnly ==
  ASSUME IInv, UNCHANGED <<up, record, json, files, readers, bounds>>, \A y \in Slots : Away(y),
         CallInv', op'.at \notin {"create", "declare"}
  PROVE  IInv'
<1>1. Shape'
  BY DEF IInv, Shape, files, bounds
<1>2. SlotInv'
  <2>1. ASSUME NEW y \in Slots PROVE SlotOK(y)'
    <3>1. SlotOK(y) /\ Away(y)
      BY DEF SlotOK, SlotInv, IInv
    <3>2. (At("declare", y)' <=> At("declare", y)) /\ (At("rename", y)' <=> At("rename", y))
          /\ (At("publish", y)' <=> At("publish", y))
      BY <3>1 DEF Away
    <3> QED BY <3>1, <3>2 DEF SlotOK, SlotTypes, Filed, Freshened, Covered, Is, Whole, Reserved, files
  <2> QED BY <2>1 DEF SlotInv, SlotOK
<1>3. Promised' \subseteq Promised
  BY DEF Promised, Claimed, files, Reserved
<1> QED BY <1>1, <1>2, <1>3, ClaimsKept DEF IInv

\* What rewriting the status of a record does (touch_info).
LEMMA TouchedOps ==
  ASSUME NEW i \in Infos, NEW st \in Statuses
  PROVE  /\ Touched(i, st) \in Infos /\ Touched(i, st).status = st /\ Touched(i, st).fresh
         /\ Touched(i, st).got = i.got /\ Touched(i, st).refs = i.refs
         /\ Touched(i, st).pinned = i.pinned
BY DEF Touched, Infos

\* What the updates of a record keep of it.
LEMMA RecordOps ==
  ASSUME NEW i \in Infos, NEW st \in Statuses
  PROVE  /\ i # None /\ i.got \in Nat /\ i.refs \in Nat
         /\ [Touched(i, st) EXCEPT !.got = @ + 1] \in Infos
         /\ [Touched(i, st) EXCEPT !.got = @ + 1].status = st
         /\ [Touched(i, st) EXCEPT !.got = @ + 1].fresh
         /\ [Touched(i, st) EXCEPT !.got = @ + 1].got = i.got + 1
         /\ [Touched(i, st) EXCEPT !.refs = @ + 1] \in Infos
         /\ [Touched(i, st) EXCEPT !.refs = @ + 1].status = st
         /\ [Touched(i, st) EXCEPT !.refs = @ + 1].fresh
         /\ Expired(i) \in Infos /\ Expired(i).status = "expired" /\ Expired(i).fresh
         /\ Expired(i).refs = i.refs
         /\ [i EXCEPT !.refs = 0] \in Infos /\ [i EXCEPT !.refs = 0].refs = 0
         /\ [i EXCEPT !.refs = 0].status = i.status /\ [i EXCEPT !.refs = 0].fresh = i.fresh
<1> DEFINE t == Touched(i, st)
           u == Touched(i, "expired")
<1>1. i # None /\ i.got \in Nat /\ i.refs \in Nat
  BY ConstantsAssumption DEF Infos
<1>2. t \in Infos /\ t.status = st /\ t.fresh /\ t.got = i.got
  BY TouchedOps
<1>3. u \in Infos /\ u.status = "expired" /\ u.fresh /\ u.refs = i.refs
  BY TouchedOps DEF Statuses
<1>4. [i EXCEPT !.refs = 0] \in Infos /\ [i EXCEPT !.refs = 0].refs = 0
      /\ [i EXCEPT !.refs = 0].status = i.status /\ [i EXCEPT !.refs = 0].fresh = i.fresh
  BY DEF Infos
<1>5. Expired(i) = [u EXCEPT !.got = 0]
  BY DEF Expired
<1> HIDE DEF t, u
<1>6. /\ [t EXCEPT !.got = @ + 1] \in Infos
      /\ [t EXCEPT !.got = @ + 1].status = st
      /\ [t EXCEPT !.got = @ + 1].fresh
      /\ [t EXCEPT !.got = @ + 1].got = i.got + 1
  BY <1>1, <1>2 DEF Infos
<1>7. /\ [t EXCEPT !.refs = @ + 1] \in Infos
      /\ [t EXCEPT !.refs = @ + 1].status = st
      /\ [t EXCEPT !.refs = @ + 1].fresh
  BY <1>2 DEF Infos
<1>8. [u EXCEPT !.got = 0] \in Infos /\ [u EXCEPT !.got = 0].status = "expired"
      /\ [u EXCEPT !.got = 0].fresh /\ [u EXCEPT !.got = 0].refs = i.refs
  BY <1>3 DEF Infos
<1> QED BY <1>1, <1>4, <1>5, <1>6, <1>7, <1>8 DEF t

\* A record that is written is the one in memory without its references, and that
\* is what is there afterwards; or nothing is written.
LEMMA PersistOps ==
  ASSUME Shape, NEW x \in Slots, NEW i \in Infos, NEW ok \in BOOLEAN, Persist(x, i, ok)
  PROVE  /\ json' = [y \in Slots |-> json'[y]] /\ faults' \in Nat
         /\ \A y \in Slots : y # x => json'[y] = json[y]
         /\ ok => /\ json'[x] \in Infos /\ json'[x].refs = 0
                  /\ json'[x].status = i.status /\ json'[x].fresh = i.fresh
         /\ ~ok => json'[x] = json[x]
<1>1. [i EXCEPT !.refs = 0] \in Infos /\ [i EXCEPT !.refs = 0].refs = 0
      /\ [i EXCEPT !.refs = 0].status = i.status /\ [i EXCEPT !.refs = 0].fresh = i.fresh
  BY RecordOps DEF Statuses
<1>2. CASE ok
  <2>1. json' = [json EXCEPT ![x] = [i EXCEPT !.refs = 0]] /\ faults' = faults
    BY <1>2 DEF Persist, Written
  <2> QED BY <1>1, <1>2, <2>1 DEF Shape
<1>3. CASE ~ok
  BY <1>3 DEF Persist, Shape
<1> QED BY <1>2, <1>3

\* write_chunk: a chunk is appended, or the file cannot be written.
LEMMA WriteChunkStep ==
  ASSUME IInv, NEW x \in Slots, NEW good \in BOOLEAN, NEW ok \in BOOLEAN, WriteChunk(x, good, ok)
  PROVE  IInv'
<1> DEFINE i == [Touched(record[x], "receiving") EXCEPT !.got = @ + 1]
<1>1. SlotOK(x) /\ Is(x, "receiving") /\ part[x] # None /\ data[x] = None /\ op = NoCall /\ x[1] \in up
  BY DEF WriteChunk, IInv, SlotInv, SlotOK, Filed, Is, Idle, At, NoCall
<1>2. record[x] \in Infos /\ part[x] \in Files
  BY <1>1 DEF SlotOK, SlotTypes, Is
<1>3. i \in Infos /\ i.status = "receiving" /\ i.fresh /\ i.got \in Nat /\ i # None
  <2>1. i \in Infos /\ i.status = "receiving" /\ i.fresh /\ i # None
    BY <1>2, RecordOps, ConstantsAssumption DEF Statuses
  <2> QED BY <2>1 DEF Infos
<1>4. part' = [part EXCEPT ![x] = [got |-> i.got, good |-> good /\ part[x].good]]
      /\ record' = [record EXCEPT ![x] = i] /\ Persist(x, i, ok)
      /\ UNCHANGED <<up, data, readers, op, ages, crashes>>
  BY DEF WriteChunk, Keep
<1> HIDE DEF i
<1>5. part'[x].got = i.got /\ part'[x] \in Files /\ part'[x] # None /\ record'[x] = i
  BY <1>2, <1>3, <1>4, ConstantsAssumption DEF IInv, Shape, Files
<1>6. Shape' /\ Only(x)
  BY <1>3, <1>4, PersistOps DEF IInv, Shape, Only, Same, Away, At
<1>7. /\ json'[x] \in Infos \union {None}
      /\ json'[x] # None => json'[x].refs = 0
      /\ Reserved(json[x])'
      /\ json'[x].fresh => i.fresh
  <2>1. CASE ok
    <3>1. json'[x] \in Infos /\ json'[x].refs = 0 /\ json'[x].status = "receiving"
      BY <1>3, <1>4, <2>1, PersistOps DEF IInv
    <3> QED BY <1>3, <3>1, ConstantsAssumption DEF Reserved
  <2>2. CASE ~ok
    <3>1. json'[x] = json[x]
      BY <1>3, <1>4, <2>2, PersistOps DEF IInv
    <3>2. Reserved(json[x])
      BY <1>1 DEF SlotOK, Covered, At, NoCall
    <3> QED BY <1>1, <1>3, <3>1, <3>2 DEF Reserved, SlotOK, SlotTypes
  <2> QED BY <2>1, <2>2
<1>8. SlotOK(x)'
  BY <1>1, <1>3, <1>4, <1>5, <1>7 DEF SlotOK, SlotTypes, Filed, Freshened, Covered, Is, At, NoCall,
    IInv, Shape, Reserved
<1>9. CallInv'
  BY <1>1, <1>4 DEF IInv, CallInv, Calls, NoCall, Placed
<1>10. x \in Promised
  BY <1>1 DEF Promised, Claimed, SlotOK, Covered, At, NoCall, Reserved
<1> QED BY <1>1, <1>4, <1>6, <1>8, <1>9, <1>10, OneSlot DEF NoCall

\* What the call that holds the lock may be, by the point it is at.
LEMMA CallFacts ==
  ASSUME CallInv
  PROVE  /\ op.at \in Placed => op.x \in Slots /\ op.s \in up /\ op.s \in Sessions
         /\ op.at \in Placed => \A l \in Placed :
              /\ [op EXCEPT !.at = l] \in Calls /\ [op EXCEPT !.at = l].at = l
              /\ [op EXCEPT !.at = l].x = op.x /\ [op EXCEPT !.at = l].s = op.s
         /\ op.at = "sweep" => op.s \in up /\ op.s \in Sessions /\ op.for \in Ids \union {None}
         /\ op.at = "swept" => /\ op.s \in up /\ op.s \in Sessions /\ op.for \in Ids \union {None}
                               /\ op.x \in Slots /\ op.i \in Infos
         /\ NoCall.at = "none" /\ NoCall \in Calls
BY DEF CallInv, Calls, NoCall, Placed

\* A call at one of the points of an artifact is a call.
LEMMA PlacedCall ==
  ASSUME NEW l \in Placed, NEW s \in Sessions, NEW x \in Slots
  PROVE  [at |-> l, s |-> s, x |-> x] \in Calls
BY DEF Calls

\* expire, and the sweep that begin starts with, take the lock.
LEMMA ExpireStep ==
  ASSUME IInv, NEW s \in Sessions, NEW for \in Ids \union {None}, Expire(s, for)
  PROVE  IInv'
<1>1. op = NoCall /\ op' = [at |-> "sweep", s |-> s, for |-> for] /\ s \in up
      /\ UNCHANGED <<up, record, json, files, readers, bounds>>
  BY DEF Expire, Idle
<1>2. CallInv'
  BY <1>1 DEF CallInv, Calls, NoCall, Placed
<1>3. \A y \in Slots : Away(y)
  BY <1>1 DEF Away, At, NoCall
<1> QED BY <1>1, <1>2, <1>3, CallOnly

\* A sweep that found nothing more ends, and begin is refused without a trace.
LEMMA CallEndsStep ==
  ASSUME IInv, ExpireEnds \/ BeginRefused
  PROVE  IInv'
<1>1. op.at = "sweep" /\ op' = NoCall /\ UNCHANGED <<up, record, json, files, readers, bounds>>
  BY DEF ExpireEnds, BeginRefused, Swept, Return
<1>2. CallInv'
  BY <1>1 DEF CallInv, Calls, NoCall, Placed
<1>3. \A y \in Slots : Away(y)
  BY <1>1 DEF Away, At, NoCall
<1> QED BY <1>1, <1>2, <1>3, CallOnly DEF NoCall

\* abort begins: it will remove the part file and the record.
LEMMA AbortStep ==
  ASSUME IInv, NEW x \in Slots, Abort(x)
  PROVE  IInv'
<1>1. op = NoCall /\ op' = [at |-> "discard", s |-> x[1], x |-> x] /\ x[1] \in up
      /\ record[x] # None /\ record[x].status # "published"
      /\ UNCHANGED <<up, record, json, files, readers, bounds>>
  BY DEF Abort, Idle
<1>2. data[x] = None
  BY <1>1 DEF IInv, SlotInv, Filed, At, NoCall, Is
<1>3. CallInv'
  <2>1. x[1] \in Sessions
    BY DEF Slots
  <2>2. op' \in Calls
    BY <1>1, <2>1, PlacedCall DEF Placed
  <2> QED BY <1>1, <1>2, <2>2 DEF CallInv, files, Placed
<1>4. \A y \in Slots : Away(y)
  BY <1>1 DEF Away, At, NoCall
<1> QED BY <1>1, <1>3, <1>4, CallOnly

\* begin creates the part file, or finds one and fails.
LEMMA CreatePartStep ==
  ASSUME IInv, CreatePart
  PROVE  IInv'
<1>0. PICK x \in Slots : x = op.x
  BY CallFacts DEF CreatePart, IInv, Placed
<1>1. op.at = "create" /\ op.x = x /\ op.s \in up /\ record[x] = None /\ data[x] = None
      /\ x[1] = op.s
  BY <1>0, CallFacts DEF CreatePart, IInv, CallInv, Placed
<1>2. CASE part[x] # None
  <2>1. op' = NoCall /\ UNCHANGED <<up, record, json, files, readers, bounds>>
    BY <1>1, <1>2 DEF CreatePart, Return, files
  <2>2. CallInv'
    BY <2>1 DEF CallInv, Calls, NoCall, Placed
  <2>3. \A y \in Slots : Away(y)
    BY <1>1, <2>1 DEF Away, At, NoCall
  <2> QED BY <2>1, <2>2, <2>3, CallOnly DEF NoCall
<1>3. CASE part[x] = None
  <2>1. part' = [part EXCEPT ![x] = [got |-> 0, good |-> TRUE]] /\ op' = [op EXCEPT !.at = "declare"]
        /\ UNCHANGED <<up, record, json, data, readers, bounds>>
    BY <1>1, <1>3 DEF CreatePart
  <2>2. op' \in Calls /\ op'.at = "declare" /\ op'.x = x /\ op'.s = op.s
    BY <1>1, <2>1, CallFacts DEF Placed, IInv
  <2>3. part'[x] = [got |-> 0, good |-> TRUE] /\ part'[x] \in Files /\ part'[x] # None
        /\ \A y \in Slots : y # x => part'[y] = part[y]
    <3>1. [got |-> 0, good |-> TRUE] \in Files
      BY DEF Files
    <3>2. part'[x] = [got |-> 0, good |-> TRUE] /\ \A y \in Slots : y # x => part'[y] = part[y]
      BY <1>1, <2>1 DEF IInv, Shape
    <3> QED BY <3>1, <3>2, ConstantsAssumption
  <2>4. Shape' /\ Only(x)
    BY <1>1, <2>1, <2>2, <2>3 DEF IInv, Shape, Only, Same, Away, At, bounds
  <2>5. SlotOK(x)'
    BY <1>1, <2>1, <2>2, <2>3 DEF IInv, SlotInv, SlotOK, SlotTypes, Filed, Freshened, Covered, At, Is
  <2>6. CallInv'
    BY <1>1, <2>1, <2>2, <2>3 DEF CallInv, Placed
  <2>7. x \in Promised
    BY <1>1 DEF Promised
  <2> QED BY <1>1, <2>1, <2>2, <2>4, <2>5, <2>6, <2>7, OneSlot
<1> QED BY <1>2, <1>3

\* A record is kept in memory and written.
LEMMA KeptAndWritten ==
  ASSUME IInv, NEW x \in Slots, NEW i \in Infos, NEW ok \in BOOLEAN, Keep(x, i), Persist(x, i, ok)
  PROVE  /\ record' = [y \in Slots |-> record'[y]] /\ json' = [y \in Slots |-> json'[y]]
         /\ \A y \in Slots : y # x => record'[y] = record[y] /\ json'[y] = json[y]
         /\ record'[x] = i /\ i # None /\ faults' \in Nat
         /\ json'[x] \in Infos \union {None} /\ (json'[x] # None => json'[x].refs = 0)
         /\ ok => json'[x] # None /\ json'[x].status = i.status
         /\ ~ok => json'[x] = json[x]
<1>1. record' = [record EXCEPT ![x] = i] /\ i # None
  BY RecordOps DEF Keep, Statuses
<1>2. record' = [y \in Slots |-> record'[y]] /\ record'[x] = i
      /\ \A y \in Slots : y # x => record'[y] = record[y]
  BY <1>1 DEF IInv, Shape
<1>3. /\ json' = [y \in Slots |-> json'[y]] /\ faults' \in Nat
      /\ \A y \in Slots : y # x => json'[y] = json[y]
      /\ ok => /\ json'[x] \in Infos /\ json'[x].refs = 0
               /\ json'[x].status = i.status /\ json'[x].fresh = i.fresh
      /\ ~ok => json'[x] = json[x]
  BY PersistOps DEF IInv
<1>4. json[x] \in Infos \union {None} /\ (json[x] # None => json[x].refs = 0)
  BY DEF IInv, SlotInv, SlotTypes
<1> QED BY <1>1, <1>2, <1>3, <1>4, ConstantsAssumption

\* The sweep removes the files of a stale artifact.
LEMMA RemoveStaleStep ==
  ASSUME IInv, NEW x \in Slots, RemoveStale(x)
  PROVE  IInv'
<1> DEFINE i == Seen(op.s, x)
<1>1. op.at = "sweep" /\ op.s \in up /\ op.s \in Sessions /\ op.for \in Ids \union {None}
  BY CallFacts DEF RemoveStale, IInv
<1>2. i \in Infos /\ i.refs = 0
  BY DEF RemoveStale, Stale, Seen, Reserved, IInv, SlotInv, SlotTypes
<1>3. part' = [part EXCEPT ![x] = None] /\ data' = [data EXCEPT ![x] = None]
      /\ op' = [at |-> "swept", s |-> op.s, for |-> op.for, x |-> x, i |-> i]
      /\ UNCHANGED <<up, record, json, readers, bounds>>
  BY DEF RemoveStale
<1> HIDE DEF i
<1>4. part'[x] = None /\ data'[x] = None /\ Shape' /\ Only(x)
  BY <1>1, <1>3 DEF IInv, Shape, Only, Same, Away, At, bounds
<1>5. SlotOK(x)'
  BY <1>3, <1>4 DEF IInv, SlotInv, SlotOK, SlotTypes, Filed, Freshened, Covered, At, Is
<1>6. CallInv'
  <2>1. op' \in Calls
    BY <1>1, <1>2, <1>3 DEF Calls
  <2> QED BY <1>1, <1>2, <1>3, <1>4, <2>1 DEF CallInv, Placed
<1>7. x \notin Promised'
  BY <1>3, <1>4 DEF Promised, Claimed
<1> QED BY <1>3, <1>4, <1>5, <1>6, <1>7, OneSlot

\* The sweep records that the artifact expired, or fails to.
LEMMA RecordStaleStep ==
  ASSUME IInv, NEW ok \in BOOLEAN, RecordStale(ok)
  PROVE  IInv'
<1> DEFINE i == Expired(op.i)
<1>0. PICK x \in Slots : x = op.x
  BY CallFacts DEF RecordStale, IInv
<1>1. op.at = "swept" /\ op.s \in up /\ op.s \in Sessions /\ op.for \in Ids \union {None} /\ op.x = x
      /\ op.i \in Infos /\ part[x] = None /\ data[x] = None
  BY <1>0, CallFacts DEF RecordStale, IInv, CallInv
<1>2. i \in Infos /\ i.status = "expired" /\ i # None
  BY <1>1, RecordOps DEF Statuses
<1>3. /\ IF x[1] = op.s THEN Keep(x, i) ELSE UNCHANGED record
      /\ Persist(x, i, ok)
      /\ op' = IF ok THEN [at |-> "sweep", s |-> op.s, for |-> op.for] ELSE NoCall
      /\ UNCHANGED <<up, files, readers, ages, crashes>>
  BY <1>1 DEF RecordStale
<1> HIDE DEF i
<1>4. /\ json' = [y \in Slots |-> json'[y]] /\ faults' \in Nat
      /\ \A y \in Slots : y # x => json'[y] = json[y]
      /\ json'[x] \in Infos \union {None} /\ (json'[x] # None => json'[x].refs = 0)
  BY <1>1, <1>2, <1>3, PersistOps DEF IInv, SlotInv, SlotTypes
<1>5. /\ record' = [y \in Slots |-> record'[y]] /\ \A y \in Slots : y # x => record'[y] = record[y]
      /\ record'[x] = record[x] \/ (record'[x] = i /\ x[1] \in up)
  BY <1>1, <1>3 DEF IInv, Shape, Keep
<1>6. op'.at \in {"sweep", "none"}
  BY <1>3 DEF NoCall
<1>7. Shape' /\ Only(x)
  BY <1>1, <1>3, <1>4, <1>5, <1>6 DEF IInv, Shape, Only, Same, Away, At, files
<1>8. SlotOK(x)'
  <2>1. SlotTypes(x)'
    BY <1>1, <1>2, <1>3, <1>4, <1>5 DEF IInv, SlotInv, SlotTypes, files
  <2> QED BY <1>1, <1>3, <1>6, <2>1 DEF SlotOK, Filed, Freshened, Covered, At, files
<1>9. CallInv'
  <2>1. op' \in Calls
    BY <1>1, <1>3 DEF Calls
  <2> QED BY <1>1, <1>3, <1>6, <2>1 DEF CallInv, Placed, NoCall
<1>10. x \notin Promised'
  BY <1>1, <1>3, <1>6 DEF Promised, Claimed, files
<1> QED BY <1>1, <1>3, <1>6, <1>7, <1>8, <1>9, <1>10, OneSlot

\* begin writes the first record; without it the part file goes again.
LEMMA DeclareStep ==
  ASSUME IInv, NEW ok \in BOOLEAN, Declare(ok)
  PROVE  IInv'
<1> DEFINE i == [status |-> "receiving", got |-> 0, pinned |-> FALSE, refs |-> 0, fresh |-> TRUE]
<1>0. PICK x \in Slots : x = op.x
  BY CallFacts DEF Declare, IInv, Placed
<1>1. op.at = "declare" /\ op.x = x /\ record[x] = None /\ data[x] = None
      /\ part[x] # None /\ part[x].got = 0 /\ x[1] \in up
  BY <1>0, CallFacts DEF Declare, IInv, CallInv, Placed
<1>2. i \in Infos /\ i.status = "receiving" /\ i.got = 0
  BY DEF Infos, Statuses
<1>3. Persist(x, i, ok) /\ op' = NoCall
      /\ (IF ok THEN Keep(x, i) /\ UNCHANGED part
          ELSE part' = [part EXCEPT ![x] = None] /\ UNCHANGED record)
      /\ UNCHANGED <<up, data, readers, ages, crashes>>
  BY <1>1 DEF Declare, Return
<1> HIDE DEF i
<1>4. CASE ok
  <2>1. /\ record' = [y \in Slots |-> record'[y]] /\ json' = [y \in Slots |-> json'[y]]
        /\ \A y \in Slots : y # x => record'[y] = record[y] /\ json'[y] = json[y]
        /\ record'[x] = i /\ i # None /\ faults' \in Nat
        /\ json'[x] \in Infos \union {None} /\ (json'[x] # None => json'[x].refs = 0)
        /\ json'[x] # None /\ json'[x].status = i.status
    BY <1>1, <1>2, <1>3, <1>4, KeptAndWritten
  <2>2. Shape' /\ Only(x)
    BY <1>1, <1>3, <1>4, <2>1 DEF IInv, Shape, Only, Same, Away, At, NoCall
  <2>3. SlotTypes(x)'
    BY <1>1, <1>2, <1>3, <1>4, <2>1 DEF IInv, SlotInv, SlotTypes
  <2>4. SlotOK(x)'
    BY <1>1, <1>2, <1>3, <1>4, <2>1, <2>3 DEF SlotOK, Filed, Freshened, Covered, At, Is, NoCall, Reserved
  <2>5. CallInv'
    BY <1>3 DEF CallInv, Calls, NoCall, Placed
  <2>6. x \in Promised
    BY <1>1 DEF Promised
  <2> QED BY <1>1, <1>3, <2>2, <2>4, <2>5, <2>6, OneSlot DEF NoCall
<1>5. CASE ~ok
  <2>1. part' = [part EXCEPT ![x] = None] /\ record' = record /\ json' = json /\ faults' \in Nat
    BY <1>3, <1>5 DEF Persist, IInv, Shape
  <2>2. Shape' /\ Only(x) /\ part'[x] = None
    BY <1>1, <1>3, <2>1 DEF IInv, Shape, Only, Same, Away, At, NoCall
  <2>3. SlotOK(x)'
    BY <1>1, <1>3, <2>1, <2>2 DEF IInv, SlotInv, SlotOK, SlotTypes, Filed, Freshened, Covered, At, Is, NoCall
  <2>4. CallInv'
    BY <1>3 DEF CallInv, Calls, NoCall, Placed
  <2>5. x \in Promised
    BY <1>1 DEF Promised
  <2> QED BY <1>1, <1>3, <2>2, <2>3, <2>4, <2>5, OneSlot DEF NoCall
<1> QED BY <1>4, <1>5

\* finish renames the part file to the published name, or fails.
LEMMA RenameStep ==
  ASSUME IInv, NEW ok \in BOOLEAN, Rename(ok)
  PROVE  IInv'
<1>0. PICK x \in Slots : x = op.x
  BY CallFacts DEF Rename, IInv, Placed
<1>1. op.at = "rename" /\ op.x = x /\ op.s \in up /\ x[1] = op.s /\ Is(x, "verified")
      /\ json[x] # None /\ json[x].status = "verified" /\ part[x] = Whole(x) /\ part[x] # None
      /\ part[x] \in Files
  <2>1. op.at = "rename" /\ op.x = x /\ op.s \in up /\ x[1] = op.s /\ Is(x, "verified")
        /\ json[x] # None /\ json[x].status = "verified" /\ part[x] = Whole(x)
    BY <1>0, CallFacts DEF Rename, IInv, CallInv, Placed
  <2>2. Whole(x) \in Files
    BY SizesAreNumbers DEF Whole, Files
  <2> QED BY <2>1, <2>2, ConstantsAssumption
<1>2. data[x] = None
  BY <1>1 DEF IInv, SlotInv, Filed, At, Is
<1>3. SlotTypes(x) /\ Freshened(x)
  BY DEF IInv, SlotInv
<1>4. x \in Promised
  BY <1>1 DEF Promised, Claimed, Reserved
<1>5. CASE ok
  <2>1. data' = [data EXCEPT ![x] = part[x]] /\ part' = [part EXCEPT ![x] = None]
        /\ op' = [op EXCEPT !.at = "publish"]
        /\ UNCHANGED <<up, record, json, readers, ages, faults, crashes>>
    BY <1>1, <1>5 DEF Rename
  <2>2. op' \in Calls /\ op'.at = "publish" /\ op'.x = x /\ op'.s = op.s
    BY <1>1, <2>1, CallFacts DEF Placed, IInv
  <2>3. part'[x] = None /\ data'[x] = Whole(x) /\ Shape' /\ Only(x)
    BY <1>1, <2>1, <2>2 DEF IInv, Shape, Only, Same, Away, At
  <2>4. SlotOK(x)'
    BY <1>1, <1>2, <1>3, <2>1, <2>2, <2>3
      DEF SlotOK, SlotTypes, Filed, Freshened, Covered, At, Is, Whole
  <2>5. CallInv'
    BY <1>1, <2>1, <2>2, <2>3 DEF CallInv, Placed, Is
  <2> QED BY <1>4, <2>1, <2>2, <2>3, <2>4, <2>5, OneSlot
<1>6. CASE ~ok
  <2>1. op' = [op EXCEPT !.at = "discard"] /\ faults' = faults + 1
        /\ UNCHANGED <<up, record, json, files, readers, ages, crashes>>
    BY <1>6 DEF Rename
  <2>2. op' \in Calls /\ op'.at = "discard" /\ op'.x = x /\ op'.s = op.s
    BY <1>1, <2>1, CallFacts DEF Placed, IInv
  <2>3. Shape' /\ Only(x)
    BY <1>1, <2>1, <2>2 DEF IInv, Shape, Only, Same, Away, At, files
  <2>4. SlotOK(x)'
    BY <1>1, <1>2, <1>3, <2>1, <2>2
      DEF SlotOK, SlotTypes, Filed, Freshened, Covered, At, Is, files, Reserved
  <2>5. CallInv'
    BY <1>1, <1>2, <2>1, <2>2 DEF CallInv, Placed, files
  <2> QED BY <1>4, <2>1, <2>2, <2>3, <2>4, <2>5, OneSlot
<1> QED BY <1>5, <1>6

\* finish records the publication; without it the file goes back.
LEMMA PublishStep ==
  ASSUME IInv, NEW ok \in BOOLEAN, Publish(ok)
  PROVE  IInv'
<1> DEFINE i == Touched(record[op.x], "published")
<1>0. PICK x \in Slots : x = op.x
  BY CallFacts DEF Publish, IInv, Placed
<1>1. op.at = "publish" /\ op.x = x /\ x[1] \in up /\ Is(x, "verified") /\ part[x] = None
  BY <1>0, CallFacts DEF Publish, IInv, CallInv, Placed
<1>2. SlotTypes(x) /\ Filed(x)
  BY DEF IInv, SlotInv
<1>3. i \in Infos /\ i.status = "published" /\ i.fresh
  BY <1>1, <1>2, TouchedOps DEF SlotTypes, Is, Statuses
<1>4. Keep(x, i) /\ Persist(x, i, ok) /\ op' = NoCall
      /\ UNCHANGED <<up, files, readers, ages, crashes>>
  BY <1>1 DEF Publish, Return
<1> HIDE DEF i
<1>5. /\ record' = [y \in Slots |-> record'[y]] /\ json' = [y \in Slots |-> json'[y]]
      /\ \A y \in Slots : y # x => record'[y] = record[y] /\ json'[y] = json[y]
      /\ record'[x] = i /\ i # None /\ faults' \in Nat
      /\ json'[x] \in Infos \union {None} /\ (json'[x] # None => json'[x].refs = 0)
      /\ ok => json'[x] # None /\ json'[x].status = i.status
      /\ ~ok => json'[x] = json[x]
  BY <1>3, <1>4, KeptAndWritten
<1>6. Shape' /\ Only(x)
  BY <1>1, <1>4, <1>5 DEF IInv, Shape, Only, Same, Away, At, NoCall, files
<1>7. SlotTypes(x)'
  BY <1>1, <1>2, <1>3, <1>4, <1>5 DEF SlotTypes, files
<1>8. SlotOK(x)'
  BY <1>1, <1>2, <1>3, <1>4, <1>5, <1>7
    DEF SlotOK, Filed, Freshened, Covered, At, Is, NoCall, files, Whole
<1>9. CallInv'
  BY <1>4 DEF CallInv, Calls, NoCall, Placed
<1>10. x \in Promised' => x \in Promised
  BY <1>1, <1>4 DEF Promised, Claimed, files, NoCall
<1> QED BY <1>4, <1>6, <1>8, <1>9, <1>10, OneSlot DEF NoCall

\* abort and a failed transfer remove the part file.
LEMMA DiscardStep ==
  ASSUME IInv, Discard
  PROVE  IInv'
<1>0. PICK x \in Slots : x = op.x
  BY CallFacts DEF Discard, IInv, Placed
<1>1. op.at = "discard" /\ op.x = x /\ op.s \in up /\ x[1] = op.s
  BY <1>0, CallFacts DEF Discard, IInv, CallInv, Placed
<1>2. record' = [record EXCEPT ![x] = None] /\ part' = [part EXCEPT ![x] = None]
      /\ data' = [data EXCEPT ![x] = None] /\ op' = [op EXCEPT !.at = "forget"]
      /\ UNCHANGED <<up, json, readers, bounds>>
  BY <1>1 DEF Discard, Keep
<1>3. op' \in Calls /\ op'.at = "forget" /\ op'.x = x /\ op'.s = op.s
  BY <1>1, <1>2, CallFacts DEF Placed, IInv
<1>4. record'[x] = None /\ part'[x] = None /\ data'[x] = None /\ Shape' /\ Only(x)
  BY <1>1, <1>2, <1>3 DEF IInv, Shape, Only, Same, Away, At, bounds
<1>5. SlotOK(x)'
  BY <1>1, <1>2, <1>3, <1>4 DEF IInv, SlotInv, SlotOK, SlotTypes, Filed, Freshened, Covered, At, Is
<1>6. CallInv'
  BY <1>1, <1>2, <1>3, <1>4 DEF CallInv, Placed
<1>7. x \notin Promised'
  BY <1>3, <1>4 DEF Promised, Claimed
<1> QED BY <1>2, <1>3, <1>4, <1>5, <1>6, <1>7, OneSlot

\* abort forgets the record in memory and on disk.
LEMMA ForgetStep ==
  ASSUME IInv, Forget
  PROVE  IInv'
<1>0. PICK x \in Slots : x = op.x
  BY CallFacts DEF Forget, IInv, Placed
<1>1. op.at = "forget" /\ op.x = x /\ part[x] = None /\ data[x] = None
  BY <1>0, CallFacts DEF Forget, IInv, CallInv, Placed
<1>2. json' = [json EXCEPT ![x] = None] /\ op' = NoCall
      /\ UNCHANGED <<up, record, files, readers, bounds>>
  BY <1>1 DEF Forget, Return
<1>3. json'[x] = None /\ Shape' /\ Only(x)
  BY <1>1, <1>2 DEF IInv, Shape, Only, Same, Away, At, NoCall, bounds, files
<1>4. SlotOK(x)'
  BY <1>1, <1>2, <1>3
    DEF IInv, SlotInv, SlotOK, SlotTypes, Filed, Freshened, Covered, At, Is, NoCall, files
<1>5. CallInv'
  BY <1>2 DEF CallInv, Calls, NoCall, Placed
<1>6. x \notin Promised'
  BY <1>1, <1>2 DEF Promised, Claimed, files, NoCall
<1> QED BY <1>2, <1>3, <1>4, <1>5, <1>6, OneSlot DEF NoCall

\* finish judges size and digest and records the verdict.
LEMMA FinishStep ==
  ASSUME IInv, NEW x \in Slots, NEW ok \in BOOLEAN, Finish(x, ok)
  PROVE  IInv'
<1> DEFINE i == Touched(record[x], "verified")
<1>1. op = NoCall /\ x[1] \in up /\ Is(x, "receiving") /\ record[x].got = Bytes[x[2]] /\ part[x] # None
  BY DEF Finish, Idle
<1>2. SlotTypes(x) /\ Filed(x) /\ Covered(x) /\ data[x] = None /\ part[x].got = Bytes[x[2]]
  BY <1>1 DEF IInv, SlotInv, Filed, At, NoCall, Is
<1>3. i \in Infos /\ i.status = "verified" /\ i.fresh
  BY <1>1, <1>2, TouchedOps DEF SlotTypes, Is, Statuses
<1>4. x[1] \in Sessions
  BY DEF Slots
<1>5. \A l \in Placed : [at |-> l, s |-> x[1], x |-> x] \in Calls
  BY <1>4, PlacedCall
<1>6. CASE part[x].good
  <2>1. Keep(x, i) /\ Persist(x, i, ok)
        /\ op' = (IF ok THEN [at |-> "rename", s |-> x[1], x |-> x] ELSE NoCall)
        /\ UNCHANGED <<up, files, readers, ages, crashes>>
    BY <1>6 DEF Finish
  <2> HIDE DEF i
  <2>2. /\ record' = [y \in Slots |-> record'[y]] /\ json' = [y \in Slots |-> json'[y]]
        /\ \A y \in Slots : y # x => record'[y] = record[y] /\ json'[y] = json[y]
        /\ record'[x] = i /\ i # None /\ faults' \in Nat
        /\ json'[x] \in Infos \union {None} /\ (json'[x] # None => json'[x].refs = 0)
        /\ ok => json'[x] # None /\ json'[x].status = i.status
        /\ ~ok => json'[x] = json[x]
    BY <1>3, <2>1, KeptAndWritten
  <2>3. Shape' /\ Only(x)
    BY <1>1, <2>1, <2>2 DEF IInv, Shape, Only, Same, Away, At, NoCall, files
  <2>4. SlotTypes(x)'
    BY <1>1, <1>2, <1>3, <2>1, <2>2 DEF SlotTypes, files
  <2>5. part[x] = Whole(x)
    <3>1. part[x] \in Files /\ Whole(x) \in Files
      BY <1>1, <1>2, SizesAreNumbers DEF SlotTypes, Files, Whole
    <3> QED BY <1>2, <1>6, <3>1 DEF Files, Whole
  <2>6. Reserved(json[x])'
    BY <1>1, <1>2, <1>3, <2>2 DEF Reserved, Covered, At, NoCall
  <2>7. SlotOK(x)'
    BY <1>1, <1>2, <1>3, <2>1, <2>2, <2>4, <2>6
      DEF SlotOK, Filed, Freshened, Covered, At, Is, NoCall, files
  <2>8. CallInv'
    <3>1. CASE ok
      <4>1. op' = [at |-> "rename", s |-> x[1], x |-> x] /\ op' \in Calls
        BY <1>5, <2>1, <3>1 DEF Placed
      <4> QED BY <1>1, <1>3, <2>1, <2>2, <2>5, <3>1, <4>1 DEF CallInv, Placed, Is, Whole, files
    <3>2. CASE ~ok
      BY <2>1, <3>2 DEF CallInv, Calls, NoCall, Placed
    <3> QED BY <3>1, <3>2
  <2>9. x \in Promised
    BY <1>1, <1>2 DEF Promised, Claimed, Covered, At, NoCall
  <2>10. op'.at \notin {"create", "declare"}
    BY <2>1 DEF NoCall
  <2> QED BY <2>1, <2>3, <2>7, <2>8, <2>9, <2>10, OneSlot
<1>7. CASE ~part[x].good
  <2>1. op' = [at |-> "discard", s |-> x[1], x |-> x]
        /\ UNCHANGED <<up, record, json, files, readers, bounds>>
    BY <1>7 DEF Finish, bounds
  <2>2. op' \in Calls
    BY <1>5, <2>1 DEF Placed
  <2>3. CallInv'
    BY <1>1, <1>2, <2>1, <2>2 DEF CallInv, Placed, files
  <2>4. \A y \in Slots : Away(y)
    BY <1>1, <2>1 DEF Away, At, NoCall
  <2> QED BY <2>1, <2>3, <2>4, CallOnly
<1> QED BY <1>6, <1>7

\* A call on a published artifact: its record is touched, or found expired.
LEMMA PublishedCall ==
  ASSUME IInv, NEW x \in Slots, NEW ok \in BOOLEAN, NEW i \in Infos,
         Idle, x[1] \in up, Is(x, "published"),
         i.fresh, i.status = "published" \/ (i.status = "expired" /\ data[x] = None),
         Keep(x, i), Persist(x, i, ok), UNCHANGED <<up, files, op, ages, crashes>>,
         readers' = [y \in Slots |-> readers'[y]], readers'[x] \in Nat,
         \A y \in Slots : y # x => readers'[y] = readers[y]
  PROVE  IInv'
<1>1. op = NoCall /\ SlotTypes(x) /\ Filed(x) /\ part[x] = None
  BY DEF Idle, IInv, SlotInv, Filed
<1>2. /\ record' = [y \in Slots |-> record'[y]] /\ json' = [y \in Slots |-> json'[y]]
      /\ \A y \in Slots : y # x => record'[y] = record[y] /\ json'[y] = json[y]
      /\ record'[x] = i /\ i # None /\ faults' \in Nat
      /\ json'[x] \in Infos \union {None} /\ (json'[x] # None => json'[x].refs = 0)
      /\ ok => json'[x] # None /\ json'[x].status = i.status
      /\ ~ok => json'[x] = json[x]
  BY KeptAndWritten
<1>3. Shape' /\ Only(x)
  BY <1>1, <1>2 DEF IInv, Shape, Only, Same, Away, At, files
<1>4. SlotTypes(x)'
  BY <1>1, <1>2 DEF SlotTypes, files
<1>5. SlotOK(x)'
  BY <1>1, <1>2, <1>4 DEF SlotOK, Filed, Freshened, Covered, At, Is, NoCall, files, Whole
<1>6. CallInv'
  BY <1>1 DEF CallInv, Calls, NoCall, Placed
<1>7. x \in Promised' => x \in Promised
  BY <1>1 DEF Promised, Claimed, files, NoCall
<1> QED BY <1>1, <1>3, <1>5, <1>6, <1>7, OneSlot DEF NoCall

\* find_published, acquire and pin: they rewrite the record of a published file.
LEMMA PublishedCallSteps ==
  ASSUME IInv, NEW x \in Slots, NEW ok \in BOOLEAN,
         FindMissing(x, ok) \/ Acquire(x, ok) \/ \E pinned \in BOOLEAN : Pin(x, pinned, ok)
  PROVE  IInv'
<1> DEFINE r == record[x]
<1>1. Is(x, "published") /\ Idle /\ x[1] \in up
  BY DEF FindMissing, Acquire, Pin
<1>2. r \in Infos /\ readers[x] \in Nat
  BY <1>1 DEF IInv, SlotInv, SlotTypes, Is
<1>3. readers = [y \in Slots |-> readers[y]]
  BY DEF IInv, Shape
<1>4. CASE FindMissing(x, ok)
  <2> DEFINE i == Expired(r)
  <2>1. i \in Infos /\ i.status = "expired" /\ i.fresh
    BY <1>2, RecordOps DEF Statuses
  <2>2. data[x] = None /\ Keep(x, i) /\ Persist(x, i, ok)
        /\ UNCHANGED <<up, files, readers, op, ages, crashes>>
    BY <1>4 DEF FindMissing
  <2> HIDE DEF i, r
  <2> QED BY <1>1, <1>2, <1>3, <2>1, <2>2, PublishedCall
<1>5. CASE Acquire(x, ok)
  <2> DEFINE i == [Touched(r, "published") EXCEPT !.refs = @ + 1]
  <2>1. i \in Infos /\ i.status = "published" /\ i.fresh
    BY <1>2, RecordOps DEF Statuses
  <2>2. Keep(x, i) /\ Persist(x, i, ok) /\ UNCHANGED <<up, files, op, ages, crashes>>
        /\ readers' = IF ok THEN [readers EXCEPT ![x] = @ + 1] ELSE readers
    BY <1>5 DEF Acquire
  <2> HIDE DEF i, r
  <2>3. /\ readers' = [y \in Slots |-> readers'[y]] /\ readers'[x] \in Nat
        /\ \A y \in Slots : y # x => readers'[y] = readers[y]
    BY <1>2, <1>3, <2>2
  <2> QED BY <1>1, <2>1, <2>2, <2>3, PublishedCall
<1>6. ASSUME NEW pinned \in BOOLEAN, Pin(x, pinned, ok) PROVE IInv'
  <2> DEFINE t == Touched(r, "published")
             i == [t EXCEPT !.pinned = pinned]
  <2>1. t \in Infos /\ t.status = "published" /\ t.fresh
    BY <1>2, TouchedOps DEF Statuses
  <2>2. Keep(x, i) /\ Persist(x, i, ok) /\ UNCHANGED <<up, files, readers, op, ages, crashes>>
    BY <1>6 DEF Pin
  <2> HIDE DEF t, r
  <2>3. i \in Infos /\ i.status = "published" /\ i.fresh
    BY <2>1 DEF Infos
  <2> HIDE DEF i
  <2> QED BY <1>1, <1>2, <1>3, <2>2, <2>3, PublishedCall
<1> QED BY <1>4, <1>5, <1>6

\* A reader lets go of its reference, without the lock.
LEMMA ReleaseStep ==
  ASSUME IInv, NEW x \in Slots, Release(x)
  PROVE  IInv'
<1> DEFINE r == record[x]
<1>1. SlotTypes(x) /\ Filed(x) /\ Freshened(x) /\ Covered(x) /\ readers[x] \in Nat /\ readers[x] > 0
      /\ x[1] \in up
  BY DEF IInv, SlotInv, SlotTypes, Release
<1>2. readers' = [readers EXCEPT ![x] = @ - 1] /\ UNCHANGED <<up, json, files, op, bounds>>
  BY DEF Release
<1>3. readers' = [y \in Slots |-> readers'[y]] /\ readers'[x] \in Nat
      /\ \A y \in Slots : y # x => readers'[y] = readers[y]
  BY <1>1, <1>2 DEF IInv, Shape
<1>4. /\ record' = [y \in Slots |-> record'[y]]
      /\ \A y \in Slots : y # x => record'[y] = record[y]
      /\ record[x] = None <=> record'[x] = None
      /\ record'[x] \in Infos \union {None}
      /\ record[x] # None => /\ record'[x].status = record[x].status
                             /\ record'[x].got = record[x].got /\ record'[x].fresh = record[x].fresh
  <2>1. CASE r = None \/ r.refs = 0
    <3>1. record' = record
      BY <2>1 DEF Release
    <3> QED BY <1>1, <3>1 DEF IInv, Shape, SlotTypes
  <2>2. CASE ~(r = None \/ r.refs = 0)
    <3> DEFINE i == [r EXCEPT !.refs = r.refs - 1]
    <3>1. record' = [record EXCEPT ![x] = i]
      BY <2>2 DEF Release
    <3>2. r \in Infos
      BY <1>1, <2>2 DEF SlotTypes
    <3> HIDE DEF r
    <3>3. i \in Infos /\ i.status = r.status /\ i.got = r.got /\ i.fresh = r.fresh
      <4>1. r.refs - 1 \in Nat
        BY <2>2, <3>2 DEF Infos
      <4> QED BY <3>2, <4>1 DEF Infos
    <3> HIDE DEF i
    <3> QED BY <2>2, <3>1, <3>3, ConstantsAssumption DEF r, IInv, Shape
  <2> QED BY <2>1, <2>2
<1>5. Shape' /\ Only(x)
  BY <1>2, <1>3, <1>4 DEF IInv, Shape, Only, Same, Away, At, files, bounds
<1>6. SlotOK(x)'
  BY <1>1, <1>2, <1>3, <1>4
    DEF SlotOK, SlotTypes, Filed, Freshened, Covered, At, Is, Whole, Reserved, files
<1>7. CallInv'
  <2>1. CallInv /\ op' = op
    BY <1>2 DEF IInv
  <2>2. op.at \in Placed \union {"swept"} => op.x \in Slots
    BY <2>1, CallFacts
  <2>3. op.at \in Placed => (record'[op.x] = None <=> record[op.x] = None)
                            /\ (Is(op.x, "verified") => Is(op.x, "verified")')
    BY <1>4, <2>1, <2>2 DEF Is
  <2> QED BY <1>2, <2>1, <2>3 DEF CallInv, Placed, files, Whole
<1>8. x \in Promised' => x \in Promised
  BY <1>2 DEF Promised, Claimed, files
<1> QED BY <1>2, <1>5, <1>6, <1>7, <1>8, OneSlot

\* begin has room: the transfer takes the place of what expired under its name.
LEMMA BeginAnewStep ==
  ASSUME IInv, BeginAnew
  PROVE  IInv'
<1>0. op.at = "sweep" /\ op.s \in up /\ op.s \in Sessions /\ op.for \in Ids
  BY CallFacts DEF BeginAnew, Swept, IInv
<1> DEFINE u == <<op.s, op.for>>
<1>1. PICK x \in Slots : x = u
  BY <1>0 DEF Slots
<1>2. x[1] = op.s /\ x[2] = op.for
  BY <1>1
<1>3. /\ ~Reserved(record[x]) /\ ProjectUsage + Bytes[x[2]] <= ProjectQuota
      /\ record' = [record EXCEPT ![x] = None]
      /\ IF record[x] = None THEN UNCHANGED <<json, files>>
         ELSE /\ json' = [json EXCEPT ![x] = None]
              /\ part' = [part EXCEPT ![x] = None] /\ data' = [data EXCEPT ![x] = None]
      /\ op' = [at |-> "create", s |-> op.s, x |-> x]
      /\ UNCHANGED <<up, readers, bounds>>
  BY <1>1, <1>2 DEF BeginAnew, Free, Keep
<1>4. SlotTypes(x) /\ Filed(x) /\ Covered(x)
  BY DEF IInv, SlotInv
<1>5. record[x] = None => data[x] = None
  BY <1>0, <1>2, <1>4 DEF Filed, At, Is
<1>6. record'[x] = None /\ data'[x] = None /\ Shape' /\ Only(x)
      /\ \/ json'[x] = None /\ part'[x] = None
         \/ json'[x] = json[x] /\ part'[x] = part[x]
  BY <1>0, <1>3, <1>5 DEF IInv, Shape, Only, Same, Away, At, bounds, files
<1>7. SlotOK(x)'
  BY <1>0, <1>2, <1>3, <1>4, <1>6
    DEF SlotOK, SlotTypes, Filed, Freshened, Covered, At, Is, Reserved, files
<1>8. CallInv'
  <2>1. op' \in Calls
    BY <1>0, <1>3, PlacedCall DEF Placed
  <2> QED BY <1>0, <1>2, <1>3, <1>6, <2>1 DEF CallInv, Placed
<1>9. ClaimInv'
  <2> DEFINE R == {y \in Slots : Reserved(json[y])}
  <2>1. \A y \in Slots : data[y] # None => Reserved(json[y])
    BY DEF IInv, SlotInv, Filed, Reserved
  <2>2. \A y \in Slots : y # x /\ y \in Claimed' => y \in R
    BY <1>6, <2>1 DEF Claimed, Only, Same
  <2>3. Promised' \subseteq R \union {x}
    BY <1>3, <2>2 DEF Promised, Claimed
  <2>4. Declared(R) + Bytes[x[2]] <= ProjectQuota
    BY <1>3 DEF ProjectUsage
  <2>5. R \in SUBSET Slots /\ R \union {x} \in SUBSET Slots
    OBVIOUS
  <2> HIDE DEF R
  <2>6. /\ Declared(R \union {x}) <= Declared(R) + Bytes[x[2]]
        /\ Declared(Promised') <= Declared(R \union {x})
        /\ Declared(R) \in Nat /\ Declared(R \union {x}) \in Nat /\ Declared(Promised') \in Nat
        /\ Bytes[x[2]] \in Nat
    <3>1. Promised' \in SUBSET Slots
      BY <2>3, <2>5
    <3> QED BY <2>3, <2>5, <3>1, DeclaredAdd, DeclaredMonotone, DeclaredNat, SizesAreNumbers
  <2>7. Declared(Promised)' = Declared(Promised')
    BY DEF Declared, MapThenSumSet, MapThenFoldSet
  <2>8. Declared(Promised') <= ProjectQuota
    BY <2>4, <2>6, ConstantsAssumption
  <2> QED BY <2>7, <2>8 DEF ClaimInv
<1>10. SlotInv'
  BY <1>3, <1>6, <1>7, OthersKept DEF IInv
<1> QED BY <1>6, <1>8, <1>9, <1>10 DEF IInv

\* A step that concerns several artifacts.
LEMMA EachSlot ==
  ASSUME IInv, Shape', CallInv', \A y \in Slots : SlotOK(y)', Promised' \subseteq Promised
  PROVE  IInv'
<1>1. SlotInv'
  BY DEF SlotInv, SlotOK
<1> QED BY <1>1, ClaimsKept DEF IInv

\* A call belongs to the session whose artifact it is about.
LEMMA CallOfSession ==
  ASSUME CallInv, NEW y \in Slots, y[1] # op.s
  PROVE  \A l \in Placed : ~At(l, y)
BY DEF CallInv, At

\* A session dies at any point of any call, and its memory with it.
LEMMA CrashStep ==
  ASSUME IInv, NEW s \in Sessions, Crash(s)
  PROVE  IInv'
<1>1. /\ s \in up /\ up' = up \ {s} /\ crashes' = crashes + 1
      /\ record' = [x \in Slots |-> IF x[1] = s THEN None ELSE record[x]]
      /\ readers' = [x \in Slots |-> IF x[1] = s THEN 0 ELSE readers[x]]
      /\ op' = (IF op.s = s THEN NoCall ELSE op)
      /\ UNCHANGED <<json, part, data, ages, faults>>
  BY DEF Crash, Gone, files
<1>2. Shape'
  BY <1>1 DEF IInv, Shape
<1>3. \A y \in Slots : SlotOK(y)'
  <2> SUFFICES ASSUME NEW y \in Slots PROVE SlotOK(y)'
    OBVIOUS
  <2>1. SlotTypes(y) /\ Filed(y) /\ Freshened(y) /\ Covered(y)
    BY DEF IInv, SlotInv
  <2>2. CASE y[1] = s
    <3>1. record'[y] = None /\ readers'[y] = 0 /\ y[1] \notin up'
      BY <1>1, <2>2
    <3> QED BY <1>1, <2>1, <3>1 DEF SlotOK, SlotTypes, Filed, Freshened, Covered, Is, Whole, Reserved
  <2>3. CASE y[1] # s
    <3>1. record'[y] = record[y] /\ readers'[y] = readers[y] /\ (y[1] \in up' <=> y[1] \in up)
      BY <1>1, <2>3
    <3>2. Away(y)
      <4>1. CASE op.s = s
        <5>1. \A l \in Placed : ~At(l, y)
          BY <2>3, <4>1, CallOfSession DEF IInv
        <5> QED BY <1>1, <4>1, <5>1 DEF Away, At, NoCall, Placed
      <4>2. CASE op.s # s
        BY <1>1, <4>2 DEF Away, At
      <4> QED BY <4>1, <4>2
    <3>3. (At("declare", y)' <=> At("declare", y)) /\ (At("rename", y)' <=> At("rename", y))
          /\ (At("publish", y)' <=> At("publish", y))
      BY <3>2 DEF Away
    <3> QED BY <1>1, <2>1, <3>1, <3>3
      DEF SlotOK, SlotTypes, Filed, Freshened, Covered, Is, Whole, Reserved
  <2> QED BY <2>2, <2>3
<1>4. CallInv'
  <2>1. CASE op.s = s
    BY <1>1, <2>1 DEF CallInv, Calls, NoCall, Placed
  <2>2. CASE op.s # s
    <3>1. op.at \in Placed => op.x \in Slots /\ record'[op.x] = record[op.x]
      BY <1>1, <2>2, CallFacts DEF IInv, CallInv
    <3> QED BY <1>1, <2>2, <3>1 DEF IInv, CallInv, Placed, Is, Whole
  <2> QED BY <2>1, <2>2
<1>5. Promised' \subseteq Promised
  BY <1>1 DEF Promised, Claimed, NoCall
<1> QED BY <1>2, <1>3, <1>4, <1>5, EachSlot

\* A session ends in order.
LEMMA CloseStep ==
  ASSUME IInv, NEW s \in Sessions, Close(s)
  PROVE  IInv'
<1>1. /\ s \in up /\ op.s # s /\ up' = up \ {s}
      /\ record' = [x \in Slots |-> IF x[1] = s THEN None ELSE record[x]]
      /\ readers' = [x \in Slots |-> IF x[1] = s THEN 0 ELSE readers[x]]
      /\ json' = [x \in Slots |-> IF x[1] = s /\ Unfinished(x) THEN None ELSE json[x]]
      /\ part' = [x \in Slots |-> IF x[1] = s /\ Unfinished(x) THEN None ELSE part[x]]
      /\ UNCHANGED <<data, op, ages, faults, crashes>>
  BY DEF Close, Gone, bounds
<1>2. Shape'
  BY <1>1 DEF IInv, Shape
<1>3. \A y \in Slots : SlotOK(y)'
  <2> SUFFICES ASSUME NEW y \in Slots PROVE SlotOK(y)'
    OBVIOUS
  <2>1. SlotTypes(y) /\ Filed(y) /\ Freshened(y) /\ Covered(y)
    BY DEF IInv, SlotInv
  <2>2. CASE y[1] = s
    <3>1. record'[y] = None /\ readers'[y] = 0 /\ y[1] \notin up' /\ data'[y] = data[y]
      BY <1>1, <2>2
    <3>2. ~At("publish", y) /\ ~At("declare", y) /\ ~At("rename", y)
      BY <1>1, <2>2, CallOfSession DEF IInv, Placed
    <3>3. \/ json'[y] = json[y] /\ part'[y] = part[y]
          \/ json'[y] = None /\ part'[y] = None /\ data[y] = None
      BY <1>1, <2>1, <2>2, <3>2 DEF Unfinished, Is, Filed
    <3> QED BY <1>1, <2>1, <3>1, <3>3
      DEF SlotOK, SlotTypes, Filed, Freshened, Covered, Is, Whole, Reserved
  <2>3. CASE y[1] # s
    <3>1. /\ record'[y] = record[y] /\ readers'[y] = readers[y] /\ (y[1] \in up' <=> y[1] \in up)
          /\ json'[y] = json[y] /\ part'[y] = part[y] /\ data'[y] = data[y] /\ op' = op
      BY <1>1, <2>3
    <3> QED BY <2>1, <3>1 DEF SlotOK, SlotTypes, Filed, Freshened, Covered, Is, Whole, Reserved, At
  <2> QED BY <2>2, <2>3
<1>4. CallInv'
  <2>1. op.at \in Placed => /\ op.x \in Slots /\ record'[op.x] = record[op.x]
                            /\ json'[op.x] = json[op.x] /\ part'[op.x] = part[op.x]
    BY <1>1, CallFacts DEF IInv, CallInv
  <2>2. op.at = "swept" => op.x \in Slots /\ (part[op.x] = None => part'[op.x] = None)
    BY <1>1, CallFacts DEF IInv
  <2> QED BY <1>1, <2>1, <2>2 DEF IInv, CallInv, Placed, Is, Whole, NoCall
<1>5. Promised' \subseteq Promised
  BY <1>1 DEF Promised, Claimed, Reserved
<1> QED BY <1>2, <1>3, <1>4, <1>5, EachSlot

\* What a session makes of a record and the files that it finds when it opens.
LEMMA LoadedFacts ==
  ASSUME NEW x \in Slots, SlotTypes(x)
  PROVE  /\ Loaded(x) \in Infos \union {None}
         /\ Loaded(x) # None => /\ json[x] # None /\ Loaded(x).refs = 0 /\ Loaded(x).fresh = json[x].fresh
                                /\ Loaded(x).status \in {"published", "expired"}
         /\ Loaded(x) # None /\ data[x] # None /\ json[x].status # "expired"
              => Loaded(x).status = "published"
         /\ data[x] # None /\ json[x] # None /\ json[x].status \in {"verified", "published"}
              => Loaded(x) # None
<1> DEFINE i == json[x]
<1>1. i \in Infos \union {None} /\ (i # None => i.refs = 0)
  BY DEF SlotTypes
<1>2. Loaded(x) = IF i = None THEN None
                  ELSE IF i.status = "expired" THEN i
                  ELSE IF i.status = "receiving" \/ data[x] = None THEN None
                  ELSE [i EXCEPT !.status = "published"]
  BY DEF Loaded
<1> HIDE DEF i
<1>3. i \in Infos => /\ [i EXCEPT !.status = "published"] \in Infos
                     /\ [i EXCEPT !.status = "published"] # None
                     /\ [i EXCEPT !.status = "published"].refs = i.refs
                     /\ [i EXCEPT !.status = "published"].fresh = i.fresh
                     /\ [i EXCEPT !.status = "published"].status = "published"
  <2>1. None \notin Infos
    BY ConstantsAssumption
  <2> QED BY <2>1 DEF Infos, Statuses
<1> QED BY <1>1, <1>2, <1>3 DEF i

\* A session opens: it loads the records and drops what a crash left half done.
LEMMA OpenStep ==
  ASSUME IInv, NEW s \in Sessions, Open(s)
  PROVE  IInv'
<1>1. /\ s \notin up /\ up' = up \union {s} /\ (op.s # s \/ op = NoCall)
      /\ record' = [x \in Slots |-> IF x[1] = s THEN Loaded(x) ELSE record[x]]
      /\ json' = [x \in Slots |-> IF x[1] = s THEN Loaded(x) ELSE json[x]]
      /\ part' = [x \in Slots |-> IF x[1] = s THEN None ELSE part[x]]
      /\ UNCHANGED <<data, readers, op, ages, faults, crashes>>
  BY DEF Open, bounds, IInv, CallInv
<1>2. Shape'
  BY <1>1 DEF IInv, Shape
<1>3. \A y \in Slots : SlotOK(y)'
  <2> SUFFICES ASSUME NEW y \in Slots PROVE SlotOK(y)'
    OBVIOUS
  <2>1. SlotTypes(y) /\ Filed(y) /\ Freshened(y) /\ Covered(y)
    BY DEF IInv, SlotInv
  <2>2. CASE y[1] = s
    <3>1. record'[y] = Loaded(y) /\ json'[y] = Loaded(y) /\ part'[y] = None
          /\ data'[y] = data[y] /\ readers'[y] = readers[y] /\ y[1] \in up'
      BY <1>1, <2>2
    <3>2. SlotTypes(y)'
      BY <2>1, <3>1, LoadedFacts DEF SlotTypes
    <3>3. data[y] # None => Loaded(y) # None /\ Loaded(y).status = "published"
      BY <2>1, LoadedFacts DEF Filed
    <3>4. Filed(y)'
      BY <2>1, <3>1, <3>3 DEF Filed, Is, Whole
    <3> QED BY <3>1, <3>2, <3>4 DEF SlotOK, Freshened, Covered
  <2>3. CASE y[1] # s
    <3>1. /\ record'[y] = record[y] /\ readers'[y] = readers[y] /\ (y[1] \in up' <=> y[1] \in up)
          /\ json'[y] = json[y] /\ part'[y] = part[y] /\ data'[y] = data[y] /\ op' = op
      BY <1>1, <2>3
    <3> QED BY <2>1, <3>1 DEF SlotOK, SlotTypes, Filed, Freshened, Covered, Is, Whole, Reserved, At
  <2> QED BY <2>2, <2>3
<1>4. CallInv'
  <2>1. op.at \in Placed => /\ op.x \in Slots /\ record'[op.x] = record[op.x]
                            /\ json'[op.x] = json[op.x] /\ part'[op.x] = part[op.x]
    BY <1>1, CallFacts DEF IInv, CallInv, NoCall, Placed
  <2>2. op.at = "swept" => op.x \in Slots /\ (part[op.x] = None => part'[op.x] = None)
    BY <1>1, CallFacts DEF IInv
  <2> QED BY <1>1, <2>1, <2>2 DEF IInv, CallInv, Placed, Is, Whole, NoCall
<1>5. Promised' \subseteq Promised
  BY <1>1 DEF Promised, Claimed
<1> QED BY <1>2, <1>3, <1>4, <1>5, EachSlot

\* A record that ages keeps all but its freshness.
AgedOf(i, j) ==
  IF i = None THEN j = None
  ELSE /\ j \in Infos /\ j # None /\ ~j.fresh
       /\ j.status = i.status /\ j.got = i.got /\ j.refs = i.refs

\* The time to live passes.
LEMMA AgeStep ==
  ASSUME IInv, Age
  PROVE  IInv'
<1> DEFINE Aged(i) == IF i = None THEN None ELSE [i EXCEPT !.fresh = FALSE]
<1>1. /\ ages' = ages + 1
      /\ record' = [x \in Slots |-> Aged(record[x])] /\ json' = [x \in Slots |-> Aged(json[x])]
      /\ UNCHANGED <<up, part, data, readers, op, faults, crashes>>
  BY DEF Age, files
<1>2. \A i \in Infos \union {None} : AgedOf(i, Aged(i))
  <2>1. \A i \in Infos : /\ [i EXCEPT !.fresh = FALSE] \in Infos /\ ~[i EXCEPT !.fresh = FALSE].fresh
                         /\ [i EXCEPT !.fresh = FALSE].status = i.status
                         /\ [i EXCEPT !.fresh = FALSE].got = i.got
                         /\ [i EXCEPT !.fresh = FALSE].refs = i.refs
    BY DEF Infos
  <2> QED BY <2>1, ConstantsAssumption DEF AgedOf
<1> HIDE DEF Aged
<1>3. Shape'
  BY <1>1 DEF IInv, Shape
<1>4. \A y \in Slots : SlotTypes(y) /\ AgedOf(record[y], record'[y]) /\ AgedOf(json[y], json'[y])
  BY <1>1, <1>2 DEF IInv, SlotInv, SlotTypes
<1>5. \A y \in Slots : SlotOK(y)'
  <2> SUFFICES ASSUME NEW y \in Slots PROVE SlotOK(y)'
    OBVIOUS
  <2>1. SlotTypes(y) /\ Filed(y) /\ Freshened(y) /\ Covered(y)
    BY DEF IInv, SlotInv
  <2>2. AgedOf(record[y], record'[y]) /\ AgedOf(json[y], json'[y])
    BY <1>4
  <2>3. SlotTypes(y)' /\ Covered(y)'
    BY <1>1, <2>1, <2>2 DEF AgedOf, SlotTypes, Covered, Reserved, At
  <2>4. Filed(y)'
    BY <1>1, <2>1, <2>2 DEF AgedOf, Filed, Is, Whole, At
  <2>5. Freshened(y)'
    BY <1>1, <2>1, <2>2 DEF AgedOf, Freshened, Filed, CallInv, IInv, At
  <2> QED BY <2>3, <2>4, <2>5 DEF SlotOK
<1>6. CallInv'
  <2>1. op.at \in Placed => op.x \in Slots
    BY CallFacts DEF IInv
  <2>2. op.at \in Placed => /\ AgedOf(record[op.x], record'[op.x])
                            /\ AgedOf(json[op.x], json'[op.x])
    BY <1>4, <2>1
  <2> QED BY <1>1, <2>2 DEF IInv, CallInv, Placed, Is, Whole, AgedOf
<1>7. Promised' \subseteq Promised
  BY <1>1, <1>4 DEF Promised, Claimed, Reserved, AgedOf
<1> QED BY <1>3, <1>5, <1>6, <1>7, EachSlot

-----------------------------------------------------------------------------
(* From the beginning, at every step, and what follows. *)

\* At first every session runs and the root is empty.
LEMMA InitHolds == Init => IInv
<1> SUFFICES ASSUME Init PROVE IInv
  OBVIOUS
<1>1. Shape /\ SlotInv
  BY DEF Init, Shape, SlotInv, SlotTypes, Filed, Freshened, Covered, Is, Slots
<1>2. CallInv
  BY DEF Init, CallInv, Calls, NoCall, Placed
<1>3. Promised = {}
  BY DEF Init, Promised, Claimed, NoCall
<1>4. Declared({}) = 0
  BY DeclaredStep
<1> QED BY <1>1, <1>2, <1>3, <1>4, ConstantsAssumption DEF IInv, ClaimInv

\* Every step of every session keeps the invariant.
LEMMA NextHolds ==
  ASSUME IInv, [Next]_vars
  PROVE  IInv'
<1>1. ASSUME NEW x \in Slots, RemoveStale(x) PROVE IInv'
  BY <1>1, RemoveStaleStep
<1>2. CASE ExpireEnds \/ BeginRefused
  BY <1>2, CallEndsStep
<1>3. CASE BeginAnew \/ CreatePart \/ Discard \/ Forget
  BY <1>3, BeginAnewStep, CreatePartStep, DiscardStep, ForgetStep
<1>4. ASSUME NEW ok \in BOOLEAN, RecordStale(ok) \/ Declare(ok) \/ Rename(ok) \/ Publish(ok)
      PROVE  IInv'
  BY <1>4, RecordStaleStep, DeclareStep, RenameStep, PublishStep
<1>5. CASE Age
  BY <1>5, AgeStep
<1>6. ASSUME NEW s \in Sessions, SessionStep(s) PROVE IInv'
  BY <1>6, ExpireStep, CrashStep, CloseStep, OpenStep DEF SessionStep
<1>7. ASSUME NEW x \in Slots, SlotStep(x) PROVE IInv'
  BY <1>7, AbortStep, ReleaseStep, WriteChunkStep, PublishedCallSteps, FinishStep DEF SlotStep
<1>8. CASE UNCHANGED vars
  <2>1. /\ up' = up /\ record' = record /\ json' = json /\ part' = part /\ data' = data
        /\ readers' = readers /\ op' = op /\ ages' = ages /\ faults' = faults /\ crashes' = crashes
    BY <1>8 DEF vars, files, bounds
  <2>2. CallInv' /\ \A y \in Slots : Away(y)
    BY <2>1 DEF IInv, CallInv, Away, At, Is, Whole
  <2>3. Shape' /\ \A y \in Slots : SlotOK(y)'
    BY <2>1 DEF IInv, Shape, SlotInv, SlotOK, SlotTypes, Filed, Freshened, Covered, At, Is, Whole, Reserved
  <2>4. Promised' \subseteq Promised
    BY <2>1 DEF Promised, Claimed, Reserved
  <2> QED BY <2>2, <2>3, <2>4, EachSlot
<1> QED BY <1>1, <1>2, <1>3, <1>4, <1>5, <1>6, <1>7, <1>8 DEF Next, CallStep

\* The inductive invariant holds at every point of every call.
THEOREM InvariantHolds == Spec => []IInv
BY InitHolds, NextHolds, PTL DEF Spec

\* It implies the types and that what is published is whole and verified.
LEMMA IInvTypes == IInv => Inv
<1> SUFFICES ASSUME IInv PROVE Inv
  OBVIOUS
<1>1. TypeOK
  BY DEF IInv, Shape, SlotInv, SlotTypes, CallInv, TypeOK
<1>2. PublishedIsWhole
  BY DEF IInv, SlotInv, Filed, PublishedIsWhole, At, Whole
<1> QED BY <1>1, <1>2 DEF Inv

\* Types, and whatever was interrupted before, a published file of a running session
\* is the whole transfer of the right hash, and the session knows it (finish,
\* load_existing).
THEOREM PublishedWhole == Spec => []Inv
BY InvariantHolds, IInvTypes, PTL

\* It implies the quota: what is stored has a claim on room.
LEMMA IInvQuota == IInv => QuotaHolds
<1> SUFFICES ASSUME IInv PROVE QuotaHolds
  OBVIOUS
<1> DEFINE S == {x \in Slots : Stored(x)}
<1>1. S \subseteq Promised /\ Promised \in SUBSET Slots
  <2>1. \A x \in Slots : Stored(x) => x \in Claimed
    BY DEF Stored, Claimed, IInv, SlotInv, Covered, SlotTypes, Files
  <2>2. Claimed \subseteq Promised
    BY DEF Promised
  <2> QED BY <2>1, <2>2, PromisedSlots DEF IInv
<1> HIDE DEF S
<1>2. Declared(S) <= Declared(Promised) /\ Declared(S) \in Nat /\ Declared(Promised) \in Nat
  BY <1>1, DeclaredMonotone, DeclaredNat
<1> QED BY <1>2, ConstantsAssumption DEF IInv, ClaimInv, QuotaHolds, S

\* The bytes stored by all sessions, living or dead, never exceed the quota of the
\* project, although sessions expire each other's artifacts and may die before they
\* wrote that down (begin_internal, expire_locked).
THEOREM QuotaIsKept == Spec => []QuotaHolds
BY InvariantHolds, IInvQuota, PTL

\* A step keeps the file of a published artifact that was used lately or is pinned.
LEMMA KeptStep ==
  ASSUME IInv, [Next]_vars, NEW x \in Slots, Kept(x)
  PROVE  data'[x] # None
<1>1. data[x] # None /\ json[x] # None /\ SlotTypes(x) /\ Filed(x) /\ Freshened(x)
  BY DEF Kept, IInv, SlotInv
<1>2. ASSUME NEW y \in Slots, RemoveStale(y) PROVE data'[x] # None
  <2>1. y # x
    BY <1>1, <1>2 DEF RemoveStale, Stale, Seen, Reserved, Kept, Freshened
  <2> QED BY <1>1, <1>2, <2>1 DEF RemoveStale, IInv, Shape
<1>3. CASE BeginAnew
  <2>1. op.s \in up /\ op.at = "sweep"
    BY <1>3, CallFacts DEF BeginAnew, Swept, IInv
  <2>2. x = <<op.s, op.for>> => Reserved(record[x])
    BY <1>1, <2>1 DEF Filed, At, Is, Reserved
  <2>3. x # <<op.s, op.for>>
    BY <1>3, <2>2 DEF BeginAnew, Free
  <2>4. data' = data \/ data' = [data EXCEPT ![<<op.s, op.for>>] = None]
    BY <1>3 DEF BeginAnew, files
  <2> QED BY <1>1, <2>3, <2>4 DEF IInv, Shape
<1>4. CASE Discard
  <2>1. data[op.x] = None
    BY <1>4 DEF Discard, IInv, CallInv
  <2> QED BY <1>1, <1>4, <2>1 DEF Discard, IInv, Shape
<1>5. ASSUME NEW ok \in BOOLEAN, Rename(ok) PROVE data'[x] # None
  <2>1. part[op.x] = Whole(op.x) /\ op.x \in Slots
    BY <1>5, CallFacts DEF Rename, IInv, CallInv, Placed
  <2>2. Whole(op.x) # None
    <3>1. Whole(op.x) \in Files
      BY <2>1, SizesAreNumbers DEF Whole, Files
    <3> QED BY <3>1, ConstantsAssumption
  <2>3. data' = data \/ data' = [data EXCEPT ![op.x] = part[op.x]]
    BY <1>5 DEF Rename, files
  <2> QED BY <1>1, <2>1, <2>2, <2>3 DEF IInv, Shape
<1>6. ASSUME data' = data PROVE data'[x] # None
  BY <1>1, <1>6
<1>7. CASE Age
  BY <1>1, <1>7 DEF Age, files
<1>8. ASSUME NEW s \in Sessions, SessionStep(s) PROVE data' = data
  BY <1>8 DEF SessionStep, Expire, Crash, Close, Open, files
<1>9. ASSUME NEW y \in Slots, SlotStep(y) PROVE data' = data
  BY <1>9 DEF SlotStep, Abort, Release, WriteChunk, Pin, Finish, FindMissing, Acquire, files
<1>10. ASSUME ExpireEnds \/ BeginRefused \/ CreatePart \/ Forget \/ UNCHANGED vars
       PROVE  data' = data
  BY <1>10 DEF ExpireEnds, BeginRefused, CreatePart, Forget, vars, files
<1>11. ASSUME NEW ok \in BOOLEAN, RecordStale(ok) \/ Declare(ok) \/ Publish(ok) PROVE data' = data
  BY <1>11 DEF RecordStale, Declare, Publish, files
<1> QED BY <1>2, <1>3, <1>4, <1>5, <1>6, <1>7, <1>8, <1>9, <1>10, <1>11 DEF Next, CallStep

\* No step of any session removes a published file that was used in the time to live,
\* or is pinned and was not unpinned (expire_locked, begin_internal, Drop).
THEOREM UsedOrPinnedIsKept == Spec => PublishedIsKept
<1>1. IInv /\ [Next]_vars => [\A x \in Slots : Kept(x) => data'[x] # None]_vars
  BY KeptStep
<1> QED BY <1>1, InvariantHolds, PTL DEF Spec, PublishedIsKept

===============================================================================
