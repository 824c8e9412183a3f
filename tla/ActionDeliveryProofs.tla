--------------------------- MODULE ActionDeliveryProofs ---------------------------
(***************************************************************************)
(* Proofs about ActionDelivery: its type invariant, and that it implements  *)
(* UiAction.  Every definition below is part of the argument that a request *)
(* is in one place only until it is sent to the app, and that it has not    *)
(* reached the app as long as somebody may still report it as failed.       *)
(***************************************************************************)
EXTENDS ActionDelivery, WellFoundedInduction, TLAPS

\* Where a thread is, expire_operations aside, which every thread calls.
Where(t) == IF pc[t] \in Sweeping THEN then[t] ELSE pc[t]

\* The places of a request before it is sent: with a thread that will deliver or
\* refuse it, in the queue or the heartbeat's lists, or withdrawn from the queue
\* by the reader of a lost connection.
Holder     == {"start", "push", "refused", "fail"}
Holds(t, a) == Where(t) \in Holder /\ job[t] = a
Piped      == ToSet(queue) \union ToSet(batch) \union ToSet(ready)
Lost(c)    == IF Where(c) \in {"refuse", "fail"} THEN todo[c] ELSE {}
Pending(a) ==
  \/ a \in Piped
  \/ \E t \in Threads : Holds(t, a)
  \/ \E c \in Conns : a \in Lost(c)

\* The steps after a sweep have their action, and the heartbeat's have a request.
WorkInv ==
  /\ \A t \in Threads : then[t] \notin Sweeping
  /\ \A t \in Threads :
       Where(t) \in Holder \union {"take", "accept", "cancel", "disown", "unqueue", "stop"}
         => job[t] \in Actions
  /\ Where(Heart) \in {"mark", "send", "unmark"} => ready # <<>>

\* A request is in one place.
PlaceInv ==
  /\ \A t, u \in Threads : Where(t) \in Holder /\ Where(u) \in Holder /\ job[t] = job[u] => t = u
  /\ \A t \in Threads : Where(t) \in Holder => job[t] \notin Piped
  /\ \A t \in Threads, c \in Conns : Where(t) \in Holder => job[t] \notin Lost(c)
  /\ \A c \in Conns : \A a \in Lost(c) : target[a] = c /\ a \notin Piped

\* A request in one of these places has not reached the app, one that has or that
\* is to be sent was started, and a failed one was not executed.
FateInv ==
  /\ \A a \in Actions : Pending(a) => app[a] = "none" /\ status[a] \notin {"none", "failed"}
  /\ \A a \in Actions : app[a] # "none" \/ a \in Piped => status[a] \notin {"none", "queued"}
  /\ \A t \in Threads : Where(t) = "push" => status[job[t]] \notin {"none", "queued"}
  /\ \A a \in Actions : status[a] = "failed" => app[a] \in {"none", "rejected"}

IInv == TypeOK /\ WorkInv /\ PlaceInv /\ FateInv

-----------------------------------------------------------------------------
\* Every set of naturals that is not empty has a least element.
LEMMA Least == \A T \in SUBSET Nat : T # {} => \E x \in T : \A y \in T : x <= y
<1> SUFFICES ASSUME NEW T \in SUBSET Nat, T # {} PROVE \E x \in T : \A y \in T : x <= y
  OBVIOUS
<1> DEFINE R == {p \in Nat \X Nat : p[1] < p[2]}
<1>1. R = OpToRel(<, Nat)
  BY DEF OpToRel
<1>2. IsWellFoundedOn(R, Nat)
  BY <1>1, NatLessThanWellFounded
<1>3. PICK x \in T : \A y \in T : ~ (<<y, x>> \in R)
  <2> HIDE DEF R
  <2> QED BY <1>2, WFMin
<1>4. \A y \in T : y \in Nat /\ x \in Nat /\ (y < x => <<y, x>> \in Nat \X Nat)
  OBVIOUS
<1>5. \A y \in T : y < x => <<y, x>> \in R
  BY <1>4
<1>6. \A y \in T : ~ (y < x)
  BY <1>3, <1>5
<1> QED BY <1>4, <1>6

\* So a set that holds 0 and, with each number below n, the next one, holds all up to n.
LEMMA UpTo ==
  ASSUME NEW n \in Nat, NEW T, 0 \in T, \A i \in 0 .. n - 1 : i \in T => i + 1 \in T
  PROVE  \A i \in 0 .. n : i \in T
<1> DEFINE B == {i \in 0 .. n : i \notin T}
<1>1. SUFFICES ASSUME B # {} PROVE FALSE
  OBVIOUS
<1>2. PICK x \in B : \A y \in B : x <= y
  <2>1. B \in SUBSET Nat
    OBVIOUS
  <2> HIDE DEF B
  <2> QED BY <1>1, <2>1, Least
<1>3. x # 0 /\ x - 1 \in 0 .. n - 1 /\ x - 1 \in T
  BY <1>2
<1> QED BY <1>2, <1>3

\* What retain leaves of a queue, element by element.
Rule(s, S, f) ==
  [i \in 0 .. Len(s) |->
     IF i = 0 THEN <<>> ELSE IF s[i] \in S THEN f[i - 1] ELSE Append(f[i - 1], s[i])]

LEMMA RuleHolds ==
  ASSUME NEW s \in Seq(Actions), NEW S
  PROVE  \E f : f = Rule(s, S, f) /\ Without(s, S) = f[Len(s)]
<1> DEFINE n == Len(s)
           Step(f, i) == IF s[i] \in S THEN f[i - 1] ELSE Append(f[i - 1], s[i])
           Good(f, m) == f[0] = <<>> /\ \A i \in 1 .. m : f[i] = Step(f, i)
           T == {m \in 0 .. n : \E f : Good(f, m)}
<1>1. n \in Nat
  OBVIOUS
<1>2. 0 \in T
  <2>1. Good([i \in 0 .. 0 |-> <<>>], 0)
    OBVIOUS
  <2>2. \E f : Good(f, 0)
    BY <2>1
  <2> HIDE DEF Good
  <2> QED BY <1>1, <2>2
<1>3. ASSUME NEW m \in 0 .. n - 1, m \in T PROVE m + 1 \in T
  <2>1. PICK f : Good(f, m)
    BY <1>3
  <2> DEFINE g == [i \in 0 .. m + 1 |-> IF i <= m THEN f[i] ELSE Step(f, m + 1)]
  <2>2. m \in Nat /\ m + 1 \in 0 .. n
    BY <1>1
  <2>3. \A i \in 0 .. m : g[i] = f[i]
    BY <2>2
  <2>4. g[m + 1] = Step(f, m + 1)
    BY <2>2
  <2> HIDE DEF g
  <2>5. ASSUME NEW i \in 1 .. m + 1 PROVE g[i] = Step(g, i)
    <3>1. i - 1 \in 0 .. m /\ g[i - 1] = f[i - 1]
      BY <2>2, <2>3
    <3>2. CASE i = m + 1
      BY <2>4, <3>1, <3>2
    <3>3. CASE i # m + 1
      <4>1. i \in 1 .. m /\ i \in 0 .. m
        BY <2>2, <3>3
      <4> QED BY <2>1, <2>3, <3>1, <4>1
    <3> QED BY <3>2, <3>3
  <2>6. \E h : Good(h, m + 1)
    <3>1. g[0] = <<>>
      BY <2>1, <2>2, <2>3
    <3> QED BY <2>5, <3>1
  <2> HIDE DEF Good
  <2> QED BY <2>2, <2>6
<1>4. n \in T
  <2>1. n \in 0 .. n
    BY <1>1
  <2> HIDE DEF T, n
  <2> QED BY <1>1, <1>2, <1>3, <2>1, UpTo
<1>5. PICK h : Good(h, n)
  BY <1>4
<1> DEFINE f == [i \in 0 .. n |-> h[i]]
<1>6. f = Rule(s, S, f)
  <2>1. \A i \in 1 .. n : i - 1 \in 0 .. n
    BY <1>1
  <2> QED BY <1>1, <1>5, <2>1 DEF Rule
<1> HIDE DEF f
<1>7. \E k : k = Rule(s, S, k) /\ Without(s, S) = k[n]
  BY <1>6 DEF Without, Rule
<1> QED BY <1>7

LEMMA WithoutFacts ==
  ASSUME NEW s \in Seq(Actions), NEW S
  PROVE  /\ Without(s, S) \in Seq(Actions)
         /\ Len(Without(s, S)) <= Len(s)
         /\ \A j \in 1 .. Len(Without(s, S)) : \E i \in 1 .. Len(s) : Without(s, S)[j] = s[i] /\ s[i] \notin S
         /\ IsInjective(s) => IsInjective(Without(s, S))
<1> DEFINE n == Len(s)
<1>1. PICK f : f = Rule(s, S, f) /\ Without(s, S) = f[n]
  BY RuleHolds
<1>2. n \in Nat /\ f[0] = <<>> /\ \A i \in 1 .. n : f[i] = IF s[i] \in S THEN f[i - 1] ELSE Append(f[i - 1], s[i])
  <2>1. \A i \in 0 .. n : f[i] = Rule(s, S, f)[i]
    BY <1>1
  <2> QED BY <2>1 DEF Rule
<1> DEFINE Fine(m) == /\ f[m] \in Seq(Actions) /\ Len(f[m]) <= m
                      /\ \A j \in 1 .. Len(f[m]) : \E i \in 1 .. m : f[m][j] = s[i] /\ s[i] \notin S
                      /\ IsInjective(s) => \A i, j \in 1 .. Len(f[m]) : f[m][i] = f[m][j] => i = j
           T == {m \in 0 .. n : Fine(m)}
<1>3. 0 \in T
  <2>1. Fine(0)
    BY <1>2
  <2> HIDE DEF Fine
  <2> QED BY <1>2, <2>1
<1>4. ASSUME NEW m \in 0 .. n - 1, m \in T PROVE m + 1 \in T
  <2>1. m \in Nat /\ m + 1 \in 1 .. n /\ Fine(m)
    BY <1>2, <1>4
  <2>2. CASE s[m + 1] \in S
    <3>1. f[m + 1] = f[m]
      BY <1>2, <2>1, <2>2
    <3>2. Fine(m + 1)
      BY <2>1, <3>1
    <3> HIDE DEF Fine
    <3> QED BY <2>1, <3>2
  <2>3. CASE s[m + 1] \notin S
    <3>1. f[m + 1] = Append(f[m], s[m + 1]) /\ s[m + 1] \in Actions
      <4>1. (m + 1) - 1 = m
        BY <2>1
      <4>2. f[m + 1] = IF s[m + 1] \in S THEN f[(m + 1) - 1] ELSE Append(f[(m + 1) - 1], s[m + 1])
        BY <1>2, <2>1
      <4>3. s[m + 1] \in Actions
        BY <2>1
      <4> QED BY <2>3, <4>1, <4>2, <4>3
    <3>2. f[m + 1] \in Seq(Actions) /\ Len(f[m + 1]) = Len(f[m]) + 1 /\ Len(f[m]) \in Nat
          /\ f[m + 1][Len(f[m]) + 1] = s[m + 1] /\ \A j \in 1 .. Len(f[m]) : f[m + 1][j] = f[m][j]
      BY <2>1, <3>1
    <3>3. \A j \in 1 .. Len(f[m + 1]) : \E i \in 1 .. m + 1 : f[m + 1][j] = s[i] /\ s[i] \notin S
      BY <2>1, <2>3, <3>2, SMTT(30)
    <3>4. IsInjective(s) => \A j \in 1 .. Len(f[m]) : f[m][j] # s[m + 1]
      <4> SUFFICES ASSUME IsInjective(s), NEW j \in 1 .. Len(f[m]), f[m][j] = s[m + 1] PROVE FALSE
        OBVIOUS
      <4>1. PICK i \in 1 .. m : f[m][j] = s[i]
        BY <2>1
      <4>2. i \in DOMAIN s /\ m + 1 \in DOMAIN s /\ i # m + 1
        BY <2>1, <4>1
      <4> QED BY <4>1, <4>2 DEF IsInjective
    <3>5. IsInjective(s) => \A i, j \in 1 .. Len(f[m + 1]) : f[m + 1][i] = f[m + 1][j] => i = j
      <4> SUFFICES ASSUME IsInjective(s), NEW i \in 1 .. Len(f[m + 1]), NEW j \in 1 .. Len(f[m + 1]),
                          f[m + 1][i] = f[m + 1][j]
                   PROVE  i = j
        OBVIOUS
      <4>1. i \in 1 .. Len(f[m]) \/ i = Len(f[m]) + 1
        BY <3>2
      <4>2. j \in 1 .. Len(f[m]) \/ j = Len(f[m]) + 1
        BY <3>2
      <4> QED BY <2>1, <3>2, <3>4, <4>1, <4>2
    <3>6. Fine(m + 1)
      BY <2>1, <3>2, <3>3, <3>5
    <3> HIDE DEF Fine
    <3> QED BY <2>1, <3>6
  <2> QED BY <2>2, <2>3
<1>5. Fine(n)
  <2>1. n \in 0 .. n
    BY <1>2
  <2>2. n \in T
    <3> HIDE DEF T, n
    <3> QED BY <1>2, <1>3, <1>4, <2>1, UpTo
  <2> HIDE DEF Fine
  <2> QED BY <2>2
<1>6. f[n] \in Seq(Actions) /\ Len(f[n]) <= n
      /\ \A j \in 1 .. Len(f[n]) : \E i \in 1 .. n : f[n][j] = s[i] /\ s[i] \notin S
  BY <1>5
<1>7. IsInjective(s) => IsInjective(f[n])
  BY <1>5 DEF IsInjective
<1> QED BY <1>1, <1>6, <1>7

\* Membership and injectivity by position.
LEMMA ByPosition ==
  ASSUME NEW s \in Seq(Actions)
  PROVE  /\ Len(s) \in Nat /\ \A i \in 1 .. Len(s) : s[i] \in Actions
         /\ \A a : a \in ToSet(s) <=> \E i \in 1 .. Len(s) : s[i] = a
         /\ IsInjective(s) <=> \A i, j \in 1 .. Len(s) : s[i] = s[j] => i = j
BY DEF ToSet, IsInjective

LEMMA WithoutSet ==
  ASSUME NEW s \in Seq(Actions), NEW S
  PROVE  ToSet(Without(s, S)) \subseteq ToSet(s) \ S
<1> DEFINE r == Without(s, S)
<1>1. r \in Seq(Actions)
      /\ \A j \in 1 .. Len(r) : \E i \in 1 .. Len(s) : r[j] = s[i] /\ s[i] \notin S
  BY WithoutFacts
<1> HIDE DEF r
<1>2. ASSUME NEW x \in ToSet(r) PROVE x \in ToSet(s) /\ x \notin S
  <2>1. PICK j \in 1 .. Len(r) : r[j] = x
    BY <1>1, ByPosition
  <2>2. PICK i \in 1 .. Len(s) : x = s[i] /\ s[i] \notin S
    BY <1>1, <2>1
  <2> QED BY <2>2, ByPosition
<1>3. ToSet(r) \subseteq ToSet(s) \ S
  BY <1>2
<1> QED BY <1>3 DEF r

\* A queue has what it had and what is appended, or lacks what was taken.
LEMMA AppendFacts ==
  ASSUME NEW s \in Seq(Actions), NEW a \in Actions
  PROVE  /\ Append(s, a) \in Seq(Actions) /\ Len(Append(s, a)) = Len(s) + 1
         /\ ToSet(Append(s, a)) = ToSet(s) \union {a}
         /\ IsInjective(s) /\ a \notin ToSet(s) => IsInjective(Append(s, a))
<1> DEFINE t == Append(s, a)
           n == Len(s)
<1>1. t \in Seq(Actions) /\ n \in Nat /\ Len(t) = n + 1 /\ t[n + 1] = a
      /\ \A i \in 1 .. n : t[i] = s[i]
  OBVIOUS
<1> HIDE DEF t
<1>2. \A i : i \in 1 .. Len(t) <=> i \in 1 .. n \/ i = n + 1
  BY <1>1
<1>3. \A x : x \in ToSet(t) <=> x \in ToSet(s) \/ x = a
  <2>1. ASSUME NEW x \in ToSet(t) PROVE x \in ToSet(s) \/ x = a
    <3>1. PICK i \in 1 .. Len(t) : t[i] = x
      BY <1>1, ByPosition
    <3> QED BY <1>1, <1>2, <3>1, ByPosition
  <2>2. \A x : x \in ToSet(s) => x \in ToSet(t)
    BY <1>1, <1>2, ByPosition
  <2>3. a \in ToSet(t)
    BY <1>1, <1>2, ByPosition
  <2> QED BY <2>1, <2>2, <2>3
<1>4. ASSUME IsInjective(s), a \notin ToSet(s) PROVE IsInjective(t)
  <2>1. ASSUME NEW i \in 1 .. Len(t), NEW j \in 1 .. Len(t), t[i] = t[j] PROVE i = j
    <3>1. \A k \in 1 .. n : s[k] # a
      BY <1>4, ByPosition
    <3> QED BY <1>1, <1>2, <1>4, <2>1, <3>1, ByPosition
  <2> QED BY <1>1, <2>1, ByPosition
<1> QED BY <1>1, <1>3, <1>4 DEF t

LEMMA TailFacts ==
  ASSUME NEW s \in Seq(Actions), s # <<>>
  PROVE  /\ Tail(s) \in Seq(Actions) /\ Head(s) \in Actions /\ Head(s) \in ToSet(s)
         /\ ToSet(Tail(s)) \subseteq ToSet(s) /\ ToSet(s) = ToSet(Tail(s)) \union {Head(s)}
         /\ IsInjective(s) => IsInjective(Tail(s)) /\ Head(s) \notin ToSet(Tail(s))
<1> DEFINE t == Tail(s)
           n == Len(s)
<1>1. t \in Seq(Actions) /\ n \in Nat \ {0} /\ Len(t) = n - 1 /\ Head(s) = s[1] /\ s[1] \in Actions
      /\ \A i \in 1 .. n - 1 : t[i] = s[i + 1]
  OBVIOUS
<1> HIDE DEF t
<1>2. ASSUME NEW i \in 1 .. n, i # 1 PROVE i - 1 \in 1 .. n - 1 /\ s[i] = t[i - 1]
  <2>1. i - 1 \in 1 .. n - 1 /\ (i - 1) + 1 = i
    BY <1>1, <1>2
  <2> QED BY <1>1, <2>1
<1>3. \A i \in 1 .. n - 1 : i + 1 \in 1 .. n /\ i + 1 # 1
  BY <1>1
<1>4. 1 \in 1 .. n
  BY <1>1
<1>5. \A x : x \in ToSet(s) <=> x \in ToSet(t) \/ x = Head(s)
  <2>1. ASSUME NEW x \in ToSet(s) PROVE x \in ToSet(t) \/ x = Head(s)
    <3>1. PICK i \in 1 .. n : s[i] = x
      BY ByPosition
    <3>2. CASE i = 1
      BY <1>1, <3>1, <3>2
    <3>3. CASE i # 1
      BY <1>1, <1>2, <3>1, <3>3, ByPosition
    <3> QED BY <3>2, <3>3
  <2>2. \A x : x \in ToSet(t) => x \in ToSet(s)
    BY <1>1, <1>3, ByPosition
  <2>3. Head(s) \in ToSet(s)
    BY <1>1, <1>4, ByPosition
  <2> QED BY <2>1, <2>2, <2>3
<1>6. ASSUME IsInjective(s) PROVE IsInjective(t) /\ Head(s) \notin ToSet(t)
  <2>1. ASSUME NEW i \in 1 .. Len(t), NEW j \in 1 .. Len(t), t[i] = t[j] PROVE i = j
    <3>1. s[i + 1] = s[j + 1] /\ i + 1 \in 1 .. n /\ j + 1 \in 1 .. n
      BY <1>1, <1>3, <2>1
    <3>2. i + 1 = j + 1
      BY <1>6, <3>1, ByPosition
    <3> QED BY <1>1, <3>2
  <2>2. ASSUME NEW i \in 1 .. Len(t) PROVE t[i] # s[1]
    <3>1. t[i] = s[i + 1] /\ i + 1 \in 1 .. n /\ i + 1 # 1
      BY <1>1, <1>3
    <3> QED BY <1>4, <1>6, <3>1, ByPosition
  <2> QED BY <1>1, <2>1, <2>2, ByPosition
<1> QED BY <1>1, <1>5, <1>6 DEF t

LEMMA EmptyFacts == <<>> \in Seq(Actions) /\ ToSet(<<>>) = {} /\ IsInjective(<<>>) /\ Len(<<>>) = 0
BY DEF ToSet, IsInjective

\* The concatenation of two queues is injective when both are, without a common
\* request.
LEMMA ConcatFacts ==
  ASSUME NEW q \in Seq(Actions), NEW r \in Seq(Actions)
  PROVE  /\ q \o r \in Seq(Actions)
         /\ ToSet(q \o r) = ToSet(q) \union ToSet(r)
         /\ IsInjective(q \o r) <=>
              IsInjective(q) /\ IsInjective(r) /\ ToSet(q) \intersect ToSet(r) = {}
<1> DEFINE s == q \o r
           m == Len(q)
           n == Len(r)
<1>1. s \in Seq(Actions) /\ m \in Nat /\ n \in Nat /\ Len(s) = m + n
      /\ (\A i \in 1 .. m : s[i] = q[i])
  OBVIOUS
<1>2. \A i \in 1 .. n : s[m + i] = r[i]
  OBVIOUS
<1> HIDE DEF s
<1>3. \A i \in 1 .. Len(s) : i \in 1 .. m \/ (i - m \in 1 .. n /\ s[i] = r[i - m])
  <2>1. ASSUME NEW i \in 1 .. Len(s), i \notin 1 .. m PROVE i - m \in 1 .. n /\ m + (i - m) = i
    BY <1>1, <2>1
  <2>2. ASSUME NEW i \in 1 .. Len(s), i \notin 1 .. m PROVE s[i] = r[i - m]
    <3>1. i - m \in 1 .. n /\ m + (i - m) = i
      BY <2>1, <2>2
    <3>2. s[m + (i - m)] = r[i - m]
      BY <1>2, <3>1
    <3> QED BY <3>1, <3>2
  <2> QED BY <2>1, <2>2
<1>4. \A i \in 1 .. m : i \in 1 .. Len(s)
  BY <1>1
<1>5. \A i \in 1 .. n : m + i \in 1 .. Len(s) /\ m + i \notin 1 .. m
  BY <1>1
<1>6. \A x : x \in ToSet(s) <=> x \in ToSet(q) \/ x \in ToSet(r)
  <2>1. ASSUME NEW x \in ToSet(s) PROVE x \in ToSet(q) \/ x \in ToSet(r)
    <3>1. PICK i \in 1 .. Len(s) : s[i] = x
      BY <1>1, ByPosition
    <3>2. CASE i \in 1 .. m
      BY <1>1, <3>1, <3>2, ByPosition
    <3>3. CASE i \notin 1 .. m
      BY <1>3, <3>1, <3>3, ByPosition
    <3> QED BY <3>2, <3>3
  <2>2. \A x : x \in ToSet(q) => x \in ToSet(s)
    BY <1>1, <1>4, ByPosition
  <2>3. ASSUME NEW x \in ToSet(r) PROVE x \in ToSet(s)
    <3>1. PICK i \in 1 .. n : r[i] = x
      BY ByPosition
    <3>2. s[m + i] = x /\ m + i \in 1 .. Len(s)
      BY <1>2, <1>5, <3>1
    <3> QED BY <1>1, <3>2, ByPosition
  <2> QED BY <2>1, <2>2, <2>3
<1>7. ASSUME IsInjective(s) PROVE IsInjective(q) /\ IsInjective(r) /\ ToSet(q) \intersect ToSet(r) = {}
  <2>1. ASSUME NEW i \in 1 .. m, NEW j \in 1 .. m, q[i] = q[j] PROVE i = j
    <3>1. s[i] = s[j] /\ i \in 1 .. Len(s) /\ j \in 1 .. Len(s)
      BY <1>1, <1>4, <2>1
    <3> QED BY <1>1, <1>7, <3>1, ByPosition
  <2>2. ASSUME NEW i \in 1 .. n, NEW j \in 1 .. n, r[i] = r[j] PROVE i = j
    <3>1. s[m + i] = s[m + j] /\ m + i \in 1 .. Len(s) /\ m + j \in 1 .. Len(s)
      BY <1>2, <1>5, <2>2
    <3>2. m + i = m + j
      BY <1>1, <1>7, <3>1, ByPosition
    <3> QED BY <1>1, <3>2
  <2>3. ASSUME NEW i \in 1 .. m, NEW j \in 1 .. n, q[i] = r[j] PROVE FALSE
    <3>1. s[i] = s[m + j] /\ i \in 1 .. Len(s) /\ m + j \in 1 .. Len(s)
      BY <1>1, <1>2, <1>4, <1>5, <2>3
    <3>2. i = m + j
      BY <1>1, <1>7, <3>1, ByPosition
    <3> QED BY <1>5, <3>2
  <2> QED BY <2>1, <2>2, <2>3, ByPosition
<1>8. ASSUME IsInjective(q), IsInjective(r), ToSet(q) \intersect ToSet(r) = {} PROVE IsInjective(s)
  <2>1. ASSUME NEW i \in 1 .. Len(s), NEW j \in 1 .. Len(s), s[i] = s[j] PROVE i = j
    <3>1. \A k \in 1 .. m, l \in 1 .. n : q[k] # r[l]
      BY <1>8, ByPosition
    <3>2. CASE i \in 1 .. m /\ j \in 1 .. m
      BY <1>1, <1>8, <2>1, <3>2, ByPosition
    <3>3. CASE i \in 1 .. m /\ j \notin 1 .. m
      BY <1>1, <1>3, <2>1, <3>1, <3>3
    <3>4. CASE i \notin 1 .. m /\ j \in 1 .. m
      BY <1>1, <1>3, <2>1, <3>1, <3>4
    <3>5. CASE i \notin 1 .. m /\ j \notin 1 .. m
      <4>1. i - m \in 1 .. n /\ j - m \in 1 .. n /\ r[i - m] = r[j - m]
        BY <1>3, <2>1, <3>5
      <4>2. i - m = j - m
        BY <1>8, <4>1, ByPosition
      <4> QED BY <1>1, <4>2
    <3> QED BY <3>2, <3>3, <3>4, <3>5
  <2> QED BY <1>1, <2>1, ByPosition
<1> QED BY <1>1, <1>6, <1>7, <1>8 DEF s

\* No request is twice in the queue and the heartbeat's lists.
Once(q, b, r) ==
  /\ IsInjective(q) /\ IsInjective(b) /\ IsInjective(r)
  /\ ToSet(q) \intersect ToSet(b) = {}
  /\ ToSet(q) \intersect ToSet(r) = {}
  /\ ToSet(b) \intersect ToSet(r) = {}

LEMMA OnceFacts ==
  ASSUME NEW q \in Seq(Actions), NEW b \in Seq(Actions), NEW r \in Seq(Actions)
  PROVE  IsInjective(q \o b \o r) <=> Once(q, b, r)
<1>1. /\ q \o b \in Seq(Actions) /\ ToSet(q \o b) = ToSet(q) \union ToSet(b)
      /\ IsInjective(q \o b) <=>
           IsInjective(q) /\ IsInjective(b) /\ ToSet(q) \intersect ToSet(b) = {}
  BY ConcatFacts
<1>2. IsInjective((q \o b) \o r) <=>
        IsInjective(q \o b) /\ IsInjective(r) /\ ToSet(q \o b) \intersect ToSet(r) = {}
  BY <1>1, ConcatFacts
<1> QED BY <1>1, <1>2 DEF Once

-----------------------------------------------------------------------------
\* What the calls of the operation store do to one action.
LEMMA ExpiredFacts ==
  ASSUME NEW st \in [Actions -> Active \union Ended \union {"none"}], NEW late
  PROVE  /\ Expired(st, late) \in [Actions -> Active \union Ended \union {"none"}]
         /\ \A b \in Actions :
              \/ Expired(st, late)[b] = st[b]
              \/ st[b] \in Active /\ Expired(st, late)[b] = "timed_out"
BY DEF Expired, Ended

LEMMA FinishedFacts ==
  ASSUME NEW st \in [Actions -> Active \union Ended \union {"none"}], NEW late, NEW a \in Actions,
         NEW v \in Ended
  PROVE  /\ Finished(st, a, v, late) \in [Actions -> Active \union Ended \union {"none"}]
         /\ \A b \in Actions :
              \/ Finished(st, a, v, late)[b] = st[b]
              \/ st[b] \in Active /\ Finished(st, a, v, late)[b] = "timed_out"
              \/ b = a /\ st[b] = "running" /\ b \notin late /\ Finished(st, a, v, late)[b] = v
<1> DEFINE x == Expired(st, late)
<1>1. x \in [Actions -> Active \union Ended \union {"none"}]
  BY ExpiredFacts
<1>2. x[a] = "running" => st[a] = "running" /\ a \notin late
  BY DEF Expired, Active
<1>3. \A b \in Actions : x[b] = st[b] \/ (st[b] \in Active /\ x[b] = "timed_out")
  BY ExpiredFacts
<1>4. Finished(st, a, v, late) = IF x[a] = "running" THEN [x EXCEPT ![a] = v] ELSE x
  BY DEF Finished
<1> HIDE DEF x
<1> QED BY <1>1, <1>2, <1>3, <1>4

LEMMA UnknownFacts ==
  ASSUME NEW st \in [Actions -> Active \union Ended \union {"none"}], NEW a \in Actions
  PROVE  /\ Unknown(st, a) \in [Actions -> Active \union Ended \union {"none"}]
         /\ \A b \in Actions :
              \/ Unknown(st, a)[b] = st[b]
              \/ st[b] = "running" /\ Unknown(st, a)[b] = "unknown"
BY DEF Unknown, Ended

LEMMA StartedFacts ==
  ASSUME status \in [Actions -> Active \union Ended \union {"none"}], NEW a \in Actions
  PROVE  /\ Started(a) \in [Actions -> Active \union Ended \union {"none"}]
         /\ \A b \in Actions :
              \/ Started(a)[b] = status[b]
              \/ status[b] \in Active /\ Started(a)[b] = "timed_out"
              \/ status[b] = "queued" /\ Started(a)[b] = "running"
<1> DEFINE x == Expired(status, due)
<1>1. x \in [Actions -> Active \union Ended \union {"none"}]
  BY ExpiredFacts
<1>2. \A b \in Actions : x[b] = status[b] \/ (status[b] \in Active /\ x[b] = "timed_out")
  BY ExpiredFacts
<1>3. Started(a) = IF x[a] = "queued" THEN [x EXCEPT ![a] = "running"] ELSE x
  BY DEF Started
<1> HIDE DEF x
<1> QED BY <1>1, <1>2, <1>3 DEF Active

\* How the status of an action may change in a step: it fails only as long as it
\* has not reached the app, or was rejected there, and it succeeds when the app
\* executed it in time.
Fair(a) ==
  \/ status'[a] = status[a]
  \/ /\ UNCHANGED app
     /\ \/ status[a] = "none" /\ status'[a] = "queued"
        \/ status[a] = "queued" /\ status'[a] \in {"running", "cancelled", "timed_out"}
        \/ status[a] = "running" /\ status'[a] \in {"cancelled", "timed_out", "unknown"}
        \/ status[a] = "running" /\ status'[a] = "succeeded" /\ app[a] = "hit"
        \/ status[a] = "running" /\ status'[a] = "failed" /\ app[a] = "rejected"
        \/ /\ status[a] = "running" /\ status'[a] = "failed"
           /\ \E t \in Threads : Fail(t) /\ job[t] = a

\* The threads and where they can be.
LEMMA ThreadFacts ==
  /\ Heart \in Threads /\ Live \in Threads /\ Controls \subseteq Threads /\ Conns \subseteq Threads
  /\ Heart \notin Controls \union Conns /\ Live \notin Controls \union Conns /\ Heart # Live
  /\ \A k \in Controls : k \notin Conns
       /\ PcOf(k) = {"idle", "start", "push", "refused", "fail", "cancel", "disown", "unqueue", "stop",
                     "sweep", "settle"}
  /\ \A c \in Conns :
       PcOf(c) = {"idle", "read", "take", "accept", "sever", "severed", "refuse", "fail", "done",
                  "sweep", "settle"}
  /\ PcOf(Heart) = {"idle", "mark", "send", "unmark", "fail", "sweep", "settle"}
  /\ PcOf(Live) = {"idle", "sweep", "settle"}
BY ConstantsAssumption DEF Threads, PcOf, Sweeping

-----------------------------------------------------------------------------
\* Where the threads are, and the work they have there.
PcOK ==
  /\ DOMAIN pc = Threads /\ DOMAIN then = Threads
  /\ \A t \in Threads : pc[t] \in PcOf(t) /\ then[t] \in PcOf(t) \union {"idle"} /\ then[t] \notin Sweeping

Working == Holder \union {"take", "accept", "cancel", "disown", "unqueue", "stop"}
JobOK   == job \in [Threads -> Actions \union {None}]
           /\ \A t \in Threads : Where(t) \in Working => job[t] \in Actions
HeartOK == Where(Heart) \in {"mark", "send", "unmark"} => ready # <<>>

\* One thread has moved and works on j now.
Moved(t, to, j) ==
  /\ Where(t)' = to /\ \A u \in Threads \ {t} : Where(u)' = Where(u)
  /\ job' = [job EXCEPT ![t] = j]

\* A thread moves on, or to the sweep before its next step; a sweep returns to it.
LEMMA GoFacts ==
  ASSUME PcOK, NEW t \in Threads, NEW to \in PcOf(t) \ Sweeping, Go(t, to), UNCHANGED then
  PROVE  /\ PcOK' /\ pc'[t] = to
         /\ Where(t)' = to /\ \A u \in Threads \ {t} : Where(u)' = Where(u)
<1>1. DOMAIN pc' = Threads /\ pc'[t] = to /\ \A u \in Threads \ {t} : pc'[u] = pc[u]
  BY DEF PcOK, Go
<1>2. PcOK'
  BY <1>1 DEF PcOK
<1> QED BY <1>1, <1>2 DEF Where

LEMMA SweepFacts ==
  ASSUME PcOK, NEW t \in Threads, t # Live, NEW next \in PcOf(t) \ Sweeping, Sweep(t, next)
  PROVE  /\ PcOK' /\ pc'[t] = "sweep"
         /\ Where(t)' = next /\ \A u \in Threads \ {t} : Where(u)' = Where(u)
<1>1. DOMAIN pc' = Threads /\ pc'[t] = "sweep" /\ \A u \in Threads \ {t} : pc'[u] = pc[u]
  BY DEF PcOK, Go, Sweep
<1>2. DOMAIN then' = Threads /\ then'[t] = next /\ \A u \in Threads \ {t} : then'[u] = then[u]
  BY DEF PcOK, Sweep
<1>3. "sweep" \in PcOf(t)
  BY ThreadFacts DEF Threads
<1>4. PcOK'
  BY <1>1, <1>2, <1>3 DEF PcOK
<1> QED BY <1>1, <1>2, <1>4 DEF Where, Sweeping

LEMMA SweepStepFacts ==
  ASSUME PcOK, NEW t \in Threads, SweepStep(t)
  PROVE  PcOK' /\ (\A u \in Threads : Where(u)' = Where(u)) /\ UNCHANGED job
<1>1. UNCHANGED job
  BY DEF SweepStep, TakeDue, NothingDue, Expire
<1>2. "settle" \in PcOf(t) /\ "idle" \in PcOf(t)
  BY ThreadFacts DEF Threads
<1>3. t = Live => then[t] = "idle"
  BY ThreadFacts DEF PcOK, Sweeping
<1>4. CASE TakeDue(t)
  <2>1. UNCHANGED then /\ pc[t] \in {"sweep", "idle"} /\ (pc[t] = "idle" => t = Live)
    BY <1>4 DEF TakeDue, MaySweep
  <2>2. DOMAIN pc' = Threads /\ pc'[t] = "settle" /\ \A u \in Threads \ {t} : pc'[u] = pc[u]
    BY <1>4 DEF TakeDue, Go, PcOK
  <2>3. PcOK'
    BY <1>2, <2>1, <2>2 DEF PcOK
  <2>4. Where(t)' = Where(t)
    BY <1>3, <2>1, <2>2 DEF Where, Sweeping
  <2> QED BY <1>1, <2>1, <2>2, <2>3, <2>4 DEF Where
<1>5. CASE NothingDue(t) \/ Expire(t)
  <2>1. pc[t] \in {"sweep", "settle", "idle"} /\ (pc[t] = "idle" => t = Live)
    BY <1>5 DEF NothingDue, Expire, MaySweep
  <2>2. DOMAIN pc' = Threads /\ pc'[t] = then[t] /\ \A u \in Threads \ {t} : pc'[u] = pc[u]
    BY <1>5 DEF NothingDue, Expire, Go, PcOK
  <2>3. DOMAIN then' = Threads /\ then'[t] = "idle" /\ \A u \in Threads \ {t} : then'[u] = then[u]
    BY <1>5 DEF NothingDue, Expire, PcOK
  <2>4. PcOK'
    BY <1>2, <2>2, <2>3 DEF PcOK, Sweeping
  <2>5. Where(t)' = Where(t)
    BY <1>3, <2>1, <2>2, <2>3 DEF Where, Sweeping, PcOK
  <2> QED BY <1>1, <2>2, <2>3, <2>4, <2>5 DEF Where
<1> QED BY <1>4, <1>5 DEF SweepStep

\* A request stays in one place when none gets to a new one.
LEMMA PlaceFrame ==
  ASSUME PlaceInv, UNCHANGED target, Piped' \subseteq Piped,
         \A t \in Threads : Where(t)' \in Holder => Where(t) \in Holder /\ job'[t] = job[t],
         \A c \in Conns : Lost(c)' \subseteq Lost(c)
  PROVE  PlaceInv' /\ \A a \in Actions : Pending(a)' => Pending(a)
<1>1. PlaceInv'
  BY DEF PlaceInv
<1>2. \A a \in Actions : Pending(a)' => Pending(a)
  BY DEF Pending, Holds
<1> QED BY <1>1, <1>2

LEMMA MoveFrame ==
  ASSUME PlaceInv, JobOK, NEW t \in Threads, NEW to, NEW j \in Actions \union {None}, Moved(t, to, j),
         UNCHANGED <<todo, target>>, Piped' \subseteq Piped,
         to \in Holder => Where(t) \in Holder /\ j = job[t],
         to \in Working => j \in Actions,
         t \in Conns /\ to \in {"refuse", "fail"} => Where(t) \in {"refuse", "fail"}
  PROVE  PlaceInv' /\ JobOK' /\ \A a \in Actions : Pending(a)' => Pending(a)
<1>1. JobOK'
  BY DEF JobOK, Moved
<1>2. \A u \in Threads : Where(u)' \in Holder => Where(u) \in Holder /\ job'[u] = job[u]
  BY DEF Moved, JobOK
<1>3. \A c \in Conns : Lost(c)' \subseteq Lost(c)
  BY ThreadFacts DEF Moved, Lost
<1> QED BY <1>1, <1>2, <1>3, PlaceFrame

LEMMA StillFrame ==
  ASSUME PlaceInv, JobOK, \A u \in Threads : Where(u)' = Where(u), UNCHANGED <<job, target>>,
         \A c \in Conns : todo'[c] \subseteq todo[c], Piped' \subseteq Piped
  PROVE  PlaceInv' /\ JobOK' /\ \A a \in Actions : Pending(a)' => Pending(a)
<1>1. JobOK'
  BY DEF JobOK
<1>2. \A c \in Conns : Lost(c)' \subseteq Lost(c)
  BY ThreadFacts DEF Lost
<1> QED BY <1>1, <1>2, PlaceFrame

-----------------------------------------------------------------------------
\* Where the requests are: what a step keeps.
SeqOK ==
  /\ queue \in Seq(Actions) /\ batch \in Seq(Actions) /\ ready \in Seq(Actions)
  /\ Len(queue) <= QueueSize
  /\ Once(queue, batch, ready)

PlaceTypes ==
  /\ target \in [Actions -> Conns \union {None}] /\ todo \in [Conns -> SUBSET Actions]
  /\ status \in [Actions -> Active \union Ended \union {"none"}]

Before == PcOK /\ JobOK /\ HeartOK /\ SeqOK /\ PlaceInv /\ PlaceTypes
After1 ==
  /\ PcOK' /\ JobOK' /\ HeartOK' /\ SeqOK' /\ PlaceInv'
  /\ \A a \in Actions : Pending(a)' => Pending(a) \/ (status[a] = "none" /\ status'[a] = "queued")

LEMMA BeforeFacts == TypeOK /\ WorkInv /\ PlaceInv => Before
<1> SUFFICES ASSUME TypeOK, WorkInv, PlaceInv PROVE Before
  OBVIOUS
<1>1. PcOK
  BY DEF TypeOK, WorkInv, PcOK
<1>2. JobOK
  BY DEF TypeOK, WorkInv, JobOK, Working
<1>3. SeqOK
  BY OnceFacts DEF TypeOK, SeqOK
<1>4. HeartOK /\ PlaceTypes
  BY DEF TypeOK, WorkInv, HeartOK, PlaceTypes
<1> QED BY <1>1, <1>2, <1>3, <1>4 DEF Before

\* The heartbeat's requests and the queues when another thread moves.
LEMMA OthersMove ==
  ASSUME Before, NEW t \in Threads, t # Heart, \A u \in Threads \ {t} : Where(u)' = Where(u),
         UNCHANGED <<queue, batch, ready>>
  PROVE  HeartOK' /\ SeqOK' /\ Piped' \subseteq Piped
BY ThreadFacts DEF Before, HeartOK, SeqOK, Piped

\* Sweeps, and steps of the app and of time, move no request.
LEMMA StillPlaces ==
  ASSUME Before,
         \/ \E t \in Threads : SweepStep(t)
         \/ \E a \in Actions : AppStep(a) \/ Pass(a)
         \/ Read
  PROVE  After1
<1> USE DEF Before, store, world, sweep, rounds
<1>1. ASSUME NEW t \in Threads, SweepStep(t) PROVE After1
  <2>1. PcOK' /\ (\A u \in Threads : Where(u)' = Where(u)) /\ UNCHANGED job
    BY <1>1, SweepStepFacts
  <2>2. UNCHANGED <<queue, batch, ready, todo, target>>
    BY <1>1 DEF SweepStep, TakeDue, NothingDue, Expire
  <2>3. PlaceInv' /\ JobOK' /\ \A a \in Actions : Pending(a)' => Pending(a)
    BY <2>1, <2>2, StillFrame DEF Piped
  <2>4. HeartOK'
    BY <2>1, <2>2, ThreadFacts DEF HeartOK
  <2>5. SeqOK'
    BY <2>2 DEF SeqOK
  <2> QED BY <2>1, <2>3, <2>4, <2>5 DEF After1
<1>2. ASSUME (\E a \in Actions : AppStep(a) \/ Pass(a)) \/ Read PROVE After1
  <2>1. UNCHANGED <<pc, then, queue, batch, ready, todo, target, job>>
    BY <1>2 DEF AppStep, Reject, Execute, Pass, Read
  <2>2. \A u \in Threads : Where(u)' = Where(u)
    BY <2>1 DEF Where
  <2>3. PlaceInv' /\ JobOK' /\ \A a \in Actions : Pending(a)' => Pending(a)
    BY <2>1, <2>2, StillFrame DEF Piped
  <2> QED BY <2>1, <2>2, <2>3, ThreadFacts DEF After1, PcOK, HeartOK, SeqOK
<1> QED BY <1>1, <1>2

\* A thread that neither gives nor takes a request moves on, or to a sweep.
LEMMA Aside ==
  ASSUME Before, NEW t \in Threads \ {Heart, Live}, NEW to \in PcOf(t) \ Sweeping, NEW j \in Actions \union {None},
         (Go(t, to) /\ UNCHANGED then) \/ Sweep(t, to),
         job' = [job EXCEPT ![t] = j], UNCHANGED <<todo, target, queue, batch, ready>>,
         to \in Holder => Where(t) \in Holder /\ j = job[t],
         to \in Working => j \in Actions,
         t \in Conns /\ to \in {"refuse", "fail"} => Where(t) \in {"refuse", "fail"}
  PROVE  After1
<1> USE DEF Before
<1>1. PcOK' /\ Moved(t, to, j)
  BY GoFacts, SweepFacts DEF Moved
<1>2. HeartOK' /\ SeqOK' /\ Piped' \subseteq Piped
  BY <1>1, OthersMove DEF Moved
<1>3. PlaceInv' /\ JobOK' /\ \A a \in Actions : Pending(a)' => Pending(a)
  BY <1>1, <1>2, MoveFrame
<1> QED BY <1>1, <1>2, <1>3 DEF After1

\* A control connection submits, starts, queues and cancels.
LEMMA SubmitPlaces ==
  ASSUME Before, FateInv, NEW k \in Controls, NEW a \in Actions, Submit(k, a)
  PROVE  After1
<1> USE DEF Before, store, world, sweep, rounds
<1>1. k \in Threads \ {Heart, Live} /\ k \notin Conns /\ {"start", "refused"} \subseteq PcOf(k) \ Sweeping
  BY ThreadFacts DEF Sweeping
<1>2. status[a] = "none" /\ pc[k] = "idle" /\ Where(k) = "idle" /\ UNCHANGED <<queue, batch, ready, todo>>
  BY DEF Submit, Where, Sweeping
<1>3. CASE UNCHANGED <<pc, then, job, target>>
  <2>1. \A u \in Threads : Where(u)' = Where(u)
    BY <1>3 DEF Where
  <2>2. PlaceInv' /\ JobOK' /\ \A b \in Actions : Pending(b)' => Pending(b)
    BY <1>2, <1>3, <2>1, StillFrame DEF Piped
  <2> QED BY <1>2, <1>3, <2>1, <2>2, ThreadFacts DEF After1, PcOK, HeartOK, SeqOK
<1>4. CASE Takes(k, a) /\ (Sweep(k, "start") \/ Sweep(k, "refused"))
  <2>1. PICK to \in {"start", "refused"} : Sweep(k, to)
    BY <1>4
  <2>2. PcOK' /\ Moved(k, to, a)
    BY <1>1, <1>4, <2>1, SweepFacts DEF Moved, Takes
  <2>3. HeartOK' /\ SeqOK' /\ Piped' = Piped
    BY <1>1, <1>2, <2>2, OthersMove DEF Moved, Piped
  <2>4. JobOK'
    BY <2>2 DEF Moved, JobOK
  <2>5. ~Pending(a)
    BY <1>2 DEF FateInv
  <2>6. \A c \in Conns : Lost(c)' = Lost(c)
    BY <1>1, <1>2, <2>2 DEF Lost, Moved, Threads
  <2>7. \A u \in Threads : Where(u)' \in Holder => (u = k /\ job'[u] = a)
                             \/ (u # k /\ Where(u) \in Holder /\ job'[u] = job[u] /\ job[u] # a)
    <3>1. \A u \in Threads : job[u] = a => ~(Where(u) \in Holder)
      BY <2>5 DEF Pending, Holds
    <3>2. job'[k] = a /\ \A u \in Threads \ {k} : job'[u] = job[u] /\ Where(u)' = Where(u)
      BY <1>1, <2>2 DEF Moved, JobOK
    <3> QED BY <3>1, <3>2
  <2>8. a \notin Piped /\ \A c \in Conns : a \notin Lost(c)
    BY <2>5 DEF Pending
  <2>9. \A c \in Conns : \A b \in Lost(c) : target'[b] = c
    <3>1. target' = target \/ target' = [target EXCEPT ![a] = owner]
      BY DEF Submit
    <3>2. \A c \in Conns : Lost(c) \subseteq Actions
      BY DEF Lost, PlaceTypes
    <3> QED BY <2>8, <3>1, <3>2 DEF PlaceInv, PlaceTypes
  <2>10. PlaceInv'
    <3>1. \A u, v \in Threads : Where(u)' \in Holder /\ Where(v)' \in Holder /\ job'[u] = job'[v] => u = v
      BY <2>7 DEF PlaceInv
    <3>2. \A u \in Threads : Where(u)' \in Holder => job'[u] \notin Piped'
      BY <2>3, <2>7, <2>8 DEF PlaceInv
    <3>3. \A u \in Threads, c \in Conns : Where(u)' \in Holder => job'[u] \notin Lost(c)'
      BY <2>6, <2>7, <2>8 DEF PlaceInv
    <3>4. \A c \in Conns : \A b \in Lost(c)' : target'[b] = c /\ b \notin Piped'
      BY <2>3, <2>6, <2>9 DEF PlaceInv
    <3> QED BY <3>1, <3>2, <3>3, <3>4 DEF PlaceInv
  <2>11. \A b \in Actions : Pending(b)' => Pending(b) \/ b = a
    BY <2>3, <2>6, <2>7 DEF Pending, Holds
  <2>12. status'[a] = "queued"
    <3>1. pc' # pc
      <4>1. Where(k)' # Where(k)
        BY <1>2, <2>1, <2>2 DEF Moved
      <4>2. pc'[k] = "sweep"
        BY <1>1, <2>1, SweepFacts
      <4> QED BY <1>2, <4>2
    <3> QED BY <3>1 DEF Submit, Expired
  <2> QED BY <1>2, <2>2, <2>3, <2>4, <2>10, <2>11, <2>12 DEF After1
<1> QED BY <1>3, <1>4 DEF Submit

\* A request leaves its thread for the queue: there is room for it.
LEMMA PushPlaces ==
  ASSUME Before, NEW k \in Controls, Push(k)
  PROVE  After1
<1> USE DEF Before, store, world, sweep, rounds
<1>1. k \in Threads \ {Heart, Live} /\ k \notin Conns /\ {"idle", "refused"} \subseteq PcOf(k) \ Sweeping
  BY ThreadFacts DEF Sweeping
<1>2. pc[k] = "push" /\ Where(k) = "push" /\ job[k] \in Actions /\ UNCHANGED <<batch, ready, todo, target>>
  BY <1>1 DEF Push, Where, Sweeping, JobOK, Working, Holder
<1> DEFINE a == job[k]
<1>3. CASE Len(queue) >= QueueSize
  <2>1. Sweep(k, "refused") /\ UNCHANGED <<queue, job>>
    BY <1>3 DEF Push
  <2>2. job' = [job EXCEPT ![k] = a]
    BY <2>1 DEF JobOK
  <2> QED BY <1>1, <1>2, <2>1, <2>2, Aside DEF Holder, Working
<1>4. CASE ~(Len(queue) >= QueueSize)
  <2>1. queue' = Append(queue, a) /\ Go(k, "idle") /\ Takes(k, None) /\ UNCHANGED then
    BY <1>4 DEF Push
  <2>2. PcOK' /\ Moved(k, "idle", None)
    BY <1>1, <2>1, GoFacts DEF Moved, Takes
  <2>3. a \notin Piped /\ \A c \in Conns : a \notin Lost(c)
    BY <1>1, <1>2 DEF PlaceInv, Holder
  <2>4. Piped' = Piped \union {a}
    BY <1>2, <2>1, AppendFacts DEF Piped, SeqOK
  <2>5. SeqOK'
    <3>1. queue' \in Seq(Actions) /\ Len(queue') <= QueueSize
      BY <1>2, <1>4, <2>1, AppendFacts, ConstantsAssumption DEF SeqOK
    <3>2. Once(queue', batch, ready)
      BY <1>2, <2>1, <2>3, AppendFacts DEF SeqOK, Once, Piped
    <3> QED BY <1>2, <3>1, <3>2 DEF SeqOK
  <2>6. HeartOK'
    BY <1>1, <1>2, <2>2, ThreadFacts DEF HeartOK, Moved
  <2>7. JobOK'
    BY <2>2 DEF JobOK, Moved, Working, Holder
  <2>8. \A c \in Conns : Lost(c)' = Lost(c)
    BY <1>1, <1>2, <2>2 DEF Lost, Moved, Threads
  <2>9. \A u \in Threads : Where(u)' \in Holder =>
          u # k /\ Where(u) \in Holder /\ job'[u] = job[u] /\ job[u] # a
    BY <1>1, <1>2, <2>2 DEF Moved, JobOK, PlaceInv, Holder
  <2>10. PlaceInv'
    <3>1. \A u, v \in Threads : Where(u)' \in Holder /\ Where(v)' \in Holder /\ job'[u] = job'[v] => u = v
      BY <2>9 DEF PlaceInv
    <3>2. \A u \in Threads : Where(u)' \in Holder => job'[u] \notin Piped'
      BY <2>4, <2>9 DEF PlaceInv
    <3>3. \A u \in Threads, c \in Conns : Where(u)' \in Holder => job'[u] \notin Lost(c)'
      BY <2>8, <2>9 DEF PlaceInv
    <3>4. \A c \in Conns : \A b \in Lost(c)' : target'[b] = c /\ b \notin Piped'
      BY <1>2, <2>3, <2>4, <2>8 DEF PlaceInv
    <3> QED BY <3>1, <3>2, <3>3, <3>4 DEF PlaceInv
  <2>11. \A b \in Actions : Pending(b)' => Pending(b)
    <3>1. Pending(a)
      BY <1>1, <1>2 DEF Pending, Holds, Holder
    <3> QED BY <2>4, <2>8, <2>9, <3>1 DEF Pending, Holds
  <2> QED BY <2>2, <2>5, <2>6, <2>7, <2>10, <2>11 DEF After1
<1> QED BY <1>3, <1>4

LEMMA ControlPlaces ==
  ASSUME Before, NEW k \in Controls,
         \/ Start(k) \/ Refuse(k) \/ Fail(k) \/ TakeBack(k) \/ Disown(k) \/ Unqueue(k) \/ Stop(k)
         \/ \E a \in Actions : Cancel(k, a)
  PROVE  After1
<1> USE DEF Before, store, world, sweep, rounds
<1>1. k \in Threads \ {Heart, Live} /\ k \notin Conns
      /\ {"idle", "push", "fail", "disown", "unqueue", "stop", "cancel"} \subseteq PcOf(k) \ Sweeping
  BY ThreadFacts DEF Sweeping
<1>2. job[k] \in Actions \union {None} /\ job = [job EXCEPT ![k] = job[k]]
      /\ UNCHANGED <<todo, target, batch, ready>>
  BY <1>1 DEF JobOK, Start, Refuse, Fail, TakeBack, Disown, Unqueue, Stop, Cancel
<1>3. CASE Start(k)
  <2>1. Where(k) = "start" /\ job[k] \in Actions
    BY <1>1, <1>3 DEF Start, Where, Sweeping, JobOK, Working, Holder
  <2>2. UNCHANGED <<then, queue>>
    BY <1>3 DEF Start
  <2>3. CASE status'[job[k]] = "running"
    <3>1. Go(k, "push") /\ UNCHANGED job
      BY <1>3, <2>3 DEF Start
    <3> QED BY <1>1, <1>2, <2>1, <2>2, <3>1, Aside DEF Holder
  <2>4. CASE status'[job[k]] # "running"
    <3>1. Go(k, "idle") /\ job' = [job EXCEPT ![k] = None]
      BY <1>3, <2>4 DEF Start, Takes
    <3> QED BY <1>1, <1>2, <2>2, <3>1, Aside DEF Holder, Working
  <2> QED BY <2>3, <2>4
<1>4. CASE Refuse(k)
  <2>1. Where(k) = "refused" /\ job[k] \in Actions
    BY <1>1, <1>4 DEF Refuse, Where, Sweeping, JobOK, Working, Holder
  <2>2. UNCHANGED <<queue, job>> /\ Sweep(k, "fail")
    BY <1>4 DEF Refuse
  <2> QED BY <1>1, <1>2, <2>1, <2>2, Aside DEF Holder
<1>5. CASE Fail(k) \/ Disown(k) \/ Stop(k)
  <2>1. UNCHANGED <<then, queue>> /\ Go(k, "idle") /\ job' = [job EXCEPT ![k] = None]
    BY <1>1, <1>5 DEF Fail, Disown, Stop, After, Takes
  <2> QED BY <1>1, <1>2, <2>1, Aside DEF Holder, Working
<1>6. CASE TakeBack(k)
  <2>1. job[k] \in Actions
    BY <1>1, <1>6 DEF TakeBack, Where, Sweeping, JobOK, Working, Holder
  <2>2. UNCHANGED <<then, queue, job>> /\ (Go(k, "disown") \/ Go(k, "unqueue"))
    BY <1>6 DEF TakeBack
  <2> QED BY <1>1, <1>2, <2>1, <2>2, Aside DEF Holder
<1>7. CASE Unqueue(k)
  <2>1. Where(k) = "unqueue" /\ job[k] \in Actions
    BY <1>1, <1>7 DEF Unqueue, Where, Sweeping, JobOK, Working, Holder
  <2>2. Sweep(k, "stop") /\ UNCHANGED job /\ queue' = Without(queue, {job[k]})
    BY <1>7 DEF Unqueue
  <2>3. PcOK' /\ Moved(k, "stop", job[k])
    BY <1>1, <1>2, <2>2, SweepFacts DEF Moved
  <2>4. queue' \in Seq(Actions) /\ Len(queue') <= Len(queue) /\ ToSet(queue') \subseteq ToSet(queue)
        /\ (IsInjective(queue) => IsInjective(queue'))
    BY <2>2, WithoutFacts, WithoutSet DEF SeqOK
  <2>5. SeqOK'
    <3>1. Len(queue') <= QueueSize
      BY <2>4, ConstantsAssumption DEF SeqOK
    <3> QED BY <1>2, <2>4, <3>1 DEF SeqOK, Once
  <2>6. Piped' \subseteq Piped
    BY <1>2, <2>4 DEF Piped
  <2>7. PlaceInv' /\ JobOK' /\ \A a \in Actions : Pending(a)' => Pending(a)
    BY <1>1, <1>2, <2>1, <2>3, <2>6, MoveFrame DEF Holder
  <2>8. HeartOK'
    BY <1>1, <1>2, <2>3, ThreadFacts DEF HeartOK, Moved
  <2> QED BY <2>3, <2>5, <2>7, <2>8 DEF After1
<1>8. CASE \E a \in Actions : Cancel(k, a)
  <2>1. PICK a \in Actions : Cancel(k, a)
    BY <1>8
  <2>2. UNCHANGED queue /\ Sweep(k, "cancel") /\ job' = [job EXCEPT ![k] = a]
    BY <2>1 DEF Cancel, Takes
  <2> QED BY <1>1, <1>2, <2>2, Aside DEF Holder
<1> QED BY <1>3, <1>4, <1>5, <1>6, <1>7, <1>8

\* The reader of a connection settles results, and refuses what it withdraws
\* from the queue when the connection is lost.
LEMMA WithdrawPlaces ==
  ASSUME Before, NEW c \in Conns, Withdraw(c)
  PROVE  After1
<1> USE DEF Before, store, world, sweep, rounds
<1>1. c \in Threads \ {Heart, Live} /\ "refuse" \in PcOf(c) \ Sweeping
  BY ThreadFacts DEF Sweeping
<1>2. Where(c) = "severed" /\ UNCHANGED <<then, target, job, batch, ready>> /\ Go(c, "refuse")
      /\ todo' = [todo EXCEPT ![c] = {a \in ToSet(queue) : For(c, a)}]
      /\ queue' = Without(queue, {a \in Actions : For(c, a)})
  BY DEF Withdraw, Where, Sweeping
<1>3. PcOK' /\ Moved(c, "refuse", job[c])
  BY <1>1, <1>2, GoFacts DEF Moved, JobOK
<1>4. /\ queue' \in Seq(Actions) /\ Len(queue') <= Len(queue) /\ ToSet(queue') \subseteq ToSet(queue)
      /\ (IsInjective(queue) => IsInjective(queue'))
      /\ \A a \in ToSet(queue') : ~For(c, a)
  <2>1. queue' \in Seq(Actions) /\ Len(queue') <= Len(queue) /\ (IsInjective(queue) => IsInjective(queue'))
    BY <1>2, WithoutFacts DEF SeqOK
  <2>2. ToSet(queue') \subseteq ToSet(queue) \ {a \in Actions : For(c, a)}
    BY <1>2, WithoutSet DEF SeqOK
  <2>3. ToSet(queue) \subseteq Actions
    BY ByPosition DEF SeqOK
  <2> QED BY <2>1, <2>2, <2>3
<1>5. SeqOK'
  <2>1. Len(queue') <= QueueSize
    BY <1>4, ConstantsAssumption DEF SeqOK
  <2> QED BY <1>2, <1>4, <2>1 DEF SeqOK, Once
<1>6. Piped' \subseteq Piped
  BY <1>2, <1>4 DEF Piped
<1>7. HeartOK'
  BY <1>1, <1>2, <1>3, ThreadFacts DEF HeartOK, Moved
<1>8. JobOK'
  BY <1>2, <1>3 DEF JobOK, Moved, Working, Holder
<1>9. \A u \in Threads : Where(u)' \in Holder => u # c /\ Where(u) \in Holder /\ job'[u] = job[u]
  BY <1>2, <1>3 DEF Moved, Holder
<1>10. Lost(c)' = {a \in ToSet(queue) : For(c, a)} /\ \A d \in Conns \ {c} : Lost(d)' = Lost(d)
  BY <1>2, <1>3, ThreadFacts DEF Lost, Moved, PlaceTypes
<1>11. \A a \in ToSet(queue) : a \in Piped /\ (For(c, a) => a \notin Piped')
  BY <1>2, <1>4 DEF Piped, SeqOK, Once
<1>12. PlaceInv'
  <2>1. \A u, v \in Threads : Where(u)' \in Holder /\ Where(v)' \in Holder /\ job'[u] = job'[v] => u = v
    BY <1>9 DEF PlaceInv
  <2>2. \A u \in Threads : Where(u)' \in Holder => job'[u] \notin Piped'
    BY <1>6, <1>9 DEF PlaceInv
  <2>3. \A u \in Threads, d \in Conns : Where(u)' \in Holder => job'[u] \notin Lost(d)'
    BY <1>9, <1>10, <1>11 DEF PlaceInv
  <2>4. \A d \in Conns : \A b \in Lost(d)' : target'[b] = d /\ b \notin Piped'
    BY <1>2, <1>6, <1>10, <1>11 DEF PlaceInv, For
  <2> QED BY <2>1, <2>2, <2>3, <2>4 DEF PlaceInv
<1>13. \A b \in Actions : Pending(b)' => Pending(b)
  BY <1>6, <1>9, <1>10, <1>11 DEF Pending, Holds
<1> QED BY <1>3, <1>5, <1>7, <1>8, <1>12, <1>13 DEF After1

LEMMA RefuseLostPlaces ==
  ASSUME Before, NEW c \in Conns, NEW a \in Actions, RefuseLost(c, a)
  PROVE  After1
<1> USE DEF Before, store, world, sweep, rounds
<1>1. c \in Threads \ {Heart, Live} /\ "fail" \in PcOf(c) \ Sweeping
  BY ThreadFacts DEF Sweeping
<1>2. Where(c) = "refuse" /\ a \in todo[c] /\ UNCHANGED <<target, queue, batch, ready>> /\ Sweep(c, "fail")
      /\ todo' = [todo EXCEPT ![c] = @ \ {a}] /\ job' = [job EXCEPT ![c] = a]
  BY DEF RefuseLost, Where, Sweeping, Takes
<1>3. PcOK' /\ Moved(c, "fail", a)
  BY <1>1, <1>2, SweepFacts DEF Moved
<1>4. HeartOK' /\ SeqOK' /\ Piped' = Piped
  BY <1>1, <1>2, <1>3, OthersMove DEF Moved, Piped
<1>5. JobOK'
  BY <1>3 DEF JobOK, Moved
<1>6. a \in Lost(c) /\ Lost(c)' = Lost(c) \ {a} /\ \A d \in Conns \ {c} : Lost(d)' = Lost(d)
  BY <1>2, <1>3, ThreadFacts DEF Lost, Moved, PlaceTypes
<1>7. a \notin Piped /\ (\A d \in Conns : a \in Lost(d) => d = c)
      /\ (\A u \in Threads : Where(u) \in Holder => job[u] # a)
  BY <1>6 DEF PlaceInv
<1>8. \A u \in Threads : Where(u)' \in Holder => (u = c /\ job'[u] = a)
                           \/ (u # c /\ Where(u) \in Holder /\ job'[u] = job[u] /\ job[u] # a)
  BY <1>1, <1>2, <1>3, <1>7 DEF Moved, JobOK
<1>9. PlaceInv'
  <2>1. \A u, v \in Threads : Where(u)' \in Holder /\ Where(v)' \in Holder /\ job'[u] = job'[v] => u = v
    BY <1>8 DEF PlaceInv
  <2>2. \A u \in Threads : Where(u)' \in Holder => job'[u] \notin Piped'
    BY <1>4, <1>7, <1>8 DEF PlaceInv
  <2>3. \A u \in Threads, d \in Conns : Where(u)' \in Holder => job'[u] \notin Lost(d)'
    BY <1>6, <1>7, <1>8 DEF PlaceInv
  <2>4. \A d \in Conns : \A b \in Lost(d)' : target'[b] = d /\ b \notin Piped'
    BY <1>2, <1>4, <1>6 DEF PlaceInv
  <2> QED BY <2>1, <2>2, <2>3, <2>4 DEF PlaceInv
<1>10. \A b \in Actions : Pending(b)' => Pending(b)
  BY <1>4, <1>6, <1>8 DEF Pending, Holds
<1> QED BY <1>3, <1>4, <1>5, <1>9, <1>10 DEF After1

LEMMA ReaderPlaces ==
  ASSUME Before, NEW c \in Conns,
         \/ Connect(c) \/ Take(c) \/ Settle(c) \/ Lose(c) \/ Sever(c) \/ Closed(c) \/ Fail(c)
         \/ \E a \in Actions : Lookup(c, a) \/ SettleLost(c, a)
  PROVE  After1
<1> USE DEF Before, store, world, sweep, rounds
<1>1. c \in Threads \ {Heart, Live}
      /\ {"read", "take", "accept", "sever", "severed", "done", "refuse"} \subseteq PcOf(c) \ Sweeping
  BY ThreadFacts DEF Sweeping
<1>2. job[c] \in Actions \union {None} /\ job = [job EXCEPT ![c] = job[c]]
      /\ UNCHANGED <<target, queue, batch, ready>>
  BY <1>1 DEF JobOK, Connect, Take, Settle, Lose, Sever, Closed, Fail, Lookup, SettleLost
<1>3. CASE Connect(c) \/ Lose(c) \/ Closed(c)
  <2>1. UNCHANGED <<then, job, todo>> /\ \E to \in {"read", "sever", "done"} : Go(c, to)
    BY <1>3 DEF Connect, Lose, Closed
  <2> QED BY <1>1, <1>2, <2>1, Aside DEF Holder, Working
<1>4. CASE Take(c)
  <2>1. UNCHANGED <<then, job, todo>> /\ Go(c, "accept") /\ job[c] \in Actions
    BY <1>1, <1>4 DEF Take, JobOK, Where, Sweeping, Working
  <2> QED BY <1>1, <1>2, <2>1, Aside DEF Holder
<1>5. CASE Settle(c)
  <2>1. UNCHANGED <<then, todo>> /\ Go(c, "read") /\ job' = [job EXCEPT ![c] = None]
    BY <1>5 DEF Settle, Takes
  <2> QED BY <1>1, <1>2, <2>1, Aside DEF Holder, Working
<1>6. CASE Fail(c)
  <2>1. UNCHANGED <<then, todo>> /\ Go(c, "refuse") /\ job' = [job EXCEPT ![c] = None] /\ Where(c) = "fail"
    BY <1>6 DEF Fail, Takes, After, Where, Sweeping
  <2> QED BY <1>1, <1>2, <2>1, Aside DEF Holder, Working
<1>7. CASE \E a \in Actions : Lookup(c, a)
  <2>1. PICK a \in Actions : Lookup(c, a)
    BY <1>7
  <2>2. UNCHANGED <<then, todo>> /\ Go(c, "take") /\ job' = [job EXCEPT ![c] = a]
    BY <2>1 DEF Lookup, Takes
  <2> QED BY <1>1, <1>2, <2>2, Aside DEF Holder
<1>8. CASE Sever(c)
  <2>1. UNCHANGED <<then, job>> /\ Go(c, "severed") /\ \A d \in Conns \ {c} : todo'[d] = todo[d]
    BY <1>8 DEF Sever, PlaceTypes
  <2>2. PcOK' /\ Moved(c, "severed", job[c])
    BY <1>1, <1>2, <2>1, GoFacts DEF Moved
  <2>3. HeartOK' /\ SeqOK' /\ Piped' \subseteq Piped
    BY <1>1, <1>2, <2>2, OthersMove DEF Moved
  <2>4. JobOK'
    BY <2>1, <2>2 DEF JobOK, Moved, Working, Holder
  <2>5. \A d \in Conns : Lost(d)' \subseteq Lost(d)
    BY <1>1, <2>1, <2>2, ThreadFacts DEF Lost, Moved
  <2>6. \A u \in Threads : Where(u)' \in Holder => Where(u) \in Holder /\ job'[u] = job[u]
    BY <2>1, <2>2 DEF Moved, Holder
  <2>7. PlaceInv' /\ \A a \in Actions : Pending(a)' => Pending(a)
    BY <1>2, <2>3, <2>5, <2>6, PlaceFrame
  <2> QED BY <2>2, <2>3, <2>4, <2>7 DEF After1
<1>9. CASE \E a \in Actions : SettleLost(c, a)
  <2>1. UNCHANGED <<pc, then, job>> /\ \A d \in Conns : todo'[d] \subseteq todo[d]
    BY <1>9 DEF SettleLost, PlaceTypes
  <2>2. \A u \in Threads : Where(u)' = Where(u)
    BY <2>1 DEF Where
  <2>3. PlaceInv' /\ JobOK' /\ \A a \in Actions : Pending(a)' => Pending(a)
    BY <1>2, <2>1, <2>2, StillFrame DEF Piped
  <2> QED BY <1>2, <2>1, <2>2, <2>3, ThreadFacts DEF After1, PcOK, HeartOK, SeqOK
<1> QED BY <1>3, <1>4, <1>5, <1>6, <1>7, <1>8, <1>9

\* The heartbeat drains the queue, judges its requests and sends them.
LEMMA DrainPlaces ==
  ASSUME Before, Drain
  PROVE  After1
<1> USE DEF Before, store, world, sweep, rounds
<1>1. queue' = <<>> /\ batch' = queue /\ batch = <<>> /\ ready = <<>>
      /\ UNCHANGED <<pc, then, target, job, todo, ready>>
  BY DEF Drain
<1>2. \A u \in Threads : Where(u)' = Where(u)
  BY <1>1 DEF Where
<1>3. Piped' = Piped
  BY <1>1, EmptyFacts DEF Piped
<1>4. PlaceInv' /\ JobOK' /\ \A a \in Actions : Pending(a)' => Pending(a)
  BY <1>1, <1>2, <1>3, StillFrame
<1>5. SeqOK'
  <2>1. Len(<<>>) <= QueueSize
    BY EmptyFacts, ConstantsAssumption
  <2> QED BY <1>1, <2>1, EmptyFacts DEF SeqOK, Once
<1> QED BY <1>1, <1>2, <1>4, <1>5, ThreadFacts DEF After1, PcOK, HeartOK

\* The heartbeat moves on with what it has.
LEMMA HeartMoves ==
  ASSUME Before, NEW to \in {"idle", "mark", "send", "unmark"}, Go(Heart, to), UNCHANGED <<then, job, todo, target, queue, batch>>,
         ready' = ready \/ (ready # <<>> /\ ready' = Tail(ready)),
         to # "idle" => ready' = ready /\ ready # <<>>
  PROVE  After1
<1> USE DEF Before
<1>1. "idle" \in PcOf(Heart) /\ to \in PcOf(Heart) \ Sweeping /\ Heart \in Threads /\ Heart \notin Conns
  BY ThreadFacts DEF Sweeping
<1>2. PcOK' /\ Moved(Heart, to, job[Heart])
  BY <1>1, GoFacts DEF Moved, JobOK
<1>3. SeqOK' /\ Piped' \subseteq Piped
  <2>1. ready' \in Seq(Actions) /\ ToSet(ready') \subseteq ToSet(ready) /\ (IsInjective(ready) => IsInjective(ready'))
    BY TailFacts DEF SeqOK
  <2> QED BY <2>1, SMTT(30) DEF SeqOK, Once, Piped
<1>4. job[Heart] \in Actions \union {None}
  BY <1>1 DEF JobOK
<1>5. PlaceInv' /\ JobOK' /\ \A a \in Actions : Pending(a)' => Pending(a)
  BY <1>1, <1>2, <1>3, <1>4, MoveFrame DEF Holder, Working
<1>6. HeartOK'
  BY <1>2 DEF HeartOK, Moved
<1> QED BY <1>2, <1>3, <1>5, <1>6 DEF After1

\* It takes a request out of its lists, to report it as failed.
LEMMA HeartTakes ==
  ASSUME Before, NEW a \in Actions, Sweep(Heart, "fail"), Takes(Heart, a), UNCHANGED <<todo, target, queue>>,
         \/ batch # <<>> /\ a = Head(batch) /\ batch' = Tail(batch) /\ UNCHANGED ready
         \/ ready # <<>> /\ a = Head(ready) /\ ready' = Tail(ready) /\ UNCHANGED batch
  PROVE  After1
<1> USE DEF Before
<1>1. Heart \in Threads \ {Live} /\ Heart \notin Conns /\ "fail" \in PcOf(Heart) \ Sweeping
  BY ThreadFacts DEF Sweeping
<1>2. PcOK' /\ Moved(Heart, "fail", a)
  BY <1>1, SweepFacts DEF Moved, Takes
<1>3. SeqOK' /\ Piped' \subseteq Piped /\ a \in Piped /\ a \notin Piped'
  <2>1. CASE batch # <<>> /\ a = Head(batch) /\ batch' = Tail(batch) /\ UNCHANGED ready
    <3>1. batch' \in Seq(Actions) /\ ToSet(batch') \subseteq ToSet(batch) /\ a \in ToSet(batch)
          /\ IsInjective(batch') /\ a \notin ToSet(batch')
      BY <2>1, TailFacts DEF SeqOK, Once
    <3> QED BY <2>1, <3>1 DEF SeqOK, Once, Piped
  <2>2. CASE ready # <<>> /\ a = Head(ready) /\ ready' = Tail(ready) /\ UNCHANGED batch
    <3>1. ready' \in Seq(Actions) /\ ToSet(ready') \subseteq ToSet(ready) /\ a \in ToSet(ready)
          /\ IsInjective(ready') /\ a \notin ToSet(ready')
      BY <2>2, TailFacts DEF SeqOK, Once
    <3> QED BY <2>2, <3>1 DEF SeqOK, Once, Piped
  <2> QED BY <2>1, <2>2
<1>4. HeartOK'
  BY <1>2 DEF HeartOK, Moved
<1>5. JobOK'
  BY <1>2 DEF JobOK, Moved
<1>6. \A c \in Conns : Lost(c)' = Lost(c)
  BY <1>1, <1>2, ThreadFacts DEF Lost, Moved
<1>7. (\A c \in Conns : a \notin Lost(c)) /\ (\A u \in Threads : Where(u) \in Holder => job[u] # a)
  BY <1>3 DEF PlaceInv
<1>8. \A u \in Threads : Where(u)' \in Holder => (u = Heart /\ job'[u] = a)
                           \/ (u # Heart /\ Where(u) \in Holder /\ job'[u] = job[u] /\ job[u] # a)
  BY <1>1, <1>2, <1>7 DEF Moved, JobOK
<1>9. PlaceInv'
  <2>1. \A u, v \in Threads : Where(u)' \in Holder /\ Where(v)' \in Holder /\ job'[u] = job'[v] => u = v
    BY <1>8 DEF PlaceInv
  <2>2. \A u \in Threads : Where(u)' \in Holder => job'[u] \notin Piped'
    BY <1>3, <1>8 DEF PlaceInv
  <2>3. \A u \in Threads, d \in Conns : Where(u)' \in Holder => job'[u] \notin Lost(d)'
    BY <1>6, <1>7, <1>8 DEF PlaceInv
  <2>4. \A d \in Conns : \A b \in Lost(d)' : target'[b] = d /\ b \notin Piped'
    BY <1>3, <1>6 DEF PlaceInv
  <2> QED BY <2>1, <2>2, <2>3, <2>4 DEF PlaceInv
<1>10. \A b \in Actions : Pending(b)' => Pending(b)
  BY <1>3, <1>6, <1>8 DEF Pending, Holds
<1> QED BY <1>2, <1>3, <1>4, <1>5, <1>9, <1>10 DEF After1

LEMMA HeartPlaces ==
  ASSUME Before, Judge \/ MarkCheck \/ Mark \/ Send \/ Unmark \/ Fail(Heart)
  PROVE  After1
<1> USE DEF Before, store, world, sweep, rounds
<1>1. Heart \in Threads \ {Live} /\ Heart \notin Conns /\ "idle" \in PcOf(Heart) \ Sweeping
  BY ThreadFacts DEF Sweeping
<1>2. CASE Judge
  <2> DEFINE a == Head(batch)
  <2>1. batch # <<>> /\ batch' = Tail(batch) /\ UNCHANGED <<queue, target, todo>> /\ a \in Actions
    BY <1>2, TailFacts DEF Judge, SeqOK
  <2>2. CASE Sweep(Heart, "fail") /\ Takes(Heart, a) /\ UNCHANGED ready
    BY <2>1, <2>2, HeartTakes
  <2>3. CASE UNCHANGED <<pc, then, job>> /\ (ready' = ready \/ ready' = Append(ready, a))
    <3>1. /\ batch' \in Seq(Actions) /\ a \in ToSet(batch) /\ ToSet(batch') = ToSet(batch) \ {a}
          /\ IsInjective(batch')
      BY <2>1, TailFacts DEF SeqOK, Once
    <3>2. a \notin ToSet(queue) /\ a \notin ToSet(ready)
      BY <3>1 DEF SeqOK, Once
    <3>3. ready' \in Seq(Actions) /\ ToSet(ready') \subseteq ToSet(ready) \union {a} /\ IsInjective(ready')
      <4>1. ready \in Seq(Actions) /\ IsInjective(ready)
        BY DEF SeqOK, Once
      <4> HIDE DEF a
      <4>2. CASE UNCHANGED ready
        BY <4>1, <4>2
      <4>3. CASE ready' = Append(ready, a)
        BY <2>1, <3>2, <4>1, <4>3, AppendFacts
      <4> QED BY <2>3, <4>2, <4>3
    <3>4. SeqOK' /\ Piped' \subseteq Piped
      BY <2>1, <3>1, <3>2, <3>3 DEF SeqOK, Once, Piped
    <3>5. \A u \in Threads : Where(u)' = Where(u)
      BY <2>3 DEF Where
    <3>6. PlaceInv' /\ JobOK' /\ \A b \in Actions : Pending(b)' => Pending(b)
      BY <2>1, <2>3, <3>4, <3>5, StillFrame
    <3>7. HeartOK'
      BY <1>2, <1>1, <3>5 DEF Judge, HeartOK, Where, Sweeping
    <3> QED BY <2>3, <3>4, <3>6, <3>7 DEF After1, PcOK
  <2> QED BY <1>2, <2>2, <2>3 DEF Judge
<1>3. CASE MarkCheck
  <2>1. ready # <<>> /\ UNCHANGED <<queue, batch, target, then, todo, job>>
    BY <1>3 DEF MarkCheck
  <2>2. CASE Go(Heart, "mark") /\ UNCHANGED ready
    BY <2>1, <2>2, HeartMoves
  <2>3. CASE ready' = Tail(ready) /\ UNCHANGED pc
    <3>1. Where(Heart) = "idle" /\ \A u \in Threads : Where(u)' = Where(u)
      BY <1>3, <2>1, <2>3 DEF MarkCheck, Where, Sweeping
    <3>2. ready' \in Seq(Actions) /\ ToSet(ready') \subseteq ToSet(ready) /\ IsInjective(ready')
      BY <2>1, <2>3, TailFacts DEF SeqOK, Once
    <3>3. SeqOK' /\ Piped' \subseteq Piped
      BY <2>1, <3>2 DEF SeqOK, Once, Piped
    <3>4. PlaceInv' /\ JobOK' /\ \A b \in Actions : Pending(b)' => Pending(b)
      BY <2>1, <3>1, <3>3, StillFrame
    <3>5. HeartOK'
      BY <1>1, <3>1 DEF HeartOK
    <3> QED BY <2>1, <2>3, <3>3, <3>4, <3>5 DEF After1, PcOK
  <2> QED BY <1>3, <2>2, <2>3 DEF MarkCheck
<1>4. CASE Mark
  <2>1. ready # <<>>
    BY <1>4 DEF Mark, HeartOK, Where, Sweeping
  <2>2. UNCHANGED <<queue, batch, ready, target, then, todo, job>> /\ Go(Heart, "send")
    BY <1>4 DEF Mark
  <2> QED BY <2>1, <2>2, HeartMoves
<1>5. CASE Send
  <2>1. ready # <<>>
    BY <1>5 DEF Send, HeartOK, Where, Sweeping
  <2>2. UNCHANGED <<queue, batch, target, then, todo, job>>
        /\ \/ ready' = Tail(ready) /\ Go(Heart, "idle")
           \/ UNCHANGED ready /\ Go(Heart, "unmark")
    BY <1>5 DEF Send
  <2> QED BY <2>1, <2>2, HeartMoves
<1>6. CASE Unmark
  <2>1. ready # <<>>
    BY <1>6 DEF Unmark, HeartOK, Where, Sweeping
  <2>2. Head(ready) \in Actions
    BY <2>1, TailFacts DEF SeqOK
  <2> QED BY <1>6, <2>1, <2>2, HeartTakes DEF Unmark
<1>7. CASE Fail(Heart)
  <2>1. UNCHANGED <<then, todo, target, queue, batch, ready>> /\ Go(Heart, "idle")
        /\ job' = [job EXCEPT ![Heart] = None]
    BY <1>1, <1>7 DEF Fail, After, Takes
  <2>2. PcOK' /\ Moved(Heart, "idle", None)
    BY <1>1, <2>1, GoFacts DEF Moved
  <2>3. PlaceInv' /\ JobOK' /\ \A b \in Actions : Pending(b)' => Pending(b)
    BY <1>1, <2>1, <2>2, MoveFrame DEF Holder, Working, Piped
  <2>4. HeartOK' /\ SeqOK'
    BY <2>1, <2>2 DEF HeartOK, SeqOK, Moved
  <2> QED BY <2>2, <2>3, <2>4 DEF After1
<1> QED BY <1>2, <1>3, <1>4, <1>5, <1>6, <1>7

\* So every step leaves a request in one place, and brings none to it that was
\* not there, except a new one.
LEMMA PlaceStep == Before /\ FateInv /\ Next => After1
<1> SUFFICES ASSUME Before, FateInv, Next PROVE After1
  OBVIOUS
<1>1. \A k \in Controls : ControlStep(k) \/ (\E a \in Actions : Submit(k, a) \/ Cancel(k, a)) => After1
  BY StillPlaces, SubmitPlaces, PushPlaces, ControlPlaces, ThreadFacts DEF ControlStep
<1>2. \A c \in Conns : Connect(c) \/ Lose(c) \/ ReaderStep(c) => After1
  BY StillPlaces, ReaderPlaces, WithdrawPlaces, RefuseLostPlaces, ThreadFacts DEF ReaderStep
<1>3. HeartStep => After1
  BY StillPlaces, DrainPlaces, HeartPlaces, ThreadFacts DEF HeartStep
<1>4. SweepStep(Live) => After1
  BY StillPlaces, ThreadFacts
<1> QED BY <1>1, <1>2, <1>3, <1>4, StillPlaces DEF Next

-----------------------------------------------------------------------------
\* What a step does to the operations.
Statuses == Active \union Ended \union {"none"}

\* The steps that leave the store alone.
Quiet ==
  \/ \E t \in Threads : TakeDue(t) \/ NothingDue(t)
  \/ \E k \in Controls : Push(k) \/ TakeBack(k) \/ Unqueue(k) \/ \E a \in Actions : Cancel(k, a)
  \/ \E c \in Conns : \/ Take(c) \/ Sever(c) \/ Withdraw(c) \/ Closed(c) \/ Connect(c) \/ Lose(c)
                      \/ \E a \in Actions : Lookup(c, a) \/ RefuseLost(c, a)
  \/ Drain \/ Mark \/ Send \/ Unmark
  \/ \E a \in Actions : AppStep(a) \/ Pass(a)

LEMMA QuietSteps == Quiet => UNCHANGED status
<1> USE DEF store
<1>1. ASSUME NEW t \in Threads, TakeDue(t) \/ NothingDue(t) PROVE UNCHANGED status
  BY <1>1 DEF TakeDue, NothingDue
<1>2. ASSUME NEW k \in Controls, Push(k) \/ TakeBack(k) \/ Unqueue(k) \/ \E a \in Actions : Cancel(k, a)
      PROVE  UNCHANGED status
  BY <1>2 DEF Push, TakeBack, Unqueue, Cancel
<1>3. ASSUME NEW c \in Conns, \/ Take(c) \/ Sever(c) \/ Withdraw(c) \/ Closed(c) \/ Connect(c) \/ Lose(c)
                              \/ \E a \in Actions : Lookup(c, a) \/ RefuseLost(c, a)
      PROVE  UNCHANGED status
  BY <1>3 DEF Take, Sever, Withdraw, Closed, Connect, Lose, Lookup, RefuseLost
<1>4. Drain \/ Mark \/ Send \/ Unmark \/ (\E a \in Actions : AppStep(a) \/ Pass(a)) => UNCHANGED status
  BY DEF Drain, Mark, Send, Unmark, AppStep, Reject, Execute, Pass
<1> QED BY <1>1, <1>2, <1>3, <1>4 DEF Quiet

\* The steps that only look at deadlines, or start, cancel or lose operations.
LEMMA ExpirySteps ==
  ASSUME PlaceTypes, Read \/ Judge \/ MarkCheck
  PROVE  status' \in [Actions -> Statuses] /\ \A a \in Actions : Fair(a)
<1>1. status' = Expired(status, due) /\ UNCHANGED app
  BY DEF Read, Judge, MarkCheck, world
<1> QED BY <1>1, ExpiredFacts DEF Fair, Active, Statuses, PlaceTypes

LEMMA ExpireStep ==
  ASSUME PlaceTypes, NEW t \in Threads, Expire(t)
  PROVE  status' \in [Actions -> Statuses] /\ \A a \in Actions : Fair(a)
<1> DEFINE st == [a \in Actions |-> IF a \in took[t] THEN Unknown(status, a)[a] ELSE status[a]]
<1>1. status' = Expired(st, now[t]) /\ UNCHANGED app
  BY DEF Expire, world
<1>2. st \in [Actions -> Statuses]
      /\ \A a \in Actions : st[a] = status[a] \/ (status[a] = "running" /\ st[a] = "unknown")
  BY UnknownFacts DEF PlaceTypes, Statuses
<1> HIDE DEF st
<1>3. status' \in [Actions -> Statuses]
      /\ \A a \in Actions : status'[a] = st[a] \/ (st[a] \in Active /\ status'[a] = "timed_out")
  BY <1>1, <1>2, ExpiredFacts DEF Statuses
<1> QED BY <1>1, <1>2, <1>3 DEF Fair, Active

LEMMA FailStep ==
  ASSUME PlaceTypes, JobOK, NEW t \in Threads, Fail(t)
  PROVE  status' \in [Actions -> Statuses] /\ \A a \in Actions : Fair(a)
<1>1. job[t] \in Actions
  BY DEF Fail, JobOK, Where, Sweeping, Working, Holder
<1>2. status' = Finished(status, job[t], "failed", due) /\ UNCHANGED app
  BY DEF Fail, world
<1>3. /\ status' \in [Actions -> Statuses]
      /\ \A b \in Actions :
           \/ status'[b] = status[b]
           \/ status[b] \in Active /\ status'[b] = "timed_out"
           \/ b = job[t] /\ status[b] = "running" /\ status'[b] = "failed"
  <2>1. "failed" \in Ended
    BY DEF Ended
  <2>2. status \in [Actions -> Active \union Ended \union {"none"}]
    BY DEF PlaceTypes
  <2> HIDE DEF Active, Ended
  <2> QED BY <1>1, <1>2, <2>1, <2>2, FinishedFacts DEF Statuses
<1> QED BY <1>2, <1>3 DEF Fair, Active

LEMMA ControlFates ==
  ASSUME PlaceTypes, JobOK, NEW k \in Controls,
         Start(k) \/ Refuse(k) \/ Disown(k) \/ Stop(k) \/ \E a \in Actions : Submit(k, a)
  PROVE  status' \in [Actions -> Statuses] /\ \A a \in Actions : Fair(a)
<1>1. UNCHANGED app /\ k \in Threads
  BY ThreadFacts DEF Start, Refuse, Disown, Stop, Submit, world
<1>2. CASE Start(k) \/ Refuse(k)
  <2>1. job[k] \in Actions
    BY <1>1, <1>2 DEF Start, Refuse, JobOK, Where, Sweeping, Working, Holder
  <2>2. status' = Started(job[k])
    BY <1>2 DEF Start, Refuse
  <2> QED BY <1>1, <2>1, <2>2, StartedFacts DEF Fair, Active, Statuses, PlaceTypes
<1>3. CASE Disown(k)
  <2>1. job[k] \in Actions
    BY <1>1, <1>3 DEF Disown, JobOK, Where, Sweeping, Working, Holder
  <2>2. status' = Unknown(status, job[k])
    BY <1>3 DEF Disown
  <2> QED BY <1>1, <2>1, <2>2, UnknownFacts DEF Fair, Statuses, PlaceTypes
<1>4. CASE Stop(k)
  <2> DEFINE x == Expired(status, due)
  <2>1. job[k] \in Actions
    BY <1>1, <1>4 DEF Stop, JobOK, Where, Sweeping, Working, Holder
  <2>2. status' = IF x[job[k]] \in Active THEN [x EXCEPT ![job[k]] = "cancelled"] ELSE x
    BY <1>4 DEF Stop
  <2>3. x \in [Actions -> Statuses]
        /\ \A b \in Actions : x[b] = status[b] \/ (status[b] \in Active /\ x[b] = "timed_out")
    BY ExpiredFacts DEF PlaceTypes, Statuses
  <2> HIDE DEF x
  <2>4. status' \in [Actions -> Statuses]
    BY <2>1, <2>2, <2>3 DEF Statuses, Ended
  <2>5. \A b \in Actions : status'[b] = x[b] \/ (x[b] \in Active /\ status'[b] = "cancelled")
    BY <2>1, <2>2, <2>3
  <2> QED BY <1>1, <2>3, <2>4, <2>5 DEF Fair, Active
<1>5. CASE \E a \in Actions : Submit(k, a)
  <2>1. PICK a \in Actions : Submit(k, a)
    BY <1>5
  <2> DEFINE x == Expired(status, due)
  <2>2. status[a] = "none" /\ (status' = x \/ status' = [x EXCEPT ![a] = "queued"])
    BY <2>1 DEF Submit
  <2>3. x \in [Actions -> Statuses]
        /\ \A b \in Actions : x[b] = status[b] \/ (status[b] \in Active /\ x[b] = "timed_out")
    BY ExpiredFacts DEF PlaceTypes, Statuses
  <2> HIDE DEF x
  <2> QED BY <1>1, <2>2, <2>3 DEF Fair, Statuses, Active
<1> QED BY <1>2, <1>3, <1>4, <1>5

LEMMA ReaderFates ==
  ASSUME PlaceTypes, JobOK, NEW c \in Conns, Settle(c) \/ \E a \in Actions : SettleLost(c, a)
  PROVE  status' \in [Actions -> Statuses] /\ \A a \in Actions : Fair(a)
<1>1. UNCHANGED app /\ c \in Threads
  BY ThreadFacts DEF Settle, SettleLost, world
<1>2. CASE \E a \in Actions : SettleLost(c, a)
  <2>1. PICK a \in Actions : status' = Unknown(status, a)
    BY <1>2 DEF SettleLost
  <2> QED BY <1>1, <2>1, UnknownFacts DEF Fair, Statuses, PlaceTypes
<1>3. CASE Settle(c)
  <2> DEFINE a == job[c]
  <2>1. a \in Actions
    BY <1>1, <1>3 DEF Settle, JobOK, Where, Sweeping, Working, Holder
  <2>2. {"failed", "succeeded"} \subseteq Ended
    BY DEF Ended
  <2>3. CASE app[a] = "rejected" /\ status' = Finished(status, a, "failed", due)
    <3>1. /\ status' \in [Actions -> Statuses]
          /\ \A b \in Actions :
               \/ status'[b] = status[b]
               \/ status[b] \in Active /\ status'[b] = "timed_out"
               \/ b = a /\ status[b] = "running" /\ status'[b] = "failed"
      BY <2>1, <2>2, <2>3, FinishedFacts DEF PlaceTypes, Statuses
    <3> QED BY <1>1, <2>3, <3>1 DEF Fair, Active
  <2>4. CASE /\ app[a] \in Executed
             /\ \E before \in SUBSET (due \ {a}) :
                  status' = Finished(status, a, "succeeded",
                                     before \union (IF app[a] = "late" THEN {a} ELSE {}))
    <3>1. PICK before \in SUBSET (due \ {a}) :
            status' = Finished(status, a, "succeeded", before \union (IF app[a] = "late" THEN {a} ELSE {}))
      BY <2>4
    <3> DEFINE late == before \union (IF app[a] = "late" THEN {a} ELSE {})
    <3>2. status \in [Actions -> Active \union Ended \union {"none"}] /\ "succeeded" \in Ended
      BY <2>2 DEF PlaceTypes
    <3>3. status' = Finished(status, a, "succeeded", late)
      BY <3>1
    <3>4. /\ status' \in [Actions -> Statuses]
          /\ \A b \in Actions :
               \/ status'[b] = status[b]
               \/ status[b] \in Active /\ status'[b] = "timed_out"
               \/ /\ b = a /\ status[b] = "running" /\ status'[b] = "succeeded"
                  /\ b \notin late
      <4> HIDE DEF late, a
      <4> QED BY <2>1, <3>2, <3>3, FinishedFacts DEF Statuses
    <3> QED BY <1>1, <2>4, <3>4 DEF Fair, Active, Executed
  <2>5. CASE status' = Unknown(status, a)
    BY <1>1, <2>1, <2>5, UnknownFacts DEF Fair, Statuses, PlaceTypes
  <2> QED BY <1>3, <2>3, <2>4, <2>5 DEF Settle
<1> QED BY <1>2, <1>3

LEMMA StatusStep ==
  ASSUME PlaceTypes, JobOK, Next
  PROVE  status' \in [Actions -> Statuses] /\ \A a \in Actions : Fair(a)
<1> DEFINE Good == status' \in [Actions -> Statuses] /\ \A a \in Actions : Fair(a)
<1>1. Quiet => Good
  BY QuietSteps DEF Fair, PlaceTypes, Statuses
<1>2. Read \/ Judge \/ MarkCheck => Good
  BY ExpirySteps
<1>3. \A t \in Threads : Expire(t) \/ Fail(t) => Good
  BY ExpireStep, FailStep
<1>4. \A k \in Controls : Start(k) \/ Refuse(k) \/ Disown(k) \/ Stop(k) \/ (\E a \in Actions : Submit(k, a)) => Good
  BY ControlFates
<1>5. \A c \in Conns : Settle(c) \/ (\E a \in Actions : SettleLost(c, a)) => Good
  BY ReaderFates
<1> HIDE DEF Good
<1>6. \A t \in Threads : SweepStep(t) => Good
  BY <1>1, <1>3 DEF SweepStep, Quiet
<1>7. \A k \in Controls : ControlStep(k) \/ (\E a \in Actions : Submit(k, a) \/ Cancel(k, a)) => Good
  BY <1>1, <1>3, <1>4, <1>6, ThreadFacts DEF ControlStep, Quiet
<1>8. \A c \in Conns : Connect(c) \/ Lose(c) \/ ReaderStep(c) => Good
  BY <1>1, <1>3, <1>5, <1>6, ThreadFacts DEF ReaderStep, Quiet
<1>9. HeartStep => Good
  BY <1>1, <1>2, <1>3, <1>6, ThreadFacts DEF HeartStep, Quiet
<1>10. (\E a \in Actions : AppStep(a) \/ Pass(a)) => Good
  BY <1>1 DEF Quiet
<1>11. Good
  BY <1>2, <1>6, <1>7, <1>8, <1>9, <1>10, ThreadFacts DEF Next
<1> QED BY <1>11 DEF Good

-----------------------------------------------------------------------------
\* A request that is sent, or reported as failed, is pending no more.
LEMMA NotPending ==
  ASSUME Before, NEW t \in Threads, NEW a \in Actions, Where(t)' \notin Holder,
         \A u \in Threads \ {t} : Where(u)' = Where(u) /\ job'[u] = job[u] /\ ~(Where(u) \in Holder /\ job[u] = a),
         UNCHANGED todo, t \in Conns /\ Where(t)' = "refuse" => Where(t) = "fail",
         \A c \in Conns : a \notin Lost(c), a \notin Piped'
  PROVE  ~Pending(a)'
<1>1. \A c \in Conns : Lost(c)' \subseteq Lost(c)
  BY ThreadFacts DEF Lost, Holder
<1> QED BY <1>1 DEF Pending, Holds

LEMMA FailLeaves ==
  ASSUME Before, NEW t \in Threads, Fail(t), NEW a \in Actions, a = job[t]
  PROVE  ~Pending(a)'
<1> USE DEF Before, store, sweep, rounds
<1>1. Where(t) = "fail" /\ UNCHANGED <<then, todo, queue, batch, ready>>
      /\ Go(t, After(t)) /\ job' = [job EXCEPT ![t] = None]
  BY DEF Fail, Where, Sweeping, Takes
<1>2. After(t) \in PcOf(t) \ Sweeping
  BY ThreadFacts DEF After, Threads, Sweeping
<1>3. Where(t)' = After(t) /\ \A u \in Threads \ {t} : Where(u)' = Where(u)
  BY <1>1, <1>2, GoFacts
<1>4. \A u \in Threads \ {t} : job'[u] = job[u]
  BY <1>1 DEF JobOK
<1>5. /\ \A u \in Threads \ {t} : ~(Where(u) \in Holder /\ job[u] = a)
      /\ a \notin Piped' /\ \A c \in Conns : a \notin Lost(c)
  BY <1>1 DEF PlaceInv, Holder, Piped
<1>6. Where(t)' \notin Holder /\ (t \in Conns /\ Where(t)' = "refuse" => Where(t) = "fail")
  BY <1>1, <1>3 DEF After, Holder
<1> QED BY <1>1, <1>3, <1>4, <1>5, <1>6, NotPending

\* What the app does: only a request of the heartbeat reaches it.
Reaches(a) ==
  \/ app'[a] = app[a]
  \/ /\ UNCHANGED status
     /\ \/ app[a] = "none" /\ a \in Piped /\ ~Pending(a)' /\ app'[a] \in {"rejected", "sent"}
        \/ app[a] = "sent" /\ app'[a] \in {"rejected"} \union Executed

Answers == {"none", "sent", "rejected"} \union Executed

LEMMA SendMoves ==
  ASSUME Before, FateInv, app \in [Actions -> Answers], Send
  PROVE  /\ app' \in [Actions -> Answers] /\ \A a \in Actions : Reaches(a)
         /\ UNCHANGED app \/ \E a \in Actions : \A b \in Actions \ {a} : app'[b] = app[b]
<1> USE DEF Before, store, sweep, rounds
<1>1. CASE UNCHANGED app
  BY <1>1 DEF Reaches
<1>2. CASE ~ UNCHANGED app
  <2>1. Where(Heart) = "send" /\ ready # <<>>
    BY DEF Send, HeartOK, Where, Sweeping
  <2>2. Head(ready) \in Actions
    BY <2>1, TailFacts DEF SeqOK
  <2>3. PICK a \in Actions : a = Head(ready)
    BY <2>2
  <2>4. /\ app' = [app EXCEPT ![a] = IF a \in due THEN "rejected" ELSE "sent"]
        /\ ready' = Tail(ready) /\ Go(Heart, "idle")
        /\ UNCHANGED <<status, queue, target, then, job, todo, batch>>
    BY <1>2, <2>3 DEF Send
  <2>5. a \in ToSet(ready) /\ a \notin ToSet(ready')
    BY <2>1, <2>3, <2>4, TailFacts DEF SeqOK, Once
  <2>6. a \in Piped /\ a \notin Piped'
    BY <2>4, <2>5 DEF Piped, SeqOK, Once
  <2>7. "idle" \in PcOf(Heart) \ Sweeping /\ Heart \in Threads /\ Heart \notin Conns
    BY ThreadFacts DEF Sweeping
  <2>8. Where(Heart)' = "idle" /\ \A u \in Threads \ {Heart} : Where(u)' = Where(u)
    BY <2>4, <2>7, GoFacts
  <2>9. (\A u \in Threads : ~(Where(u) \in Holder /\ job[u] = a)) /\ \A c \in Conns : a \notin Lost(c)
    BY <2>6 DEF PlaceInv
  <2>10. ~Pending(a)'
    BY <2>4, <2>6, <2>7, <2>8, <2>9, NotPending DEF Holder
  <2>11. app[a] = "none"
    BY <2>6 DEF FateInv, Pending
  <2>12. app' \in [Actions -> Answers] /\ \A b \in Actions \ {a} : app'[b] = app[b]
    BY <2>4 DEF Answers
  <2> QED BY <2>4, <2>6, <2>10, <2>11, <2>12 DEF Reaches
<1> QED BY <1>1, <1>2

LEMMA AppMoves ==
  ASSUME Before, FateInv, app \in [Actions -> Answers], Next
  PROVE  /\ app' \in [Actions -> Answers] /\ \A a \in Actions : Reaches(a)
         /\ UNCHANGED app \/ \E a \in Actions : \A b \in Actions \ {a} : app'[b] = app[b]
<1> USE DEF world
<1>1. CASE UNCHANGED app
  BY <1>1 DEF Reaches
<1>2. CASE Send
  BY <1>2, SendMoves
<1>3. CASE \E a \in Actions : AppStep(a)
  <2>1. PICK a \in Actions : AppStep(a)
    BY <1>3
  <2>2. app[a] = "sent" /\ UNCHANGED status
        /\ \/ app' = [app EXCEPT ![a] = "rejected"]
           \/ app' = [app EXCEPT ![a] = IF a \in due THEN "late" ELSE "hit"]
    BY <2>1 DEF AppStep, Reject, Execute, store
  <2> QED BY <2>2 DEF Reaches, Answers, Executed
<1>4. \A t \in Threads : SweepStep(t) \/ Fail(t) => UNCHANGED app
  BY DEF SweepStep, TakeDue, NothingDue, Expire, Fail
<1>5. \A k \in Controls : ControlStep(k) \/ (\E a \in Actions : Submit(k, a) \/ Cancel(k, a)) => UNCHANGED app
  <2>1. \A k \in Controls : Start(k) \/ Push(k) \/ Refuse(k) => UNCHANGED app
    BY DEF Start, Push, Refuse
  <2>2. \A k \in Controls : TakeBack(k) \/ Disown(k) \/ Unqueue(k) \/ Stop(k) => UNCHANGED app
    BY DEF TakeBack, Disown, Unqueue, Stop
  <2>3. \A k \in Controls : (\E a \in Actions : Submit(k, a) \/ Cancel(k, a)) => UNCHANGED app
    BY DEF Submit, Cancel
  <2> QED BY <1>4, <2>1, <2>2, <2>3, ThreadFacts DEF ControlStep
<1>6. \A c \in Conns : Connect(c) \/ Lose(c) \/ ReaderStep(c) => UNCHANGED app
  <2>1. \A c \in Conns : Connect(c) \/ Lose(c) \/ Take(c) \/ Settle(c) \/ Sever(c) => UNCHANGED app
    BY DEF Connect, Lose, Take, Settle, Sever
  <2>2. \A c \in Conns : Withdraw(c) \/ Closed(c) => UNCHANGED app
    BY DEF Withdraw, Closed
  <2>3. \A c \in Conns : (\E a \in Actions : Lookup(c, a) \/ SettleLost(c, a) \/ RefuseLost(c, a)) => UNCHANGED app
    BY DEF Lookup, SettleLost, RefuseLost
  <2> QED BY <1>4, <2>1, <2>2, <2>3, ThreadFacts DEF ReaderStep
<1>7. HeartStep => Send \/ UNCHANGED app
  <2>1. Drain \/ Judge \/ MarkCheck \/ Mark \/ Unmark => UNCHANGED app
    BY DEF Drain, Judge, MarkCheck, Mark, Unmark
  <2> QED BY <1>4, <2>1, ThreadFacts DEF HeartStep
<1>8. Read \/ (\E a \in Actions : Pass(a)) => UNCHANGED app
  BY DEF Read, Pass
<1>9. Send \/ (\E a \in Actions : AppStep(a)) \/ UNCHANGED app
  BY <1>4, <1>5, <1>6, <1>7, <1>8, ThreadFacts DEF Next
<1> QED BY <1>1, <1>2, <1>3, <1>9

-----------------------------------------------------------------------------
\* A request gets into the queue from the thread that has just started it.
LEMMA PipedStep ==
  ASSUME Before, Next, NEW a \in Actions, a \in Piped'
  PROVE  a \in Piped \/ \E k \in Controls : Where(k) = "push" /\ job[k] = a
<1> USE DEF Before, store, rounds
<1> DEFINE Same == UNCHANGED <<queue, batch, ready>>
           Goal == a \in Piped \/ \E k \in Controls : Where(k) = "push" /\ job[k] = a
<1>1. Same => Goal
  BY DEF Piped
<1>2. \A t \in Threads : SweepStep(t) \/ Fail(t) => Same
  BY DEF SweepStep, TakeDue, NothingDue, Expire, Fail
<1>3. ASSUME NEW k \in Controls, Push(k) PROVE Goal
  <2>1. Where(k) = "push" /\ k \in Threads
    BY <1>3, ThreadFacts DEF Push, Where, Sweeping
  <2>2. job[k] \in Actions
    BY <2>1 DEF JobOK, Working, Holder
  <2>3. UNCHANGED <<batch, ready>> /\ (queue' = queue \/ queue' = Append(queue, job[k]))
    BY <1>3 DEF Push
  <2>4. ToSet(queue') \subseteq ToSet(queue) \union {job[k]}
    <3>1. ToSet(Append(queue, job[k])) = ToSet(queue) \union {job[k]}
      <4>1. queue \in Seq(Actions)
        BY DEF SeqOK
      <4> HIDE DEF Goal, Before
      <4> QED BY <2>2, <4>1, AppendFacts
    <3> QED BY <2>3, <3>1
  <2>5. a \in Piped \/ job[k] = a
    BY <2>3, <2>4 DEF Piped
  <2> QED BY <2>1, <2>5
<1>4. ASSUME NEW S, UNCHANGED <<batch, ready>>, queue' = Without(queue, S) PROVE Goal
  BY <1>4, WithoutSet DEF Piped, SeqOK
<1>5. Drain => Goal
  BY EmptyFacts DEF Drain, Piped
<1>6. Judge => Goal
  <2> SUFFICES ASSUME Judge PROVE Goal
    OBVIOUS
  <2>1. batch # <<>> /\ batch' = Tail(batch) /\ UNCHANGED queue
    BY DEF Judge
  <2>2. Head(batch) \in Actions /\ Head(batch) \in ToSet(batch) /\ ToSet(batch') \subseteq ToSet(batch)
    BY <2>1, TailFacts DEF SeqOK
  <2>3. ready' = ready \/ ready' = Append(ready, Head(batch))
    BY DEF Judge
  <2>4. ToSet(ready') \subseteq ToSet(ready) \union {Head(batch)}
    BY <2>2, <2>3, AppendFacts DEF SeqOK
  <2> QED BY <2>1, <2>2, <2>4 DEF Piped
<1>7. MarkCheck \/ Send \/ Unmark => Goal
  <2> SUFFICES ASSUME MarkCheck \/ Send \/ Unmark PROVE Goal
    OBVIOUS
  <2>1. ready # <<>>
    BY DEF MarkCheck, Send, Unmark, HeartOK, Where, Sweeping
  <2>2. UNCHANGED <<queue, batch>> /\ (ready' = ready \/ ready' = Tail(ready))
    BY DEF MarkCheck, Send, Unmark
  <2> QED BY <2>1, <2>2, TailFacts DEF Piped, SeqOK
<1> HIDE DEF Goal
<1>8. \A k \in Controls : ControlStep(k) \/ (\E b \in Actions : Submit(k, b) \/ Cancel(k, b)) => Goal
  <2>1. \A k \in Controls : Unqueue(k) => Goal
    BY <1>4 DEF Unqueue
  <2>2. \A k \in Controls : Start(k) \/ Refuse(k) \/ TakeBack(k) \/ Disown(k) \/ Stop(k) => Same
    BY DEF Start, Refuse, TakeBack, Disown, Stop
  <2>3. \A k \in Controls : (\E b \in Actions : Submit(k, b) \/ Cancel(k, b)) => Same
    BY DEF Submit, Cancel
  <2> QED BY <1>1, <1>2, <1>3, <2>1, <2>2, <2>3, ThreadFacts DEF ControlStep
<1>9. \A c \in Conns : Connect(c) \/ Lose(c) \/ ReaderStep(c) => Goal
  <2>1. \A c \in Conns : Withdraw(c) => Goal
    BY <1>4 DEF Withdraw
  <2>2. \A c \in Conns : Connect(c) \/ Lose(c) \/ Take(c) \/ Settle(c) \/ Sever(c) \/ Closed(c) => Same
    BY DEF Connect, Lose, Take, Settle, Sever, Closed
  <2>3. \A c \in Conns : (\E b \in Actions : Lookup(c, b) \/ SettleLost(c, b) \/ RefuseLost(c, b)) => Same
    BY DEF Lookup, SettleLost, RefuseLost
  <2> QED BY <1>1, <1>2, <2>1, <2>2, <2>3, ThreadFacts DEF ReaderStep
<1>10. HeartStep => Goal
  <2>1. Mark => Same
    BY DEF Mark
  <2> QED BY <1>1, <1>2, <1>5, <1>6, <1>7, <2>1, ThreadFacts DEF HeartStep
<1>11. (\E b \in Actions : AppStep(b) \/ Pass(b)) \/ Read => Same
  BY DEF AppStep, Reject, Execute, Pass, Read
<1>12. Goal
  BY <1>1, <1>2, <1>8, <1>9, <1>10, <1>11, ThreadFacts DEF Next
<1> QED BY <1>12 DEF Goal

\* A thread that may queue its request has started it.
LEMMA PushStep ==
  ASSUME Before, PcOK', Next, NEW t \in Threads, Where(t)' = "push"
  PROVE  (Where(t) = "push" /\ job'[t] = job[t]) \/ status'[job'[t]] = "running"
<1> USE DEF Before, sweep
<1> DEFINE Spared == pc'[t] = pc[t] /\ then'[t] = then[t] /\ job'[t] = job[t]
           Goal == (Where(t) = "push" /\ job'[t] = job[t]) \/ status'[job'[t]] = "running"
<1>1. Spared => Goal
  BY DEF Where
<1>2. t \in Controls /\ t \notin Conns /\ t # Heart /\ t # Live
  BY ThreadFacts DEF PcOK, Where, Threads
<1>3. DOMAIN pc = Threads /\ DOMAIN then = Threads /\ DOMAIN job = Threads
  BY DEF PcOK, JobOK
<1>4. \A u \in Threads : SweepStep(u) => Goal
  BY SweepStepFacts
<1>5. \A u \in Threads \ {t} : Fail(u) => Spared
  BY <1>3 DEF Fail, Go, Takes
<1>6. \A k \in Controls \ {t} : ControlStep(k) \/ (\E b \in Actions : Submit(k, b) \/ Cancel(k, b)) => Goal
  <2>1. \A k \in Controls \ {t} : Start(k) \/ Push(k) \/ Refuse(k) => Spared
    BY <1>3 DEF Start, Push, Refuse, Go, Takes, Sweep
  <2>2. \A k \in Controls \ {t} : TakeBack(k) \/ Disown(k) \/ Unqueue(k) \/ Stop(k) => Spared
    BY <1>3 DEF TakeBack, Disown, Unqueue, Stop, Go, Takes, Sweep
  <2>3. \A k \in Controls \ {t} : (\E b \in Actions : Submit(k, b) \/ Cancel(k, b)) => Spared
    BY <1>3 DEF Submit, Cancel, Go, Takes, Sweep
  <2> HIDE DEF Spared, Goal
  <2> QED BY <1>1, <1>4, <1>5, <2>1, <2>2, <2>3, ThreadFacts DEF ControlStep
<1>7. \A c \in Conns : Connect(c) \/ Lose(c) \/ ReaderStep(c) => Goal
  <2>1. \A c \in Conns : Connect(c) \/ Lose(c) \/ Take(c) \/ Settle(c) \/ Sever(c) => Spared
    BY <1>2, <1>3 DEF Connect, Lose, Take, Settle, Sever, Go, Takes
  <2>2. \A c \in Conns : Withdraw(c) \/ Closed(c) => Spared
    BY <1>2, <1>3 DEF Withdraw, Closed, Go
  <2>3. \A c \in Conns : (\E b \in Actions : Lookup(c, b) \/ SettleLost(c, b) \/ RefuseLost(c, b)) => Spared
    BY <1>2, <1>3 DEF Lookup, SettleLost, RefuseLost, Go, Takes, Sweep
  <2> HIDE DEF Spared, Goal
  <2> QED BY <1>1, <1>2, <1>4, <1>5, <2>1, <2>2, <2>3, ThreadFacts DEF ReaderStep
<1>8. HeartStep => Goal
  <2>1. Drain \/ Judge \/ MarkCheck \/ Mark => Spared
    BY <1>2, <1>3 DEF Drain, Judge, MarkCheck, Mark, Go, Takes, Sweep
  <2>2. Send \/ Unmark => Spared
    BY <1>2, <1>3 DEF Send, Unmark, Go, Takes, Sweep
  <2> HIDE DEF Spared, Goal
  <2> QED BY <1>1, <1>2, <1>4, <1>5, <2>1, <2>2, ThreadFacts DEF HeartStep
<1>9. (\E b \in Actions : AppStep(b) \/ Pass(b)) \/ Read => Spared
  BY DEF AppStep, Reject, Execute, Pass, Read
<1>10. ControlStep(t) \/ (\E b \in Actions : Submit(t, b) \/ Cancel(t, b)) => Goal
  <2>1. {"idle", "push", "disown", "unqueue"} \subseteq PcOf(t) \ Sweeping
        /\ {"start", "refused", "fail", "stop", "cancel"} \subseteq PcOf(t) \ Sweeping
    BY <1>2, ThreadFacts DEF Sweeping
  <2>2. ASSUME NEW to \in PcOf(t) \ Sweeping, to # "push", (Go(t, to) /\ UNCHANGED then) \/ Sweep(t, to)
        PROVE  FALSE
    BY <1>2, <2>2, GoFacts, SweepFacts
  <2>3. Start(t) => Goal
    <3> SUFFICES ASSUME Start(t), status'[job[t]] # "running" PROVE FALSE
      BY DEF Start
    <3>1. Go(t, "idle") /\ UNCHANGED then
      BY DEF Start
    <3> QED BY <2>1, <2>2, <3>1
  <2>4. ~(Push(t) \/ Refuse(t) \/ Fail(t) \/ TakeBack(t) \/ Disown(t) \/ Unqueue(t) \/ Stop(t))
    <3> SUFFICES ASSUME Push(t) \/ Refuse(t) \/ Fail(t) \/ TakeBack(t) \/ Disown(t) \/ Unqueue(t) \/ Stop(t)
                 PROVE  FALSE
      OBVIOUS
    <3>1. \E to \in {"idle", "disown", "unqueue", "refused", "fail", "stop"} :
            (Go(t, to) /\ UNCHANGED then) \/ Sweep(t, to)
      <4>1. Push(t) => Sweep(t, "refused") \/ (Go(t, "idle") /\ UNCHANGED then)
        BY DEF Push
      <4>2. Fail(t) \/ Disown(t) \/ Stop(t) => Go(t, "idle") /\ UNCHANGED then
        BY <1>2 DEF Fail, Disown, Stop, After
      <4>3. TakeBack(t) => (Go(t, "disown") \/ Go(t, "unqueue")) /\ UNCHANGED then
        BY DEF TakeBack
      <4>4. (Refuse(t) => Sweep(t, "fail")) /\ (Unqueue(t) => Sweep(t, "stop"))
        BY DEF Refuse, Unqueue
      <4> QED BY <4>1, <4>2, <4>3, <4>4
    <3>2. PICK to \in {"idle", "disown", "unqueue", "refused", "fail", "stop"} :
            (Go(t, to) /\ UNCHANGED then) \/ Sweep(t, to)
      BY <3>1
    <3> QED BY <2>1, <2>2, <3>2
  <2>5. ASSUME NEW b \in Actions, Submit(t, b) \/ Cancel(t, b) PROVE Goal
    <3>1. Spared \/ \E to \in {"start", "refused", "cancel"} : Sweep(t, to)
      BY <2>5 DEF Submit, Cancel
    <3>2. CASE \E to \in {"start", "refused", "cancel"} : Sweep(t, to)
      <4>1. PICK to \in {"start", "refused", "cancel"} : Sweep(t, to)
        BY <3>2
      <4> QED BY <2>1, <2>2, <4>1
    <3> QED BY <1>1, <3>1, <3>2
  <2> HIDE DEF Goal
  <2> QED BY <1>4, <2>3, <2>4, <2>5 DEF ControlStep
<1> HIDE DEF Spared, Goal
<1>11. Goal
  BY <1>1, <1>4, <1>6, <1>7, <1>8, <1>9, <1>10, ThreadFacts DEF Next
<1> QED BY <1>11 DEF Goal

-----------------------------------------------------------------------------
\* A step keeps what is known of where a request can still go.
LEMMA FateStep ==
  ASSUME Before, FateInv, app \in [Actions -> Answers], Next, After1
  PROVE  FateInv'
<1> USE DEF Before
<1>1. \A a \in Actions : Fair(a) /\ Reaches(a)
  BY StatusStep, AppMoves
<1>2. ASSUME NEW a \in Actions, Pending(a)' PROVE app'[a] = "none" /\ status'[a] \notin {"none", "failed"}
  <2>1. CASE status[a] = "none" /\ status'[a] = "queued"
    <3>1. app[a] = "none"
      BY <2>1 DEF FateInv
    <3> QED BY <1>1, <1>2, <2>1, <3>1 DEF Reaches
  <2>2. CASE Pending(a)
    <3>1. app[a] = "none" /\ status[a] \notin {"none", "failed"}
      BY <2>2 DEF FateInv
    <3>2. \A t \in Threads : ~(Fail(t) /\ job[t] = a)
      BY <1>2, FailLeaves
    <3>3. status'[a] \notin {"none", "failed"}
      BY <1>1, <3>1, <3>2 DEF Fair
    <3> QED BY <1>1, <1>2, <3>1, <3>3 DEF Reaches
  <2> QED BY <1>2, <2>1, <2>2 DEF After1
<1>3. \A a \in Actions : status[a] \notin {"none", "queued"} => status'[a] \notin {"none", "queued"}
  BY <1>1 DEF Fair
<1>4. ASSUME NEW a \in Actions, app'[a] # "none" \/ a \in Piped' PROVE status'[a] \notin {"none", "queued"}
  <2>1. CASE app[a] # "none" \/ a \in Piped
    BY <1>3, <2>1 DEF FateInv
  <2>2. CASE app'[a] # "none" /\ app[a] = "none"
    BY <1>1, <1>3, <2>2 DEF Reaches, FateInv
  <2>3. CASE \E k \in Controls : Where(k) = "push" /\ job[k] = a
    BY <1>3, <2>3, ThreadFacts DEF FateInv
  <2> QED BY <1>4, <2>1, <2>2, <2>3, PipedStep
<1>5. ASSUME NEW t \in Threads, Where(t)' = "push" PROVE status'[job'[t]] \notin {"none", "queued"}
  <2>1. CASE status'[job'[t]] = "running"
    BY <2>1
  <2>2. CASE Where(t) = "push" /\ job'[t] = job[t]
    <3>1. job[t] \in Actions
      BY <2>2 DEF JobOK, Working, Holder
    <3> QED BY <1>3, <2>2, <3>1 DEF FateInv
  <2> QED BY <1>5, <2>1, <2>2, PushStep DEF After1
<1>6. ASSUME NEW a \in Actions, status'[a] = "failed" PROVE app'[a] \in {"none", "rejected"}
  <2>1. CASE status[a] = "failed"
    <3>1. app[a] \in {"none", "rejected"} /\ ~(a \in Piped)
      BY <2>1 DEF FateInv, Pending
    <3> QED BY <1>1, <3>1 DEF Reaches
  <2>2. CASE status[a] # "failed"
    <3>1. CASE app[a] = "rejected" /\ UNCHANGED app
      BY <3>1
    <3>2. CASE UNCHANGED app /\ \E t \in Threads : Fail(t) /\ job[t] = a
      <4>1. \E t \in Threads : Holds(t, a)
        BY <3>2 DEF Fail, Holds, Where, Sweeping, Holder
      <4> QED BY <3>2, <4>1 DEF FateInv, Pending
    <3> QED BY <1>1, <1>6, <2>2, <3>1, <3>2 DEF Fair
  <2> QED BY <2>1, <2>2
<1> QED BY <1>2, <1>4, <1>5, <1>6 DEF FateInv

-----------------------------------------------------------------------------
\* The types of what no request moves with.
RestOK ==
  /\ due \subseteq Actions /\ deliveries \subseteq Actions
  /\ target \in [Actions -> Conns \union {None}]
  /\ owner \in Conns \union {None}
  /\ now \in [Threads -> SUBSET Actions] /\ took \in [Threads -> SUBSET Actions]
  /\ todo \in [Conns -> SUBSET Actions] /\ cancels \in 0 .. MaxCancels

LEMMA RestStep ==
  ASSUME Before, RestOK, Next
  PROVE  RestOK'
<1> USE DEF store, world, sweep, rounds
<1>1. ASSUME NEW t \in Threads, SweepStep(t) \/ Fail(t) PROVE RestOK'
  <2>1. Stale \subseteq Actions
    BY DEF Stale, RestOK
  <2>2. TakeDue(t) => RestOK'
    BY <2>1 DEF TakeDue, RestOK
  <2>3. NothingDue(t) \/ Expire(t) \/ Fail(t) => RestOK'
    BY DEF NothingDue, Expire, Fail, RestOK
  <2> QED BY <1>1, <2>2, <2>3 DEF SweepStep
<1>2. ASSUME NEW k \in Controls, ControlStep(k) \/ \E a \in Actions : Submit(k, a) \/ Cancel(k, a) PROVE RestOK'
  <2>1. ASSUME NEW a \in Actions, Submit(k, a) PROVE RestOK'
    BY <2>1 DEF Submit, Sweep, RestOK
  <2>2. ASSUME NEW a \in Actions, Cancel(k, a) PROVE RestOK'
    BY <2>2, ConstantsAssumption DEF Cancel, Sweep, RestOK
  <2>3. Start(k) \/ Push(k) \/ Refuse(k) => RestOK'
    BY DEF Start, Push, Refuse, Sweep, RestOK
  <2>4. TakeBack(k) \/ Disown(k) \/ Unqueue(k) \/ Stop(k) => RestOK'
    BY DEF TakeBack, Disown, Unqueue, Stop, Sweep, RestOK
  <2> QED BY <1>1, <1>2, <2>1, <2>2, <2>3, <2>4, ThreadFacts DEF ControlStep
<1>3. ASSUME NEW c \in Conns, Connect(c) \/ Lose(c) \/ ReaderStep(c) PROVE RestOK'
  <2>1. ASSUME NEW a \in Actions, Lookup(c, a) \/ SettleLost(c, a) \/ RefuseLost(c, a) PROVE RestOK'
    BY <2>1 DEF Lookup, SettleLost, RefuseLost, Sweep, RestOK
  <2>2. Connect(c) \/ Lose(c) \/ Take(c) \/ Settle(c) \/ Closed(c) => RestOK'
    BY DEF Connect, Lose, Take, Settle, Closed, RestOK
  <2>3. Sever(c) => RestOK'
    BY DEF Sever, RestOK
  <2>4. Withdraw(c) => RestOK'
    <3>1. ToSet(queue) \subseteq Actions
      BY ByPosition DEF Before, SeqOK
    <3> QED BY <3>1 DEF Withdraw, RestOK
  <2> QED BY <1>1, <1>3, <2>1, <2>2, <2>3, <2>4, ThreadFacts DEF ReaderStep
<1>4. ASSUME HeartStep PROVE RestOK'
  <2>1. Drain \/ Judge \/ MarkCheck \/ Send \/ Unmark => RestOK'
    BY DEF Drain, Judge, MarkCheck, Send, Unmark, Sweep, RestOK
  <2>2. Mark => RestOK'
    <3> SUFFICES ASSUME Mark PROVE RestOK'
      OBVIOUS
    <3>1. ready # <<>>
      BY DEF Mark, Before, HeartOK, Where, Sweeping
    <3>2. Head(ready) \in Actions
      BY <3>1, TailFacts DEF Before, SeqOK
    <3> QED BY <3>2 DEF Mark, RestOK
  <2> QED BY <1>1, <1>4, <2>1, <2>2, ThreadFacts DEF HeartStep
<1>5. ASSUME (\E a \in Actions : AppStep(a) \/ Pass(a)) \/ Read PROVE RestOK'
  BY <1>5 DEF AppStep, Reject, Execute, Pass, Read, RestOK
<1> QED BY <1>1, <1>2, <1>3, <1>4, <1>5, ThreadFacts DEF Next

\* The invariant in the parts the steps are proved to keep.
Known == Before /\ FateInv /\ RestOK /\ app \in [Actions -> Answers]

LEMMA Parts == IInv <=> Known
<1>1. IInv => Known
  BY BeforeFacts DEF IInv, TypeOK, RestOK, Answers, Known
<1>2. ASSUME Before, FateInv, RestOK, app \in [Actions -> Answers] PROVE IInv
  <2>1. IsInjective(queue \o batch \o ready)
    BY <1>2, OnceFacts DEF Before, SeqOK
  <2>2. TypeOK
    BY <1>2, <2>1 DEF TypeOK, Before, PcOK, JobOK, SeqOK, PlaceTypes, RestOK, Answers
  <2>3. WorkInv
    BY <1>2 DEF WorkInv, Before, PcOK, JobOK, HeartOK, Working
  <2> QED BY <1>2, <2>2, <2>3 DEF IInv, Before
<1> QED BY <1>1, <1>2 DEF Known

LEMMA InitInv == Init => IInv
<1> SUFFICES ASSUME Init PROVE IInv
  OBVIOUS
<1>1. \A t \in Threads : pc[t] = "idle" /\ then[t] = "idle" /\ Where(t) = "idle" /\ "idle" \in PcOf(t)
  BY DEF Init, Where, Sweeping, PcOf
<1>2. PcOK /\ JobOK /\ HeartOK
  BY <1>1, ThreadFacts DEF Init, PcOK, JobOK, HeartOK, Sweeping, Working, Holder
<1>3. SeqOK /\ Piped = {}
  BY EmptyFacts, ConstantsAssumption DEF Init, SeqOK, Once, Piped
<1>4. \A c \in Conns : Lost(c) = {}
  BY <1>1, ThreadFacts DEF Lost
<1>5. PlaceInv
  BY <1>1, <1>4 DEF PlaceInv, Holder
<1>6. FateInv
  BY <1>1, <1>3, <1>4, ThreadFacts DEF Init, FateInv, Pending, Holds, Holder
<1>7. PlaceTypes /\ RestOK /\ app \in [Actions -> Answers]
  BY ConstantsAssumption DEF Init, PlaceTypes, RestOK, Answers
<1> QED BY <1>2, <1>3, <1>5, <1>6, <1>7, Parts DEF Before, Known

LEMMA Inductive == IInv /\ [Next]_vars => IInv'
<1>0. Known' => IInv'
  BY Parts, PTL
<1> SUFFICES ASSUME IInv, [Next]_vars PROVE IInv'
  OBVIOUS
<1>1. Before /\ FateInv /\ RestOK /\ app \in [Actions -> Answers]
  BY Parts DEF Known
<1>2. CASE Next
  <2>1. After1
    BY <1>1, <1>2, PlaceStep
  <2>2. FateInv' /\ RestOK' /\ app' \in [Actions -> Answers]
    BY <1>1, <1>2, <2>1, FateStep, RestStep, AppMoves
  <2>3. status' \in [Actions -> Statuses]
    BY <1>1, <1>2, StatusStep DEF Before
  <2>4. PlaceTypes'
    BY <2>2, <2>3 DEF PlaceTypes, RestOK, Statuses
  <2>5. Before'
    BY <2>1, <2>4 DEF Before, After1
  <2> QED BY <1>0, <2>2, <2>5 DEF Known
<1>3. CASE UNCHANGED vars
  BY <1>1, <1>3 DEF IInv, TypeOK, WorkInv, PlaceInv, FateInv, Pending, Holds, Piped, Lost, Where,
                    vars, store, world, sweep, rounds
<1> QED BY <1>2, <1>3

\* Every variable keeps its type, the queue its limit, and a request is in one
\* place only on its way to the app (submit_action, take_action_dispatches).
THEOREM TypesAreKept == Spec => []TypeOK
<1>1. IInv => TypeOK
  BY DEF IInv
<1> QED BY <1>1, InitInv, Inductive, PTL DEF Spec

\* No action both ends as failed and is executed, also when its result, the loss
\* of the connection, a cancellation and the deadline come at once.
THEOREM FailedIsNotExecuted ==
  Spec => [](\A a \in Actions : status[a] = "failed" => app[a] \notin Executed \union {"sent"})
<1>1. IInv => \A a \in Actions : status[a] = "failed" => app[a] \notin Executed \union {"sent"}
  BY DEF IInv, FateInv, Executed
<1> QED BY <1>1, InitInv, Inductive, PTL DEF Spec

\* The supervisor and the app implement what is promised of an action: it ends
\* once, a success was executed before the deadline, and a failure never is.
THEOREM PromiseIsKept == Spec => KeepsPromise
<1> DEFINE executed == {a \in Actions : app[a] \in Executed}
           inTime   == {a \in Actions : app[a] = "hit"}
<1>1. Init => Promise!Init
  BY DEF Init, Promise!Init, Executed
<1>2. ASSUME IInv, [Next]_vars PROVE [Promise!Next]_<<status, executed, inTime>>
  <2>1. Before /\ FateInv /\ app \in [Actions -> Answers]
    BY <1>2, Parts DEF Known
  <2>2. CASE UNCHANGED <<status, app>>
    BY <2>2
  <2>3. CASE Next /\ UNCHANGED app
    <3>1. status' \in [Actions -> Statuses] /\ \A a \in Actions : Fair(a)
      BY <2>1, <2>3, StatusStep DEF Before
    <3>2. status' \in [Actions -> Promise!Status]
      BY <3>1 DEF Statuses, Active, Ended, Promise!Status, Promise!Ended
    <3>3. \A a \in Actions : Promise!Follows(status[a], status'[a])
      BY <3>1 DEF Fair, Promise!Follows, Promise!Ended
    <3>4. \A a \in Actions : status'[a] # status[a] /\ status'[a] = "succeeded" => a \in inTime
      BY <3>1 DEF Fair
    <3>5. \A a \in Actions : status'[a] # status[a] /\ status'[a] = "failed" => a \notin executed
      <4> SUFFICES ASSUME NEW a \in Actions, status'[a] # status[a], status'[a] = "failed"
                   PROVE  app[a] \notin Executed
        OBVIOUS
      <4>1. app[a] = "rejected" \/ \E t \in Threads : Fail(t) /\ job[t] = a
        BY <3>1 DEF Fair
      <4>2. (\E t \in Threads : Fail(t) /\ job[t] = a) => Pending(a)
        BY DEF Fail, Pending, Holds, Where, Sweeping, Holder
      <4> QED BY <2>1, <4>1, <4>2 DEF FateInv, Executed
    <3> QED BY <2>3, <3>2, <3>3, <3>4, <3>5 DEF Promise!Next, Promise!Advance
  <2>4. CASE Next /\ ~ UNCHANGED app
    <3>1. status' \in [Actions -> Statuses] /\ (\A a \in Actions : Fair(a) /\ Reaches(a))
          /\ app' \in [Actions -> Answers]
      BY <2>1, <2>4, StatusStep, AppMoves DEF Before
    <3>2. PICK a \in Actions : \A b \in Actions \ {a} : app'[b] = app[b]
      BY <2>1, <2>4, AppMoves
    <3>3. app'[a] # app[a]
      BY <2>1, <2>4, <3>1, <3>2
    <3>4. UNCHANGED status
      BY <3>1, <3>3 DEF Reaches
    <3>5. CASE app'[a] \in Executed
      <4>1. app[a] = "sent"
        BY <3>1, <3>3, <3>5 DEF Reaches, Executed
      <4>2. a \notin executed /\ status[a] \notin {"none", "queued", "failed"}
        BY <2>1, <4>1 DEF FateInv, Executed
      <4>3. executed' = executed \union {a}
        BY <3>2, <3>5
      <4>4. inTime' \in {inTime, inTime \union {a}}
        BY <3>2, <4>1
      <4> QED BY <3>4, <4>2, <4>3, <4>4 DEF Promise!Next, Promise!Execute
    <3>6. CASE app'[a] \notin Executed
      <4>1. app[a] \notin Executed
        BY <3>1, <3>3 DEF Reaches, Executed
      <4>2. executed' = executed
        BY <3>2, <3>6, <4>1
      <4>3. inTime' = inTime
        BY <3>2, <3>6, <4>1 DEF Executed
      <4> QED BY <3>4, <4>2, <4>3
    <3> QED BY <3>5, <3>6
  <2> QED BY <1>2, <2>2, <2>3, <2>4 DEF vars, store, world
<1> QED BY <1>1, <1>2, InitInv, Inductive, PTL DEF Spec, KeepsPromise, Promise!Spec
====
