----------------------------- MODULE ConfigProofs -----------------------------
(***************************************************************************)
(* Proofs about Config.tla, for any files, environments and requests:      *)
(* include graphs are loaded whole or not at all, exactly the wrong        *)
(* configurations are rejected, in whatever order maps are walked,         *)
(* environments are made of their layers, and requests are answered by     *)
(* the most specific endpoint.                                             *)
(***************************************************************************)
EXTENDS Config, FiniteSetTheorems, SequenceTheorems, WellFoundedInduction, TLAPS

-----------------------------------------------------------------------------
(* Searching a sequence *)

\* A set of naturals has a smallest element, if it has any.
LEMMA SmallestExists ==
  ASSUME NEW T \in SUBSET Nat, T # {}
  PROVE  Min(T) \in T /\ \A y \in T : Min(T) <= y
<1> DEFINE R == OpToRel(<, Nat)
<1>1. IsWellFoundedOn(R, Nat)
  BY NatLessThanWellFounded
<1>2. \A x, y \in Nat : x < y => <<x, y>> \in R
  BY DEF OpToRel
<1> HIDE DEF R
<1>3. PICK x \in T : \A y \in T : <<y, x>> \notin R
  BY <1>1, WFMin
<1>4. \A y \in T : x <= y
  <2> SUFFICES ASSUME NEW y \in T PROVE x <= y
    OBVIOUS
  <2>1. ~(y < x)
    BY <1>2, <1>3
  <2> QED
    BY <2>1
<1> QED
  BY <1>3, <1>4 DEF Min

\* A set of positions up to n has a largest one, if it has any.
LEMMA LargestExists ==
  ASSUME NEW n \in Nat, NEW T \in SUBSET (1..n), T # {}
  PROVE  Max(T) \in T /\ \A y \in T : y <= Max(T)
<1> DEFINE U == {n - i : i \in T}
<1>1. U \in SUBSET Nat /\ U # {}
  <2>1. \A i \in T : n - i \in Nat
    OBVIOUS
  <2>2. PICK i \in T : TRUE
    OBVIOUS
  <2> QED
    BY <2>1, <2>2
<1>2. Min(U) \in U /\ \A u \in U : Min(U) <= u
  BY <1>1, SmallestExists
<1>3. PICK x \in T : Min(U) = n - x
  BY <1>2
<1>4. \A y \in T : y <= x
  <2> SUFFICES ASSUME NEW y \in T PROVE y <= x
    OBVIOUS
  <2>1. n - x <= n - y
    BY <1>2, <1>3
  <2> QED
    BY <2>1
<1> QED
  BY <1>4 DEF Max

\* What is left of a sequence holds nothing new.
LEMMA TailInRange ==
  ASSUME NEW S, NEW s \in Seq(S), s # <<>>
  PROVE  Tail(s) \in Seq(S) /\ Range(Tail(s)) \subseteq Range(s)
<1>1. /\ Tail(s) \in Seq(S) /\ Len(s) \in Nat /\ Len(Tail(s)) = Len(s) - 1
      /\ \A i \in 1..Len(Tail(s)) : Tail(s)[i] = s[i + 1]
  BY HeadTailProperties
<1>2. \A i \in 1..Len(Tail(s)) : i + 1 \in 1..Len(s)
  BY <1>1
<1>3. DOMAIN s = 1..Len(s) /\ DOMAIN Tail(s) = 1..Len(Tail(s))
  BY <1>1
<1> QED
  BY <1>1, <1>2, <1>3 DEF Range

-----------------------------------------------------------------------------
(* Resources *)

\* What the stack holds.
Frame == [file : DOMAIN disk, todo : Seq(STRING)]

\* The files on the stack are there once, and each but the last is at a resource of its.
StackInv ==
  /\ disk \in Disks
  /\ stack \in Seq(Frame)
  /\ \A i \in 1..Len(stack) :
       \A path \in Range(stack[i].todo) \cap DOMAIN Canonical : Canonical[path] \in DOMAIN disk
  /\ \A i, j \in 1..Len(stack) : i # j => stack[i].file # stack[j].file
  /\ \A i \in 1..Len(stack) - 1 : stack[i].todo # <<>>
  /\ load = "loading" => stack # <<>>
  /\ load = "start" => stack = <<>> /\ DOMAIN sources = {}

\* Every app is in the file it is said to be from.
SourcesInv ==
  \A id \in DOMAIN sources :
    sources[id] \in DOMAIN disk /\ id \in DOMAIN disk[sources[id]].apps

LoadInv ==
  /\ load \in {"start", "loading", "loaded"} \cup Failures
  /\ StackInv /\ SourcesInv

\* A file whose apps are new, and that is not on the stack, goes there.
LEMMA PushKeeps ==
  ASSUME LoadInv, NEW file \in DOMAIN disk, Push(file), load' = "loading", disk' = disk,
         ~OnStack(file), \A i \in 1..Len(stack) : stack[i].todo # <<>>
  PROVE  LoadInv'
<1> DEFINE top == [file |-> file, todo |-> disk[file].resources]
<1>1. /\ top \in Frame
      /\ \A path \in Range(top.todo) \cap DOMAIN Canonical : Canonical[path] \in DOMAIN disk
  BY ResourcesAssumption DEF LoadInv, StackInv, Frame
<1>2. stack \in Seq(Frame) /\ stack' = Append(stack, top)
  BY DEF LoadInv, StackInv, Push
<1>3. top.file = file
  OBVIOUS
<1> HIDE DEF top
<1>4. /\ stack' \in Seq(Frame) /\ stack' # <<>>
      /\ Len(stack') = Len(stack) + 1 /\ Len(stack) \in Nat
      /\ \A i \in 1..Len(stack) : stack'[i] = stack[i]
      /\ stack'[Len(stack) + 1] = top
  BY <1>1, <1>2
<1>5. \A i \in 1..Len(stack') : i \in 1..Len(stack) \/ i = Len(stack) + 1
  BY <1>4
<1>6. \A i \in 1..Len(stack) : stack[i].file # file
  BY <1>2 DEF OnStack
<1>7. StackInv'
  <2>1. \A i, j \in 1..Len(stack') : i # j => stack'[i].file # stack'[j].file
    BY <1>3, <1>4, <1>5, <1>6 DEF LoadInv, StackInv
  <2>2. \A i \in 1..Len(stack') - 1 : stack'[i].todo # <<>>
    <3>1. \A i \in 1..Len(stack') - 1 : i \in 1..Len(stack)
      BY <1>4
    <3> QED
      BY <1>4, <3>1
  <2>3. \A i \in 1..Len(stack') :
          \A path \in Range(stack'[i].todo) \cap DOMAIN Canonical : Canonical[path] \in DOMAIN disk
    BY <1>1, <1>4, <1>5 DEF LoadInv, StackInv
  <2> QED
    BY <1>4, <2>1, <2>2, <2>3 DEF LoadInv, StackInv, Frame
<1>8. SourcesInv'
  BY DEF Push, Over, LoadInv, SourcesInv
<1> QED
  BY <1>7, <1>8 DEF LoadInv

\* A file that is done leaves the stack, and the one that declares it goes on.
LEMMA ReturnForm ==
  ASSUME LoadInv, LoadReturn, NEW n \in Nat, n >= 1, Len(stack) = n + 1
  PROVE  /\ stack' \in Seq(Frame) /\ Len(stack') = n /\ load' = load
         /\ \A i \in 1..n : stack'[i].file = stack[i].file
         /\ \A i \in 1..(n - 1) : stack'[i] = stack[i]
         /\ stack[n].todo # <<>> /\ stack'[n].todo = Tail(stack[n].todo)
<1> DEFINE outer == Front(stack)
<1>1. stack \in Seq(Frame) /\ disk' = disk
  BY DEF LoadReturn, LoadInv, StackInv
<1>2. \A i \in 1..n : i \in 1..(n + 1) /\ (i \in 1..(n - 1) \/ i = n)
  OBVIOUS
<1>3. outer \in Seq(Frame) /\ Len(outer) = n /\ \A i \in 1..n : outer[i] = stack[i]
  <2>1. outer = SubSeq(stack, 1, n)
    BY DEF Front
  <2>2. \A i \in 1..n : stack[i] \in Frame
    BY <1>1, <1>2
  <2> HIDE DEF outer
  <2> QED
    BY <2>1, <2>2
<1>4. stack' = [outer EXCEPT ![n].todo = Tail(outer[n].todo)] /\ load' = load
  BY <1>3 DEF LoadReturn
<1> HIDE DEF outer
<1>5. outer[n] \in Frame /\ outer[n] = stack[n] /\ stack[n].todo # <<>>
  <2>1. n \in 1..n /\ n \in 1..Len(stack) - 1
    OBVIOUS
  <2> QED
    BY <1>3, <2>1 DEF LoadInv, StackInv
<1>6. Tail(outer[n].todo) \in Seq(STRING)
  BY <1>5, TailInRange DEF Frame
<1> DEFINE top == [outer[n] EXCEPT !.todo = Tail(outer[n].todo)]
<1>7. top \in Frame /\ top.file = outer[n].file /\ top.todo = Tail(outer[n].todo)
  BY <1>5, <1>6 DEF Frame
<1>8. stack' = [outer EXCEPT ![n] = top]
  BY <1>4
<1> HIDE DEF top
<1>9. /\ stack' \in Seq(Frame) /\ Len(stack') = n
      /\ \A i \in 1..(n - 1) : stack'[i] = stack[i]
      /\ stack'[n] = top
  BY <1>2, <1>3, <1>7, <1>8
<1>10. \A i \in 1..n : stack'[i].file = stack[i].file
  BY <1>2, <1>5, <1>7, <1>9
<1> QED
  BY <1>1, <1>4, <1>5, <1>7, <1>9, <1>10 DEF Frame

\* Loading keeps its invariant.
LEMMA LoadKeeps ==
  ASSUME LoadInv, LoadNext
  PROVE  LoadInv'
<1>1. CASE LoadRoot
  <2>1. disk' = disk /\ DOMAIN sources = {} /\ stack = <<>>
    BY <1>1 DEF LoadRoot, LoadInv, StackInv
  <2>2. CASE Valid(Root)
    <3>1. Push(Root) /\ load' = "loading"
      BY <1>1, <2>2 DEF LoadRoot
    <3>2. Root \in DOMAIN disk
      BY ResourcesAssumption DEF LoadInv, StackInv
    <3> QED
      BY <2>1, <3>1, <3>2, PushKeeps DEF OnStack
  <2>3. CASE ~Valid(Root)
    BY <1>1, <2>1, <2>3 DEF LoadRoot, Fail, LoadInv, StackInv, SourcesInv, Failures
  <2> QED
    BY <2>2, <2>3
<1>2. CASE LoadResource
  <2> DEFINE path == Head(Declaring.todo)
             file == Canonical[path]
  <2>1. load = "loading" /\ Declaring.todo # <<>> /\ disk' = disk
    BY <1>2 DEF LoadResource
  <2>2. CASE \E why \in Failures : Fail(why)
    BY <2>1, <2>2 DEF Fail, LoadInv, StackInv, SourcesInv, Failures, Frame
  <2>3. CASE path \in DOMAIN Canonical /\ ~OnStack(file) /\ Push(file) /\ UNCHANGED load
    <3>1. Len(stack) \in Nat /\ Len(stack) >= 1 /\ stack[Len(stack)].todo \in Seq(STRING)
      <4>1. stack \in Seq(Frame) /\ stack # <<>>
        BY <2>1 DEF LoadInv, StackInv
      <4>2. Len(stack) \in Nat /\ Len(stack) >= 1
        BY <4>1
      <4>3. stack[Len(stack)] \in Frame
        BY <4>1, <4>2
      <4> QED
        BY <4>2, <4>3 DEF Frame
    <3>2. path \in Range(stack[Len(stack)].todo)
      BY <2>1, <3>1 DEF Declaring, Range
    <3>3. file \in DOMAIN disk
      BY <2>3, <3>1, <3>2 DEF LoadInv, StackInv
    <3>4. \A i \in 1..Len(stack) : stack[i].todo # <<>>
      BY <2>1, <3>1 DEF Declaring, LoadInv, StackInv
    <3> QED
      BY <2>1, <2>3, <3>3, <3>4, PushKeeps
  <2> QED
    BY <1>2, <2>2, <2>3 DEF LoadResource, Failures
<1>3. CASE LoadReturn
  <2>1. load = "loading" /\ UNCHANGED <<disk, sources>> /\ Len(stack) \in Nat /\ Len(stack) >= 1
    BY <1>3 DEF LoadReturn, LoadInv, StackInv
  <2>2. CASE Len(stack) = 1
    BY <1>3, <2>1, <2>2 DEF LoadReturn, LoadInv, StackInv, SourcesInv
  <2>3. ASSUME NEW n \in Nat, n >= 1, Len(stack) = n + 1
        PROVE  LoadInv'
    <3>1. /\ stack' \in Seq(Frame) /\ Len(stack') = n /\ load' = load
          /\ \A i \in 1..n : stack'[i].file = stack[i].file
          /\ \A i \in 1..(n - 1) : stack'[i] = stack[i]
          /\ stack[n].todo # <<>> /\ stack'[n].todo = Tail(stack[n].todo)
      BY <1>3, <2>3, ReturnForm
    <3>2. /\ \A i \in 1..n : i \in 1..Len(stack) /\ (i \in 1..(n - 1) \/ i = n)
          /\ \A i \in 1..(n - 1) : i \in 1..Len(stack) - 1
          /\ n \in 1..Len(stack)
      BY <2>3
    <3>3. Range(stack'[n].todo) \subseteq Range(stack[n].todo)
      <4>1. stack[n] \in Frame
        BY <3>2 DEF LoadInv, StackInv
      <4> QED
        BY <3>1, <4>1, TailInRange DEF Frame
    <3>4. \A i \in 1..n : Range(stack'[i].todo) \subseteq Range(stack[i].todo)
      BY <3>1, <3>2, <3>3
    <3>5. \A i \in 1..Len(stack') - 1 : stack'[i].todo # <<>>
      BY <3>1, <3>2 DEF LoadInv, StackInv
    <3>6. \A i, j \in 1..Len(stack') : i # j => stack'[i].file # stack'[j].file
      BY <3>1, <3>2 DEF LoadInv, StackInv
    <3>7. \A i \in 1..Len(stack') :
          \A path \in Range(stack'[i].todo) \cap DOMAIN Canonical : Canonical[path] \in DOMAIN disk
      BY <3>1, <3>2, <3>4 DEF LoadInv, StackInv
    <3>8. stack' # <<>>
      BY <2>3, <3>1
    <3>9. StackInv'
      BY <2>1, <3>1, <3>5, <3>6, <3>7, <3>8 DEF LoadInv, StackInv, Frame
    <3> QED
      BY <2>1, <3>1, <3>9 DEF LoadInv, SourcesInv
  <2>4. CASE Len(stack) # 1
    <3>1. \A m \in Nat : m >= 1 /\ m # 1 => m - 1 \in Nat /\ m - 1 >= 1 /\ m = m - 1 + 1
      OBVIOUS
    <3> QED
      BY <2>1, <2>3, <2>4, <3>1
  <2> QED
    BY <2>2, <2>4
<1> QED
  BY <1>1, <1>2, <1>3 DEF LoadNext

\* The type of Resources, the bound of its stack included.
LEMMA LoadTypes == LoadInv => LoadTypeOK
<1> SUFFICES ASSUME LoadInv PROVE LoadTypeOK
  OBVIOUS
<1>1. IsFiniteSet(DOMAIN disk)
  BY ResourcesAssumption DEF LoadInv, StackInv
<1> DEFINE f == [i \in 1..Len(stack) |-> stack[i].file]
<1>2. Len(stack) \in Nat /\ f \in Injection(1..Len(stack), DOMAIN disk)
  <2>1. Len(stack) \in Nat /\ \A i \in 1..Len(stack) : stack[i].file \in DOMAIN disk
    <3>1. stack \in Seq(Frame)
      BY DEF LoadInv, StackInv
    <3>2. Len(stack) \in Nat /\ \A i \in 1..Len(stack) : stack[i] \in Frame
      BY <3>1
    <3> QED
      BY <3>2 DEF Frame
  <2>2. f \in [1..Len(stack) -> DOMAIN disk]
    BY <2>1
  <2>3. \A i, j \in DOMAIN f : f[i] = f[j] => i = j
    BY DEF LoadInv, StackInv
  <2> QED
    BY <2>1, <2>2, <2>3 DEF Injection, IsInjective
<1>3. Cardinality(1..Len(stack)) <= Cardinality(DOMAIN disk)
  BY <1>1, <1>2, FS_Injection
<1>4. Cardinality(1..Len(stack)) = Len(stack)
  <2>1. Len(stack) \in Int /\ 1 \in Int /\ Len(stack) - 1 + 1 = Len(stack)
    BY <1>2
  <2>2. Cardinality(1..Len(stack)) = IF 1 > Len(stack) THEN 0 ELSE Len(stack) - 1 + 1
    BY <2>1, FS_Interval
  <2> QED
    BY <1>2, <2>2
<1> QED
  BY <1>3, <1>4 DEF LoadInv, SourcesInv, LoadTypeOK

-----------------------------------------------------------------------------
(* Resources: chains of them *)

\* What a chain comes to, one position after another.
Trace(f, c, n) == f = [k \in 0..n |-> IF k = 0 THEN Root ELSE Included(f[k - 1], c[k])]

\* Every chain comes to something, if only nowhere.
LEMMA TraceExists ==
  ASSUME NEW c
  PROVE  \A n \in Nat : \E f : Trace(f, c, n)
<1> DEFINE T == {n \in Nat : ~\E f : Trace(f, c, n)}
<1>1. SUFFICES ASSUME T # {} PROVE FALSE
  OBVIOUS
<1>2. PICK n \in T : \A m \in T : n <= m
  BY <1>1, SmallestExists
<1>3. n # 0
  <2> DEFINE f == [k \in 0..0 |-> Root]
  <2>1. Trace(f, c, 0)
    BY DEF Trace
  <2> QED
    BY <1>2, <2>1
<1>4. n \in Nat /\ n - 1 \in Nat /\ ~(n <= n - 1)
  BY <1>2, <1>3
<1>5. PICK f : Trace(f, c, n - 1)
  BY <1>2, <1>4
<1> DEFINE g == [k \in 0..n |-> IF k = n THEN Included(f[n - 1], c[n]) ELSE f[k]]
<1>6. \A k \in 0..n : k = n \/ (k \in 0..(n - 1) /\ k # n)
  BY <1>4
<1>7. \A k \in 0..(n - 1) : f[k] = IF k = 0 THEN Root ELSE Included(f[k - 1], c[k])
  BY <1>5 DEF Trace
<1>8. ASSUME NEW k \in 0..n
      PROVE  g[k] = IF k = 0 THEN Root ELSE Included(g[k - 1], c[k])
  <2>1. k # 0 => k - 1 \in 0..n /\ k - 1 # n
    BY <1>4
  <2>2. k # 0 => g[k - 1] = f[k - 1]
    BY <2>1
  <2>3. CASE k = n
    BY <1>3, <2>2, <2>3
  <2>4. CASE k # n
    BY <1>6, <1>7, <2>2, <2>4
  <2> QED
    BY <2>3, <2>4
<1>9. Trace(g, c, n)
  BY <1>8 DEF Trace
<1> QED
  BY <1>2, <1>9


\* Traces of chains that begin alike are alike so far.
LEMMA TracesAgree ==
  ASSUME NEW n \in Nat, NEW m \in Nat, n <= m
  PROVE  \A c, d, f, g :
           Trace(f, c, n) /\ Trace(g, d, m) /\ (\A k \in 1..n : c[k] = d[k])
             => \A k \in 0..n : f[k] = g[k]
<1> SUFFICES ASSUME NEW c, NEW d, NEW f, NEW g, Trace(f, c, n), Trace(g, d, m),
                    \A k \in 1..n : c[k] = d[k]
             PROVE  \A k \in 0..n : f[k] = g[k]
  OBVIOUS
<1> DEFINE T == {k \in 0..n : f[k] # g[k]}
<1>1. SUFFICES ASSUME T # {} PROVE FALSE
  OBVIOUS
<1>2. PICK k \in T : \A j \in T : k <= j
  <2>1. T \in SUBSET Nat
    OBVIOUS
  <2> QED
    BY <1>1, <2>1, SmallestExists
<1>3. k \in 0..n /\ k \in 0..m /\ f[k] # g[k] /\ k \in Nat
  BY <1>2
<1>4. /\ f[k] = IF k = 0 THEN Root ELSE Included(f[k - 1], c[k])
      /\ g[k] = IF k = 0 THEN Root ELSE Included(g[k - 1], d[k])
  BY <1>3 DEF Trace
<1>5. k # 0 /\ k - 1 \in 0..n /\ ~(k <= k - 1) /\ c[k] = d[k]
  BY <1>3, <1>4
<1>6. f[k - 1] = g[k - 1]
  BY <1>2, <1>5
<1> QED
  BY <1>3, <1>4, <1>5, <1>6

\* The function that Follow chooses is such a trace.
LEMMA FollowTrace ==
  ASSUME NEW c, NEW n \in Nat
  PROVE  \E f : Trace(f, c, n) /\ Follow(c, n) = f[n]
<1>1. \E f : f = [k \in 0..n |-> IF k = 0 THEN Root ELSE Included(f[k - 1], c[k])]
  BY TraceExists DEF Trace
<1>2. \E f : /\ Follow(c, n) = f[n]
            /\ f = [k \in 0..n |-> IF k = 0 THEN Root ELSE Included(f[k - 1], c[k])]
  BY <1>1 DEF Follow
<1> QED
  BY <1>2 DEF Trace

\* A chain starts at the root, and each position leads from one file to the next.
LEMMA FollowIs ==
  ASSUME NEW c, NEW n \in Nat
  PROVE  Follow(c, 0) = Root /\ Follow(c, n + 1) = Included(Follow(c, n), c[n + 1])
<1>1. Follow(c, 0) = Root
  <2>1. PICK f : Trace(f, c, 0) /\ Follow(c, 0) = f[0]
    BY FollowTrace
  <2> QED
    BY <2>1 DEF Trace
<1>2. PICK f : Trace(f, c, n) /\ Follow(c, n) = f[n]
  BY FollowTrace
<1>3. n + 1 \in Nat /\ n <= n + 1
  OBVIOUS
<1>4. PICK g : Trace(g, c, n + 1) /\ Follow(c, n + 1) = g[n + 1]
  BY <1>3, FollowTrace
<1>5. f[n] = g[n]
  <2>1. n \in 0..n
    OBVIOUS
  <2>2. \A k \in 0..n : f[k] = g[k]
    BY <1>2, <1>3, <1>4, TracesAgree
  <2> QED
    BY <2>1, <2>2
<1>6. n + 1 \in 0..(n + 1) /\ n + 1 # 0 /\ n + 1 - 1 = n
  OBVIOUS
<1>7. g[n + 1] = Included(g[n + 1 - 1], c[n + 1])
  BY <1>4, <1>6 DEF Trace
<1> QED
  BY <1>1, <1>2, <1>4, <1>5, <1>6, <1>7

\* Chains that begin alike lead alike.
LEMMA FollowAgrees ==
  ASSUME NEW c, NEW d, NEW n \in Nat, \A k \in 1..n : c[k] = d[k]
  PROVE  Follow(c, n) = Follow(d, n)
<1>1. PICK f : Trace(f, c, n) /\ Follow(c, n) = f[n]
  BY FollowTrace
<1>2. PICK g : Trace(g, d, n) /\ Follow(d, n) = g[n]
  BY FollowTrace
<1>3. n \in 0..n /\ n <= n
  OBVIOUS
<1>4. \A k \in 0..n : f[k] = g[k]
  BY <1>1, <1>2, <1>3, TracesAgree
<1> QED
  BY <1>1, <1>2, <1>3, <1>4

\* What a chain leads to depends on the files alone.
LEMMA FollowStays ==
  ASSUME disk' = disk, NEW c, NEW n \in Nat
  PROVE  Follow(c, n)' = Follow(c, n)
  BY DEF Follow, Included

\* A position leads from a file, at one of its resources.
LEMMA StepFrom ==
  ASSUME NEW c, NEW n \in Nat, Follow(c, n + 1) # Nowhere
  PROVE  Follow(c, n) \in DOMAIN disk /\ c[n + 1] \in DOMAIN disk[Follow(c, n)].resources
  BY FollowIs DEF Included

\* A chain that leads anywhere does so all along.
LEMMA LeadsAlong ==
  ASSUME NEW c, NEW n \in Nat, NEW k \in 0..n, disk \in Disks, Follow(c, n) # Nowhere
  PROVE  Follow(c, k) # Nowhere
<1> SUFFICES ASSUME Follow(c, k) = Nowhere PROVE FALSE
  OBVIOUS
<1> DEFINE T == {m \in Nat : m >= k /\ Follow(c, m) # Nowhere}
<1>1. PICK m \in T : \A j \in T : m <= j
  <2>1. T \in SUBSET Nat /\ T # {}
    OBVIOUS
  <2> QED
    BY <2>1, SmallestExists
<1>2. m \in Nat /\ m >= k /\ m # k /\ Follow(c, m) # Nowhere
  BY <1>1
<1>3. m - 1 \in Nat /\ m - 1 >= k /\ ~(m <= m - 1) /\ m - 1 + 1 = m
  BY <1>2
<1>4. Follow(c, m - 1) = Nowhere
  BY <1>1, <1>3
<1>5. Follow(c, m) = Included(Nowhere, c[m])
  BY <1>3, <1>4, FollowIs
<1> QED
  BY <1>2, <1>5, ResourcesAssumption DEF Included

\* The chains, of whatever length.
Walks == {c \in Seq(Nat \ {0}) : End(c) # Nowhere}

\* Each position of a walk is one of the resources of the file it comes to.
LEMMA WalkSteps ==
  ASSUME disk \in Disks, NEW c \in Walks, NEW k \in 1..Len(c)
  PROVE  /\ Follow(c, k - 1) \in DOMAIN disk
         /\ c[k] \in DOMAIN disk[Follow(c, k - 1)].resources
<1>1. Len(c) \in Nat /\ Follow(c, Len(c)) # Nowhere
  BY DEF Walks, End
<1>2. k \in 0..Len(c) /\ k - 1 \in Nat /\ k - 1 + 1 = k
  BY <1>1
<1>3. Follow(c, k) # Nowhere
  BY <1>1, <1>2, LeadsAlong
<1> QED
  BY <1>2, <1>3, StepFrom

\* The chains of LoadedExactly are the walks that are short enough.
LEMMA ChainsAreWalks ==
  ASSUME disk \in Disks
  PROVE  /\ Chains \subseteq Walks
         /\ \A c \in Walks : Len(c) <= Cardinality(DOMAIN disk) => c \in Chains
<1>1. Cardinality(DOMAIN disk) \in Nat
  BY ResourcesAssumption, FS_CardinalityType
<1>2. Positions \subseteq Nat \ {0}
  BY ResourcesAssumption DEF Positions
<1>3. ASSUME NEW c \in Chains PROVE c \in Walks
  <2>1. PICK m \in 0..Cardinality(DOMAIN disk) : c \in [1..m -> Positions]
    BY <1>3 DEF Chains, SeqOf
  <2>2. m \in Nat /\ c \in [1..m -> Nat \ {0}]
    <3>1. m \in Nat
      BY <1>1, <2>1
    <3>2. \A k \in 1..m : c[k] \in Nat \ {0}
      BY <1>2, <2>1
    <3> QED
      BY <2>1, <3>1, <3>2
  <2>3. c \in Seq(Nat \ {0})
    BY <2>2
  <2> QED
    BY <1>3, <2>3 DEF Chains, Walks
<1>4. ASSUME NEW c \in Walks, Len(c) <= Cardinality(DOMAIN disk) PROVE c \in Chains
  <2>1. /\ Len(c) \in 0..Cardinality(DOMAIN disk) /\ DOMAIN c = 1..Len(c)
        /\ c \in [1..Len(c) -> Nat \ {0}]
    BY <1>1, <1>4 DEF Walks
  <2>2. \A k \in 1..Len(c) : c[k] \in Positions
    BY <1>4, WalkSteps DEF Positions
  <2>3. c \in [1..Len(c) -> Positions]
    BY <2>1, <2>2
  <2> QED
    BY <1>4, <2>1, <2>3 DEF Chains, SeqOf, Walks
<1> QED
  BY <1>3, <1>4

-----------------------------------------------------------------------------
(* What has been visited *)

\* A depth first search that is at p has been at c: on the way to p, or before it.
Been(c, p) ==
  \/ Len(c) < Len(p) /\ \A k \in 1..Len(c) : c[k] = p[k]
  \/ \E i \in 1..Len(p) : i <= Len(c) /\ c[i] < p[i] /\ \A k \in 1..(i - 1) : c[k] = p[k]

\* Going down visits where it was.
LEMMA BeenDown ==
  ASSUME NEW p \in Seq(Nat), NEW c \in Seq(Nat \ {0}), NEW q \in Seq(Nat),
         Len(q) = Len(p) + 1, q[Len(p) + 1] = 1, \A k \in 1..Len(p) : q[k] = p[k]
  PROVE  Been(c, q) <=> Been(c, p) \/ c = p
<1> DEFINE n == Len(p)
<1>1. n \in Nat /\ Len(c) \in Nat /\ Len(q) = n + 1
  OBVIOUS
<1>2. \A k \in 1..Len(q) : k \in 1..n \/ k = n + 1
  BY <1>1
<1>3. ASSUME Len(c) < Len(q) /\ \A k \in 1..Len(c) : c[k] = q[k] PROVE Been(c, p) \/ c = p
  <2>1. \A k \in 1..Len(c) : k \in 1..n
    BY <1>1, <1>3
  <2>2. \A k \in 1..Len(c) : c[k] = p[k]
    BY <1>3, <2>1
  <2>3. CASE Len(c) < n
    BY <2>2, <2>3 DEF Been
  <2>4. CASE ~(Len(c) < n)
    <3>1. Len(c) = n
      BY <1>1, <1>3, <2>4
    <3> QED
      <4>1. c \in Seq(Nat)
        OBVIOUS
      <4> QED
        BY <2>2, <3>1, <4>1, SeqEqual
  <2> QED
    BY <2>3, <2>4
<1>4. ASSUME NEW i \in 1..Len(q), i <= Len(c) /\ c[i] < q[i] /\ \A k \in 1..(i - 1) : c[k] = q[k]
      PROVE  Been(c, p)
  <2>1. i \in 1..Len(c) /\ c[i] \in Nat /\ c[i] # 0
    BY <1>1, <1>4
  <2>2. i \in 1..n /\ \A k \in 1..(i - 1) : k \in 1..n
    BY <1>1, <1>2, <1>4, <2>1
  <2> QED
    BY <1>4, <2>2 DEF Been
<1>5. ASSUME Been(c, p) PROVE Been(c, q)
  <2>1. CASE Len(c) < n /\ \A k \in 1..Len(c) : c[k] = p[k]
    <3>1. Len(c) < Len(q) /\ \A k \in 1..Len(c) : k \in 1..n
      BY <1>1, <2>1
    <3> QED
      BY <2>1, <3>1 DEF Been
  <2>2. ASSUME NEW i \in 1..n, i <= Len(c) /\ c[i] < p[i] /\ \A k \in 1..(i - 1) : c[k] = p[k]
        PROVE  Been(c, q)
    <3>1. i \in 1..Len(q) /\ \A k \in 1..(i - 1) : k \in 1..n
      BY <1>1, <2>2
    <3> QED
      BY <2>2, <3>1 DEF Been
  <2> QED
    BY <1>5, <2>1, <2>2 DEF Been
<1>6. ASSUME c = p PROVE Been(c, q)
  BY <1>1, <1>6 DEF Been
<1> QED
  BY <1>3, <1>4, <1>5, <1>6 DEF Been

\* Going up, past the last there was, and on visits nothing.
LEMMA BeenUp ==
  ASSUME NEW p \in Seq(Nat), NEW q \in Seq(Nat), NEW c \in Seq(Nat \ {0}), NEW n \in Nat,
         n >= 1, Len(p) = n + 1, Len(q) = n, q[n] = p[n] + 1, \A k \in 1..(n - 1) : q[k] = p[k],
         Len(c) > n /\ (\A k \in 1..n : c[k] = p[k]) => c[n + 1] < p[n + 1]
  PROVE  Been(c, q) <=> Been(c, p)
<1>1. Len(c) \in Nat /\ n \in 1..n /\ n \in 1..Len(p) /\ n + 1 \in 1..Len(p) /\ n + 1 - 1 = n
  OBVIOUS
<1>2. /\ \A k \in 1..n : k \in 1..(n - 1) \/ k = n
      /\ \A k \in 1..(n - 1) : k \in 1..n
      /\ \A k \in 1..Len(p) : k \in 1..(n - 1) \/ k = n \/ k = n + 1
  BY <1>1
<1>3. p[n] \in Nat /\ \A k \in 1..Len(c) : c[k] \in Nat
  BY <1>1
<1>4. ASSUME Len(c) < n /\ \A k \in 1..Len(c) : c[k] = q[k] PROVE Been(c, p)
  <2>1. Len(c) < Len(p) /\ \A k \in 1..Len(c) : k \in 1..(n - 1)
    BY <1>1, <1>4
  <2> QED
    BY <1>4, <2>1 DEF Been
<1>5. ASSUME NEW i \in 1..n, i <= Len(c) /\ c[i] < q[i] /\ \A k \in 1..(i - 1) : c[k] = q[k]
      PROVE  Been(c, p)
  <2>1. i \in 1..Len(p) /\ i \in 1..Len(c) /\ \A k \in 1..(i - 1) : k \in 1..(n - 1)
    BY <1>1, <1>5
  <2>2. \A k \in 1..(i - 1) : c[k] = p[k]
    BY <1>5, <2>1
  <2>3. CASE c[i] < p[i]
    BY <1>5, <2>1, <2>2, <2>3 DEF Been
  <2>4. CASE ~(c[i] < p[i])
    <3>1. i = n /\ c[n] = p[n]
      <4>1. CASE i \in 1..(n - 1)
        <5>1. q[i] = p[i]
          BY <4>1
        <5> QED
          BY <1>5, <2>4, <5>1
      <4>2. CASE i = n
        <5>1. c[n] < p[n] + 1 /\ ~(c[n] < p[n])
          BY <1>5, <2>4, <4>2
        <5>2. c[n] \in Nat /\ p[n] \in Nat
          BY <1>3, <2>1, <4>2
        <5>3. \A x, y \in Nat : x < y + 1 /\ ~(x < y) => x = y
          OBVIOUS
        <5> QED
          BY <4>2, <5>1, <5>2, <5>3
      <4> QED
        BY <1>2, <1>5, <4>1, <4>2
    <3>2. \A k \in 1..n : c[k] = p[k]
      BY <1>2, <2>2, <3>1
    <3>3. CASE Len(c) = n
      BY <1>1, <3>2, <3>3 DEF Been
    <3>4. CASE Len(c) # n
      <4>1. Len(c) > n /\ n + 1 <= Len(c)
        <5>1. n <= Len(c)
          BY <1>5, <3>1
        <5>2. \A x, y \in Nat : x <= y /\ y # x => y > x /\ x + 1 <= y
          OBVIOUS
        <5> QED
          BY <1>1, <3>4, <5>1, <5>2
      <4>2. PICK m \in 1..Len(p) : m = n + 1
        BY <1>1
      <4>3. m <= Len(c) /\ c[m] < p[m]
        BY <3>2, <4>1, <4>2
      <4>4. \A k \in 1..(m - 1) : c[k] = p[k]
        BY <1>1, <3>2, <4>2
      <4> QED
        BY <4>3, <4>4 DEF Been
    <3> QED
      BY <3>3, <3>4
  <2> QED
    BY <2>3, <2>4
<1>6. ASSUME n <= Len(c), c[n] < q[n], \A k \in 1..(n - 1) : c[k] = p[k]
      PROVE  Been(c, q)
  <2>1. n \in 1..Len(q) /\ \A k \in 1..(n - 1) : c[k] = q[k]
    BY <1>1, <1>6
  <2> QED
    BY <1>6, <2>1 DEF Been
<1>7. ASSUME Len(c) < n + 1 /\ \A k \in 1..Len(c) : c[k] = p[k] PROVE Been(c, q)
  <2>1. CASE Len(c) < n
    <3>1. \A k \in 1..Len(c) : k \in 1..(n - 1)
      BY <1>1, <2>1
    <3> QED
      BY <1>7, <2>1, <3>1 DEF Been
  <2>2. CASE ~(Len(c) < n)
    <3>1. Len(c) = n /\ n <= Len(c)
      BY <1>1, <1>7, <2>2
    <3>2. c[n] < q[n] /\ \A k \in 1..(n - 1) : c[k] = p[k]
      BY <1>1, <1>2, <1>3, <1>7, <3>1
    <3> QED
      BY <1>6, <3>1, <3>2
  <2> QED
    BY <2>1, <2>2
<1>8. ASSUME NEW i \in 1..(n + 1), i <= Len(c) /\ c[i] < p[i] /\ \A k \in 1..(i - 1) : c[k] = p[k]
      PROVE  Been(c, q)
  <2>1. CASE i \in 1..(n - 1)
    <3>1. i \in 1..n /\ \A k \in 1..(i - 1) : k \in 1..(n - 1)
      BY <1>1, <2>1
    <3> QED
      BY <1>8, <2>1, <3>1 DEF Been
  <2>2. CASE i = n
    <3>1. c[n] < q[n]
      BY <1>1, <1>3, <1>8, <2>2
    <3> QED
      BY <1>6, <1>8, <2>2, <3>1
  <2>3. CASE i = n + 1
    <3>1. n <= Len(c) /\ \A k \in 1..n : c[k] = p[k]
      BY <1>1, <1>8, <2>3
    <3>2. c[n] < q[n] /\ \A k \in 1..(n - 1) : c[k] = p[k]
      BY <1>1, <1>2, <1>3, <3>1
    <3> QED
      BY <1>6, <3>1, <3>2
  <2> QED
    BY <1>2, <2>1, <2>2, <2>3
<1> QED
  BY <1>4, <1>5, <1>7, <1>8 DEF Been

-----------------------------------------------------------------------------
(* Resources: loading visits every chain *)

\* The position that loading is at, in each file on the stack.
Here ==
  [i \in 1..Len(stack) |-> Len(disk[stack[i].file].resources) - Len(stack[i].todo) + 1]

\* The stack is a chain, and each of its files has the resources from its position on to do.
Along(p) ==
  \A i \in 1..Len(stack) :
    /\ Follow(p, i - 1) = stack[i].file
    /\ p[i] \in Nat \ {0}
    /\ \A k \in 1..Len(stack[i].todo) :
         stack[i].todo[k] = disk[stack[i].file].resources[p[i] + k - 1]

PathInv == \A p : p = Here => Along(p)

\* The chains that loading has come to, the last of them included.
Visited(c) == load = "loaded" \/ (load = "loading" /\ Been(c, Here))

\* The walks visited so far were fit to be loaded, and the sources are their apps.
SeenInv ==
  /\ \A c \in Walks : Visited(c) =>
       /\ End(c) \in DOMAIN disk /\ Valid(End(c)) /\ Len(c) <= Cardinality(DOMAIN disk)
       /\ \A k \in 0..(Len(c) - 1) : Follow(c, k) # End(c)
  /\ \A c, d \in Walks : Visited(c) /\ Visited(d) =>
       c = d \/ DOMAIN disk[End(c)].apps \cap DOMAIN disk[End(d)].apps = {}
  /\ load \notin Failures =>
       \A id : id \in DOMAIN sources <=>
         \E c \in Walks : Visited(c) /\ id \in DOMAIN disk[End(c)].apps

\* Where loading fails there is what it says.
FailInv == load \in Failures => ~Loadable /\ (load = "circular" => Cyclic)

GraphInv == PathInv /\ SeenInv /\ FailInv

\* What the stack holds, in terms of the files.
LEMMA StackTypes ==
  ASSUME LoadInv
  PROVE  /\ disk \in Disks /\ Len(stack) \in Nat
         /\ \A i \in 1..Len(stack) :
              /\ stack[i].file \in DOMAIN disk /\ stack[i].todo \in Seq(STRING)
              /\ disk[stack[i].file].resources \in Seq(STRING)
         /\ Len(stack) <= Cardinality(DOMAIN disk)
         /\ load = "loading" => Len(stack) >= 1
<1>1. disk \in Disks /\ stack \in Seq(Frame) /\ (load = "loading" => stack # <<>>)
  BY DEF LoadInv, StackInv
<1>2. Len(stack) \in Nat /\ \A i \in 1..Len(stack) : stack[i] \in Frame
  BY <1>1
<1>3. \A i \in 1..Len(stack) : stack[i].file \in DOMAIN disk /\ stack[i].todo \in Seq(STRING)
  BY <1>2 DEF Frame
<1>4. \A f \in DOMAIN disk : disk[f].resources \in Seq(STRING)
  BY <1>1, ResourcesAssumption
<1>5. load = "loading" => Len(stack) >= 1
  BY <1>1, <1>2
<1> QED
  BY <1>1, <1>2, <1>3, <1>4, <1>5, LoadTypes DEF LoadTypeOK

\* What is said of the files stays so while these do.
LEMMA GraphStays ==
  ASSUME disk \in Disks, disk' = disk, strict' = strict
  PROVE  /\ \A c, k : k \in Nat => Follow(c, k)' = Follow(c, k)
         /\ \A c : Len(c) \in Nat => End(c)' = End(c)
         /\ \A f : Valid(f)' = Valid(f)
         /\ Walks' = Walks /\ Chains' = Chains /\ Loadable' = Loadable /\ Cyclic' = Cyclic
<1>1. \A c : \A n \in Nat : Follow(c, n)' = Follow(c, n)
  BY FollowStays
<1>2. \A c : Len(c) \in Nat => End(c)' = End(c)
  BY <1>1 DEF End
<1>3. \A f : Valid(f)' = Valid(f)
  BY DEF Valid
<1>4. Walks' = Walks
  <2>1. \A c \in Seq(Nat \ {0}) : End(c)' = End(c)
    BY <1>2
  <2> QED
    BY <2>1 DEF Walks
<1>5. Chains' = Chains
  <2>1. Positions' = Positions
    BY DEF Positions
  <2>2. \A c \in SeqOf(Positions, Cardinality(DOMAIN disk)) : End(c)' = End(c)
    <3> SUFFICES ASSUME NEW c \in SeqOf(Positions, Cardinality(DOMAIN disk))
                 PROVE  End(c)' = End(c)
      OBVIOUS
    <3>1. Cardinality(DOMAIN disk) \in Nat
      BY ResourcesAssumption, FS_CardinalityType
    <3>2. PICK m \in 0..Cardinality(DOMAIN disk) : c \in [1..m -> Positions]
      BY DEF SeqOf
    <3>3. m \in Nat /\ Len(c) = m
      BY <3>1, <3>2
    <3> QED
      BY <1>2, <3>3
  <2> QED
    BY <2>1, <2>2 DEF Chains
<1> QED
  BY <1>1, <1>2, <1>3, <1>4, <1>5 DEF Loadable, Cyclic


\* Where loading is, is a chain.
LEMMA HereIsChain ==
  ASSUME LoadInv, PathInv
  PROVE  Here \in Seq(Nat \ {0}) /\ Len(Here) = Len(stack) /\ Along(Here)
<1>1. Along(Here)
  BY DEF PathInv
<1>2. Len(stack) \in Nat /\ \A i \in 1..Len(stack) : Here[i] \in Nat \ {0}
  BY <1>1, StackTypes DEF Along
<1>3. Here \in [1..Len(stack) -> Nat \ {0}]
  BY <1>2 DEF Here
<1> QED
  BY <1>1, <1>2, <1>3

\* Of what was visited, the apps are among the sources.
LEMMA SeenInSources ==
  ASSUME SeenInv, load \notin Failures, NEW c \in Walks, Visited(c)
  PROVE  DOMAIN disk[End(c)].apps \subseteq DOMAIN sources
  BY DEF SeenInv

\* Loading a file visits the chain to it.
LEMMA PushSees ==
  ASSUME LoadInv, LoadInv', GraphInv, NEW file \in DOMAIN disk, Push(file), load' = "loading",
         disk' = disk, strict' = strict, Valid(file), ~OnStack(file),
         load \in {"start", "loading"}, DOMAIN disk[file].apps \cap DOMAIN sources = {},
         NEW p, p = Here, Follow(p, Len(stack)) = file
  PROVE  GraphInv'
<1> DEFINE n == Len(stack)
           N == Cardinality(DOMAIN disk)
           top == [file |-> file, todo |-> disk[file].resources]
<1>1. /\ disk \in Disks /\ n \in Nat /\ disk[file].resources \in Seq(STRING)
      /\ \A i \in 1..n : /\ stack[i].file \in DOMAIN disk /\ stack[i].todo \in Seq(STRING)
                         /\ disk[stack[i].file].resources \in Seq(STRING)
      /\ n <= N
  BY StackTypes, ResourcesAssumption
<1>2. stack \in Seq(Frame) /\ stack' = Append(stack, top)
  BY DEF LoadInv, StackInv, Push
<1>3. top.file = file /\ top.todo = disk[file].resources /\ top \in Frame
  BY <1>1 DEF Frame
<1> HIDE DEF top
<1>4. /\ Len(stack') = n + 1 /\ stack'[n + 1] = top
      /\ \A i \in 1..n : stack'[i] = stack[i]
  BY <1>2, <1>3
<1> HIDE DEF n
<1>5. \A i \in 1..(n + 1) : i \in 1..n \/ i = n + 1
  BY <1>1
<1>6. p \in Seq(Nat \ {0}) /\ Len(p) = n /\ p \in Seq(Nat) /\ Along(p)
  BY HereIsChain DEF GraphInv, n
<1>7. PICK q : q = Here'
  OBVIOUS
<1>8. ASSUME NEW i \in 1..n PROVE q[i] = p[i]
  <2>1. i \in 1..Len(stack') /\ i \in 1..Len(stack) /\ stack'[i] = stack[i]
    BY <1>1, <1>4 DEF n
  <2>2. p[i] = Len(disk[stack[i].file].resources) - Len(stack[i].todo) + 1
    BY <2>1 DEF Here
  <2>3. q[i] = Len(disk[stack'[i].file].resources) - Len(stack'[i].todo) + 1
    BY <1>7, <2>1 DEF Here
  <2> QED
    BY <2>1, <2>2, <2>3
<1>9. q[n + 1] = 1
  <2>1. n + 1 \in 1..(n + 1) /\ Len(disk[file].resources) \in Nat
    BY <1>1
  <2>2. q[n + 1] = Len(disk[stack'[n + 1].file].resources) - Len(stack'[n + 1].todo) + 1
    BY <1>4, <1>7, <2>1 DEF Here
  <2> QED
    BY <1>3, <1>4, <2>1, <2>2
<1>10. q \in Seq(Nat \ {0}) /\ q \in Seq(Nat) /\ Len(q) = n + 1
  <2>1. \A i \in 1..(n + 1) : q[i] \in Nat \ {0}
    <3>1. \A i \in 1..n : p[i] \in Nat \ {0}
      BY <1>6
    <3> QED
      BY <1>5, <1>8, <1>9, <3>1
  <2>2. q \in [1..(n + 1) -> Nat \ {0}]
    BY <1>4, <1>7, <2>1 DEF Here
  <2>3. n + 1 \in Nat
    BY <1>1
  <2> QED
    BY <2>2, <2>3
<1>11. Along(q)'
  <2> SUFFICES ASSUME NEW i \in 1..(n + 1)
               PROVE  /\ Follow(q, i - 1)' = stack'[i].file
                      /\ q[i] \in Nat \ {0}
                      /\ \A k \in 1..Len(stack'[i].todo) :
                           stack'[i].todo[k] = disk[stack'[i].file].resources[q[i] + k - 1]
    BY <1>4 DEF Along
  <2>1. i - 1 \in Nat /\ Follow(q, i - 1)' = Follow(q, i - 1)
    BY <1>1, FollowStays
  <2>2. Follow(q, i - 1) = Follow(p, i - 1)
    <3>1. \A k \in 1..(i - 1) : q[k] = p[k]
      BY <1>1, <1>8
    <3> QED
      BY <2>1, <3>1, FollowAgrees
  <2>3. q[i] \in Nat \ {0}
    BY <1>10
  <2>4. CASE i \in 1..n
    <3>1. /\ Follow(p, i - 1) = stack[i].file
          /\ \A k \in 1..Len(stack[i].todo) :
               stack[i].todo[k] = disk[stack[i].file].resources[p[i] + k - 1]
      BY <1>6, <2>4 DEF Along, n
    <3>2. stack'[i] = stack[i] /\ q[i] = p[i]
      BY <1>4, <1>8, <2>4
    <3> QED
      BY <2>1, <2>2, <2>3, <3>1, <3>2
  <2>5. CASE i = n + 1
    <3>1. Follow(p, n) = file /\ i - 1 = n
      BY <1>1, <2>5 DEF n
    <3>2. \A k \in 1..Len(disk[file].resources) : 1 + k - 1 = k
      BY <1>1
    <3> QED
      BY <1>3, <1>4, <1>9, <2>1, <2>2, <2>3, <2>5, <3>1, <3>2
  <2> QED
    BY <1>5, <2>4, <2>5
<1>12. PathInv'
  BY <1>7, <1>11 DEF PathInv
<1>13. p \in Walks /\ End(p) = file
  BY <1>1, <1>6, ResourcesAssumption DEF Walks, End, n
<1>14. ASSUME NEW c \in Walks PROVE Visited(c)' <=> Visited(c) \/ c = p
  <2>1. c \in Seq(Nat \ {0})
    BY DEF Walks
  <2>2. Been(c, q) <=> Been(c, p) \/ c = p
    BY <1>6, <1>8, <1>9, <1>10, <2>1, BeenDown
  <2>3. Visited(c)' <=> Been(c, q)
    BY <1>7 DEF Visited
  <2>4. Visited(c) <=> Been(c, p)
    <3>1. CASE load = "loading"
      BY <3>1 DEF Visited
    <3>2. CASE load = "start"
      <4>1. Len(c) \in Nat /\ Len(p) = 0
        BY <1>6, <2>1, <3>2 DEF LoadInv, StackInv, n
      <4> QED
        BY <3>2, <4>1 DEF Visited, Been
    <3> QED
      BY <3>1, <3>2
  <2> QED
    BY <2>2, <2>3, <2>4
<1>15. /\ Walks' = Walks /\ \A c \in Walks : End(c)' = End(c) /\ Len(c) \in Nat
       /\ \A f : Valid(f)' = Valid(f)
       /\ \A c, k : k \in Nat => Follow(c, k)' = Follow(c, k)
  BY <1>1, GraphStays DEF Walks
<1>16. load \notin Failures /\ load' \notin Failures
  BY DEF Failures
<1>17. DOMAIN sources' = DOMAIN sources \cup DOMAIN disk[file].apps
  BY DEF Push, Over
<1>18. SeenInv'
  <2>1. ASSUME NEW c \in Walks, Visited(c)'
        PROVE  /\ End(c) \in DOMAIN disk /\ Valid(End(c)) /\ Len(c) <= N
               /\ \A k \in 0..(Len(c) - 1) : Follow(c, k)' # End(c)
    <3>1. \A k \in 0..(Len(c) - 1) : k \in Nat /\ Follow(c, k)' = Follow(c, k)
      BY <1>15
    <3>2. CASE Visited(c)
      BY <3>1, <3>2 DEF GraphInv, SeenInv
    <3>3. CASE c = p
      <4>1. DOMAIN stack = 1..n
        BY <1>2 DEF n
      <4>2. \A i \in 1..n : stack[i].file # file
        BY <4>1 DEF OnStack
      <4>3. ASSUME NEW k \in 0..(n - 1) PROVE Follow(p, k) # file
        <5>1. k + 1 \in 1..n /\ k + 1 - 1 = k
          BY <1>1
        <5>2. Follow(p, k + 1 - 1) = stack[k + 1].file
          BY <1>6, <5>1 DEF Along, n
        <5> QED
          BY <4>2, <5>1, <5>2
      <4> QED
        BY <1>1, <1>6, <1>13, <3>1, <3>3, <4>3
    <3> QED
      BY <1>14, <2>1, <3>2, <3>3
  <2>2. ASSUME NEW c \in Walks, NEW d \in Walks, Visited(c)', Visited(d)', c # d
        PROVE  DOMAIN disk[End(c)].apps \cap DOMAIN disk[End(d)].apps = {}
    <3>1. CASE Visited(c) /\ Visited(d)
      BY <2>2, <3>1 DEF GraphInv, SeenInv
    <3>2. CASE Visited(c) /\ d = p
      BY <1>13, <1>16, <3>2, SeenInSources DEF GraphInv
    <3>3. CASE Visited(d) /\ c = p
      BY <1>13, <1>16, <3>3, SeenInSources DEF GraphInv
    <3> QED
      BY <1>14, <2>2, <3>1, <3>2, <3>3
  <2>3. ASSUME NEW id
        PROVE  id \in DOMAIN sources' <=>
                 \E c \in Walks : Visited(c)' /\ id \in DOMAIN disk[End(c)].apps
    <3>1. id \in DOMAIN sources <=> \E c \in Walks : Visited(c) /\ id \in DOMAIN disk[End(c)].apps
      BY <1>16 DEF GraphInv, SeenInv
    <3> QED
      BY <1>13, <1>14, <1>17, <3>1
  <2> QED
    BY <1>15, <2>1, <2>2, <2>3 DEF SeenInv
<1>19. FailInv'
  BY <1>16 DEF FailInv
<1> QED
  BY <1>12, <1>18, <1>19 DEF GraphInv

\* When a file is done, every walk through it went on at one of its resources.
LEMMA DoneWasLeft ==
  ASSUME LoadInv, NEW p, p = Here, Along(p), NEW n \in Nat, n >= 1, Len(stack) = n,
         stack[n].todo = <<>>, NEW c \in Walks, Len(c) >= n, \A k \in 1..(n - 1) : c[k] = p[k]
  PROVE  c[n] < p[n]
<1>1. /\ n - 1 \in Nat /\ n \in 1..n /\ Len(c) \in Nat /\ n \in 1..Len(c)
      /\ disk \in Disks /\ disk[stack[n].file].resources \in Seq(STRING)
  BY StackTypes DEF Walks
<1>2. Follow(c, n - 1) = stack[n].file
  <2>1. Follow(c, n - 1) = Follow(p, n - 1)
    BY <1>1, FollowAgrees
  <2> QED
    BY <1>1, <2>1 DEF Along
<1>3. c[n] \in DOMAIN disk[stack[n].file].resources
  BY <1>1, <1>2, WalkSteps
<1>4. p[n] = Len(disk[stack[n].file].resources) - 0 + 1
  BY <1>1 DEF Here
<1> QED
  BY <1>1, <1>3, <1>4

\* Returning visits nothing that was not visited, and at last everything was.
LEMMA ReturnSees ==
  ASSUME LoadInv, GraphInv, LoadReturn
  PROVE  GraphInv'
<1> DEFINE m == Len(stack)
<1>1. /\ load = "loading" /\ disk' = disk /\ strict' = strict /\ sources' = sources
      /\ disk \in Disks /\ m \in Nat /\ m >= 1 /\ stack[m].todo = <<>>
  BY StackTypes DEF LoadReturn, Declaring
<1>2. PICK p : p = Here
  OBVIOUS
<1>3. p \in Seq(Nat \ {0}) /\ p \in Seq(Nat) /\ Len(p) = m /\ Along(p)
  BY <1>2, HereIsChain DEF GraphInv
<1>4. /\ Walks' = Walks
      /\ \A c \in Walks : End(c)' = End(c) /\ Len(c) \in Nat /\ c \in Seq(Nat \ {0})
      /\ \A f : Valid(f)' = Valid(f)
      /\ \A c, k : k \in Nat => Follow(c, k)' = Follow(c, k)
  BY <1>1, GraphStays DEF Walks
<1>5. load \notin Failures /\ load' \notin Failures
  BY <1>1 DEF LoadReturn, Failures
<1>6. ASSUME \A c \in Walks : Visited(c)' <=> Visited(c) PROVE SeenInv'
  <2>1. ASSUME NEW c \in Walks, Visited(c)'
        PROVE  \A k \in 0..(Len(c) - 1) : Follow(c, k)' # End(c)
    <3>1. \A k \in 0..(Len(c) - 1) : k \in Nat /\ Follow(c, k)' = Follow(c, k)
      BY <1>4
    <3> QED
      BY <1>6, <2>1, <3>1 DEF GraphInv, SeenInv
  <2>2. \A c, d \in Walks : Visited(c)' /\ Visited(d)' =>
          c = d \/ DOMAIN disk[End(c)].apps \cap DOMAIN disk[End(d)].apps = {}
    BY <1>6 DEF GraphInv, SeenInv
  <2>3. ASSUME NEW id
        PROVE  id \in DOMAIN sources <=>
                 \E c \in Walks : Visited(c)' /\ id \in DOMAIN disk[End(c)].apps
    BY <1>5, <1>6 DEF GraphInv, SeenInv
  <2>4. \A c \in Walks : Visited(c)' =>
          End(c) \in DOMAIN disk /\ Valid(End(c)) /\ Len(c) <= Cardinality(DOMAIN disk)
    BY <1>6 DEF GraphInv, SeenInv
  <2> QED
    BY <1>1, <1>4, <2>1, <2>2, <2>3, <2>4 DEF SeenInv
<1>7. FailInv'
  BY <1>5 DEF FailInv
<1>8. CASE m = 1
  <2>1. load' = "loaded" /\ stack' = <<>>
    BY <1>8 DEF LoadReturn
  <2>2. \A c \in Walks : Visited(c)'
    BY <2>1 DEF Visited
  <2>3. ASSUME NEW c \in Walks PROVE Visited(c)
    <3>1. CASE Len(c) = 0
      <4>1. Len(c) < Len(p) /\ 1..Len(c) = {}
        BY <1>3, <1>8, <3>1
      <4> QED
        BY <1>1, <1>2, <4>1 DEF Visited, Been
    <3>2. CASE Len(c) # 0
      <4>1. Len(c) >= 1 /\ 1..(1 - 1) = {}
        BY <1>4, <3>2
      <4>2. c[1] < p[1]
        BY <1>1, <1>2, <1>3, <1>8, <4>1, DoneWasLeft
      <4>3. 1 \in 1..Len(p) /\ 1 <= Len(c)
        BY <1>3, <1>8, <4>1
      <4> QED
        BY <1>1, <1>2, <4>1, <4>2, <4>3 DEF Visited, Been
    <3> QED
      BY <3>1, <3>2
  <2>4. PathInv'
    <3>1. Len(stack') = 0 /\ 1..Len(stack') = {}
      BY <2>1
    <3> QED
      BY <3>1 DEF PathInv, Along
  <2> QED
    BY <1>6, <1>7, <2>2, <2>3, <2>4 DEF GraphInv
<1>9. CASE m # 1
  <2> HIDE DEF m
  <2>1. PICK n \in Nat : n >= 1 /\ m = n + 1
    <3>1. m - 1 \in Nat /\ m - 1 >= 1 /\ m = m - 1 + 1
      BY <1>1, <1>9
    <3> QED
      BY <3>1
  <2>2. /\ Len(stack') = n /\ load' = load
        /\ \A i \in 1..n : stack'[i].file = stack[i].file
        /\ \A i \in 1..(n - 1) : stack'[i] = stack[i]
        /\ stack[n].todo # <<>> /\ stack'[n].todo = Tail(stack[n].todo)
    BY <2>1, ReturnForm DEF m
  <2>3. \A i \in 1..n : i \in 1..m /\ (i \in 1..(n - 1) \/ i = n)
    BY <2>1
  <2>4. /\ n \in 1..n /\ n \in 1..m
        /\ stack[n].todo \in Seq(STRING) /\ disk[stack[n].file].resources \in Seq(STRING)
    BY <2>1, StackTypes DEF m
  <2>5. /\ Len(stack[n].todo) \in Nat /\ Len(stack[n].todo) >= 1
        /\ Len(stack'[n].todo) = Len(stack[n].todo) - 1
        /\ \A k \in 1..Len(stack'[n].todo) : stack'[n].todo[k] = stack[n].todo[k + 1]
    BY <2>2, <2>4, HeadTailProperties
  <2>6. PICK q : q = Here'
    OBVIOUS
  <2>7. \A i \in 1..(n - 1) : q[i] = p[i]
    <3> SUFFICES ASSUME NEW i \in 1..(n - 1) PROVE q[i] = p[i]
      OBVIOUS
    <3>1. i \in 1..n /\ i \in 1..m /\ stack'[i] = stack[i]
      BY <2>1, <2>2
    <3>2. p[i] = Len(disk[stack[i].file].resources) - Len(stack[i].todo) + 1
      BY <1>2, <3>1 DEF Here, m
    <3>3. q[i] = Len(disk[stack'[i].file].resources) - Len(stack'[i].todo) + 1
      BY <1>1, <2>2, <2>6, <3>1 DEF Here
    <3> QED
      BY <3>1, <3>2, <3>3
  <2>8. q[n] = p[n] + 1
    <3>1. /\ q[n] = Len(disk[stack[n].file].resources) - Len(stack'[n].todo) + 1
          /\ p[n] = Len(disk[stack[n].file].resources) - Len(stack[n].todo) + 1
      BY <1>1, <1>2, <2>2, <2>4, <2>6 DEF Here, m
    <3> QED
      BY <2>4, <2>5, <3>1
  <2>9. q \in Seq(Nat \ {0}) /\ q \in Seq(Nat) /\ Len(q) = n
    <3>1. \A i \in 1..m : p[i] \in Nat \ {0}
      BY <1>3
    <3>2. \A i \in 1..n : q[i] \in Nat \ {0}
      BY <2>3, <2>4, <2>7, <2>8, <3>1
    <3>3. q \in [1..n -> Nat \ {0}]
      BY <2>2, <2>6, <3>2 DEF Here
    <3> QED
      BY <3>3
  <2>10. Along(q)'
    <3> SUFFICES ASSUME NEW i \in 1..n
                 PROVE  /\ Follow(q, i - 1)' = stack'[i].file
                        /\ q[i] \in Nat \ {0}
                        /\ \A k \in 1..Len(stack'[i].todo) :
                             stack'[i].todo[k] = disk[stack'[i].file].resources[q[i] + k - 1]
      BY <1>1, <2>2 DEF Along
    <3>1. i - 1 \in Nat /\ Follow(q, i - 1)' = Follow(q, i - 1)
      BY <1>1, FollowStays
    <3>2. Follow(q, i - 1) = Follow(p, i - 1)
      <4>1. \A k \in 1..(i - 1) : q[k] = p[k]
        BY <2>7
      <4> QED
        BY <3>1, <4>1, FollowAgrees
    <3>3. /\ Follow(p, i - 1) = stack[i].file
          /\ \A k \in 1..Len(stack[i].todo) :
               stack[i].todo[k] = disk[stack[i].file].resources[p[i] + k - 1]
      BY <1>3, <2>3 DEF Along, m
    <3>4. q[i] \in Nat \ {0} /\ stack'[i].file = stack[i].file
      BY <2>2, <2>9
    <3>5. CASE i \in 1..(n - 1)
      BY <2>2, <2>7, <3>1, <3>2, <3>3, <3>4, <3>5
    <3>6. CASE i = n
      <4>1. ASSUME NEW k \in 1..Len(stack'[n].todo)
            PROVE  stack'[n].todo[k] = disk[stack[n].file].resources[q[n] + k - 1]
        <5>1. k + 1 \in 1..Len(stack[n].todo) /\ k \in Nat
          BY <2>5
        <5>2. stack[n].todo[k + 1] = disk[stack[n].file].resources[p[n] + (k + 1) - 1]
          BY <3>3, <3>6, <5>1
        <5>3. p[n] + (k + 1) - 1 = q[n] + k - 1
          <6>1. p[n] \in Nat
            BY <1>3, <2>4
          <6> QED
            BY <2>8, <5>1, <6>1
        <5> QED
          BY <2>5, <5>2, <5>3
      <4> QED
        BY <3>1, <3>2, <3>3, <3>4, <3>6, <4>1
    <3> QED
      BY <2>3, <3>5, <3>6
  <2>11. PathInv'
    BY <2>6, <2>10 DEF PathInv
  <2>12. ASSUME NEW c \in Walks PROVE Visited(c)' <=> Visited(c)
    <3>1. Len(c) > n /\ (\A k \in 1..n : c[k] = p[k]) => c[n + 1] < p[n + 1]
      <4> SUFFICES ASSUME Len(c) > n, \A k \in 1..n : c[k] = p[k] PROVE c[n + 1] < p[n + 1]
        OBVIOUS
      <4>1. Len(c) >= m /\ m - 1 = n
        BY <1>4, <2>1
      <4>2. c[m] < p[m]
        BY <1>1, <1>2, <1>3, <4>1, DoneWasLeft DEF m
      <4> QED
        BY <2>1, <4>2
    <3>2. Been(c, q) <=> Been(c, p)
      BY <1>3, <1>4, <2>1, <2>7, <2>8, <2>9, <3>1, BeenUp
    <3> QED
      BY <1>1, <1>2, <2>2, <2>6, <3>2 DEF Visited
  <2> QED
    BY <1>6, <1>7, <2>11, <2>12 DEF GraphInv
<1> QED
  BY <1>8, <1>9

\* The next resource leads on from where loading is.
LEMMA NextResource ==
  ASSUME LoadInv, PathInv, load = "loading", Declaring.todo # <<>>, NEW p, p = Here
  PROVE  LET path == Head(Declaring.todo)
         IN  /\ Follow(p, Len(stack)) = IF path \in DOMAIN Canonical THEN Canonical[path]
                                        ELSE Unresolved
             /\ path \in DOMAIN Canonical => Canonical[path] \in DOMAIN disk
<1> DEFINE n == Len(stack)
           path == Head(Declaring.todo)
           resources == disk[stack[n].file].resources
<1>1. /\ disk \in Disks /\ n \in Nat /\ n >= 1 /\ stack[n].file \in DOMAIN disk
      /\ stack[n].todo \in Seq(STRING) /\ resources \in Seq(STRING)
  BY StackTypes
<1>2. p \in Seq(Nat \ {0}) /\ Along(p)
  BY HereIsChain
<1>3. n - 1 \in Nat /\ n - 1 + 1 = n /\ n \in 1..n
  BY <1>1
<1>4. /\ Follow(p, n - 1) = stack[n].file /\ p[n] \in Nat \ {0}
      /\ \A k \in 1..Len(stack[n].todo) : stack[n].todo[k] = resources[p[n] + k - 1]
  BY <1>2, <1>3 DEF Along
<1>5. Len(stack[n].todo) \in Nat /\ Len(stack[n].todo) >= 1 /\ path = stack[n].todo[1]
  BY <1>1 DEF Declaring
<1>6. p[n] = Len(resources) - Len(stack[n].todo) + 1
  BY <1>3 DEF Here
<1>7. p[n] \in DOMAIN resources /\ resources[p[n]] = path
  <2>1. Len(resources) \in Nat /\ DOMAIN resources = 1..Len(resources)
    BY <1>1
  <2>2. \A a, b \in Nat : b >= 1 /\ a - b + 1 \in Nat \ {0} => a - b + 1 \in 1..a
    OBVIOUS
  <2>3. p[n] \in 1..Len(resources)
    BY <1>4, <1>5, <1>6, <2>1, <2>2
  <2>4. p[n] + 1 - 1 = p[n] /\ 1 \in 1..Len(stack[n].todo)
    BY <1>4, <1>5
  <2> QED
    BY <1>4, <1>5, <2>1, <2>3, <2>4
<1>8. Follow(p, n) = Included(stack[n].file, p[n])
  BY <1>3, <1>4, FollowIs
<1>9. path \in DOMAIN Canonical => Canonical[path] \in DOMAIN disk
  BY <1>1, <1>7, ResourcesAssumption DEF Range
<1> QED
  BY <1>1, <1>7, <1>8, <1>9 DEF Included

\* Failing has its reason in the files.
LEMMA FailsRightly ==
  ASSUME LoadInv, NEW why \in Failures, Fail(why), disk' = disk, strict' = strict,
         ~Loadable, why = "circular" => Cyclic, GraphInv
  PROVE  GraphInv'
<1>1. /\ load' = why /\ stack' = stack /\ load' \in Failures /\ load' \notin {"loading", "loaded"}
      /\ disk \in Disks
  BY StackTypes DEF Fail, Failures
<1>2. FailInv'
  BY <1>1, GraphStays DEF FailInv
<1>3. SeenInv'
  BY <1>1 DEF SeenInv, Visited
<1>4. PathInv'
  <2> SUFFICES ASSUME NEW p, p = Here' PROVE Along(p)'
    BY DEF PathInv
  <2>1. Here' = Here
    BY <1>1 DEF Here
  <2>2. Along(p)
    BY <2>1 DEF GraphInv, PathInv
  <2> SUFFICES ASSUME NEW i \in 1..Len(stack)
               PROVE  /\ Follow(p, i - 1)' = stack[i].file
                      /\ p[i] \in Nat \ {0}
                      /\ \A k \in 1..Len(stack[i].todo) :
                           stack[i].todo[k] = disk[stack[i].file].resources[p[i] + k - 1]
    BY <1>1 DEF Along
  <2>3. Follow(p, i - 1)' = Follow(p, i - 1)
    <3>1. i - 1 \in Nat
      BY StackTypes
    <3> QED
      BY <3>1, FollowStays
  <2> QED
    BY <2>2, <2>3 DEF Along
<1> QED
  BY <1>2, <1>3, <1>4 DEF GraphInv

\* Loading keeps to the chains.
LEMMA LoadSees ==
  ASSUME LoadInv, LoadInv', GraphInv, LoadNext
  PROVE  GraphInv'
<1>1. disk' = disk /\ strict' = strict /\ disk \in Disks /\ Len(stack) \in Nat
  BY StackTypes DEF LoadNext, LoadRoot, LoadResource, LoadReturn
<1>2. PICK p : p = Here
  OBVIOUS
<1>3. p \in Seq(Nat \ {0}) /\ Len(p) = Len(stack) /\ Along(p)
  BY <1>2, HereIsChain DEF GraphInv
<1>4. CASE LoadRoot
  <2>1. load = "start" /\ stack = <<>> /\ DOMAIN sources = {} /\ Len(stack) = 0
    BY <1>4 DEF LoadRoot, LoadInv, StackInv
  <2>2. Root \in DOMAIN disk /\ Follow(p, 0) = Root
    BY <1>1, FollowIs, ResourcesAssumption
  <2>3. CASE Valid(Root)
    <3>1. Push(Root) /\ load' = "loading" /\ ~OnStack(Root)
      BY <1>4, <2>1, <2>3 DEF LoadRoot, OnStack
    <3> QED
      BY <1>1, <1>2, <2>1, <2>2, <2>3, <3>1, PushSees
  <2>4. CASE ~Valid(Root)
    <3>1. p \in Walks /\ End(p) = Root /\ Len(p) <= Cardinality(DOMAIN disk)
      BY <1>1, <1>3, <2>1, <2>2, StackTypes, ResourcesAssumption DEF Walks, End
    <3>2. ~Loadable
      BY <1>1, <2>4, <3>1, ChainsAreWalks DEF Loadable
    <3> QED
      BY <1>1, <1>4, <2>4, <3>2, FailsRightly DEF LoadRoot, Failures
  <2> QED
    BY <2>3, <2>4
<1>5. CASE LoadResource
  <2> DEFINE path == Head(Declaring.todo)
             file == Canonical[path]
             n    == Len(stack)
  <2>1. load = "loading" /\ Declaring.todo # <<>>
    BY <1>5 DEF LoadResource
  <2>2. /\ Follow(p, n) = IF path \in DOMAIN Canonical THEN file ELSE Unresolved
        /\ path \in DOMAIN Canonical => file \in DOMAIN disk
    BY <1>2, <2>1, NextResource DEF GraphInv
  <2>3. End(p) = Follow(p, n) /\ Nowhere # Unresolved /\ End(p) # Nowhere
    <3>1. Nowhere \notin DOMAIN disk
      BY <1>1, ResourcesAssumption
    <3>2. Nowhere # Unresolved
      BY DEF Nowhere, Unresolved
    <3> QED
      BY <1>3, <2>2, <3>1, <3>2 DEF End
  <2>4. p \in Walks /\ p \in Chains
    BY <1>1, <1>3, <2>3, StackTypes, ChainsAreWalks DEF Walks
  <2>5. CASE path \notin DOMAIN Canonical
    <3>1. Fail("missing") /\ ~Loadable
      BY <1>5, <2>2, <2>3, <2>4, <2>5 DEF LoadResource, Loadable
    <3> QED
      BY <1>1, <3>1, FailsRightly DEF Failures
  <2>6. CASE path \in DOMAIN Canonical /\ OnStack(file)
    <3>1. Fail("circular")
      BY <1>5, <2>6 DEF LoadResource
    <3>2. Cyclic
      <4>1. DOMAIN stack = 1..n
        BY DEF LoadInv, StackInv
      <4>2. PICK i \in 1..n : stack[i].file = file
        BY <2>6, <4>1 DEF OnStack
      <4>3. Follow(p, i - 1) = End(p)
        BY <1>3, <2>2, <2>3, <2>6, <4>2 DEF Along
      <4>4. i - 1 \in 0..(Len(p) - 1)
        BY <1>1, <1>3
      <4> QED
        BY <2>4, <4>3, <4>4 DEF Cyclic
    <3> QED
      BY <1>1, <3>1, <3>2, FailsRightly DEF Failures, Loadable
  <2>7. CASE path \in DOMAIN Canonical /\ ~OnStack(file) /\ ~Valid(file)
    <3>1. Fail("invalid") /\ ~Loadable
      BY <1>5, <2>2, <2>3, <2>4, <2>7 DEF LoadResource, Loadable
    <3> QED
      BY <1>1, <3>1, FailsRightly DEF Failures
  <2>8. CASE /\ path \in DOMAIN Canonical /\ ~OnStack(file) /\ Valid(file)
             /\ DOMAIN disk[file].apps \cap DOMAIN sources # {}
    <3>1. Fail("duplicate")
      BY <1>5, <2>8 DEF LoadResource
    <3>2. PICK id \in DOMAIN disk[file].apps : id \in DOMAIN sources
      BY <2>8
    <3>3. PICK c \in Walks : Visited(c) /\ id \in DOMAIN disk[End(c)].apps
      BY <2>1, <3>2 DEF GraphInv, SeenInv, Failures
    <3>4. c \in Chains
      BY <1>1, <3>3, ChainsAreWalks DEF GraphInv, SeenInv
    <3>5. c # p
      <4>1. ~Been(p, p)
        BY <1>3 DEF Been
      <4> QED
        BY <1>2, <2>1, <3>3, <4>1 DEF Visited
    <3>6. ~Loadable
      BY <2>2, <2>3, <2>4, <2>8, <3>2, <3>3, <3>4, <3>5 DEF Loadable
    <3> QED
      BY <1>1, <3>1, <3>6, FailsRightly DEF Failures
  <2>9. CASE /\ path \in DOMAIN Canonical /\ ~OnStack(file) /\ Valid(file)
             /\ DOMAIN disk[file].apps \cap DOMAIN sources = {}
    <3>1. Push(file) /\ load' = "loading"
      BY <1>5, <2>1, <2>9 DEF LoadResource
    <3> QED
      BY <1>1, <1>2, <2>1, <2>2, <2>9, <3>1, PushSees
  <2> QED
    BY <2>5, <2>6, <2>7, <2>8, <2>9
<1>6. CASE LoadReturn
  BY <1>6, ReturnSees
<1> QED
  BY <1>4, <1>5, <1>6 DEF LoadNext

\* Nothing else touches it.
LEMMA GraphIdles ==
  ASSUME LoadInv, GraphInv, UNCHANGED loadVars
  PROVE  GraphInv'
<1>1. /\ UNCHANGED <<disk, strict, stack, sources, load>> /\ disk \in Disks /\ Here' = Here
      /\ Len(stack) \in Nat
  BY StackTypes DEF loadVars, Here
<1>2. /\ Walks' = Walks /\ \A c \in Walks : End(c)' = End(c) /\ Len(c) \in Nat
      /\ \A f : Valid(f)' = Valid(f)
      /\ \A c, k : k \in Nat => Follow(c, k)' = Follow(c, k)
      /\ Loadable' = Loadable /\ Cyclic' = Cyclic
  BY <1>1, GraphStays DEF Walks
<1>3. \A c : Visited(c)' <=> Visited(c)
  BY <1>1 DEF Visited
<1>4. ASSUME NEW c \in Walks, Visited(c)
      PROVE  \A k \in 0..(Len(c) - 1) : Follow(c, k)' # End(c)
  <2>1. \A k \in 0..(Len(c) - 1) : k \in Nat /\ Follow(c, k)' = Follow(c, k)
    BY <1>2
  <2> QED
    BY <1>4, <2>1 DEF GraphInv, SeenInv
<1>5. SeenInv'
  BY <1>1, <1>2, <1>3, <1>4 DEF GraphInv, SeenInv
<1>6. PathInv'
  <2> SUFFICES ASSUME NEW p, p = Here' PROVE Along(p)'
    BY DEF PathInv
  <2>1. Along(p)
    BY <1>1 DEF GraphInv, PathInv
  <2>2. \A i \in 1..Len(stack) : Follow(p, i - 1)' = Follow(p, i - 1)
    <3>1. \A i \in 1..Len(stack) : i - 1 \in Nat
      BY <1>1
    <3> QED
      BY <1>2, <3>1
  <2> QED
    BY <1>1, <2>1, <2>2 DEF Along
<1> QED
  BY <1>1, <1>2, <1>5, <1>6 DEF GraphInv, FailInv

-----------------------------------------------------------------------------
(* Endpoints and the tables of Normalize *)

\* The tables hold what the endpoints so far use.
TablesInv ==
  /\ ports = {e.port : e \in config}
  /\ hosts = UNION {HostNames(e) : e \in config}
  /\ paths = {RoutePath(e) : e \in {f \in config : f.path # Unset}}
  /\ listenPorts = {e.listenPort : e \in {f \in config : f.protocol = "tcp"}}

\* What one endpoint adds to the tables keeps them right.
LEMMA RegisterKeeps ==
  ASSUME TablesInv, NEW e, Register(e), config' = config \cup {e}
  PROVE  TablesInv'
<1>1. ports' = {f.port : f \in config'}
  BY DEF TablesInv, Register
<1>2. hosts' = UNION {HostNames(f) : f \in config'}
  BY DEF TablesInv, Register
<1>3. paths' = {RoutePath(f) : f \in {g \in config' : g.path # Unset}}
  BY DEF TablesInv, Register
<1>4. listenPorts' = {f.listenPort : f \in {g \in config' : g.protocol = "tcp"}}
  BY DEF TablesInv, Register
<1> QED
  BY <1>1, <1>2, <1>3, <1>4 DEF TablesInv

\* The tables tell of every conflict with an endpoint so far, and of no other.
LEMMA ClashIsConflict ==
  ASSUME TablesInv, NEW e, e \notin config
  PROVE  Clashes(e) <=> \/ UsesWrapperPort(e) \/ Conflict(e, e)
                        \/ \E f \in config : Conflict(e, f) \/ Conflict(f, e)
<1>1. e.port \in ports <=> \E f \in config : e.port = f.port
  BY DEF TablesInv
<1>2. e.port \in listenPorts <=> \E f \in config : f.protocol = "tcp" /\ f.listenPort = e.port
  BY DEF TablesInv
<1>3. HostNames(e) \cap hosts # {} <=> \E f \in config : HostNames(e) \cap HostNames(f) # {}
  BY DEF TablesInv
<1>4. RoutePath(e) \in paths <=> \E f \in config : f.path # Unset /\ RoutePath(f) = RoutePath(e)
  BY DEF TablesInv
<1>5. /\ e.listenPort \in ports <=> \E f \in config : e.listenPort = f.port
      /\ e.listenPort \in listenPorts
           <=> \E f \in config : f.protocol = "tcp" /\ f.listenPort = e.listenPort
  BY DEF TablesInv
<1>6. \A f \in config : HostNames(e) \cap HostNames(f) = HostNames(f) \cap HostNames(e)
  OBVIOUS
<1>7. UsesWrapperPort(e)
        <=> e.port = WrapperPort \/ (e.protocol = "tcp" /\ e.listenPort = WrapperPort)
  BY DEF UsesWrapperPort
<1>8. Conflict(e, e) <=> e.protocol = "tcp" /\ e.listenPort = e.port
  BY DEF Conflict
<1>9. Clashes(e) <=>
        \/ UsesWrapperPort(e) \/ Conflict(e, e)
        \/ \E f \in config :
             \/ e.port = f.port
             \/ f.protocol = "tcp" /\ f.listenPort = e.port
             \/ HostNames(e) \cap HostNames(f) # {}
             \/ e.path # Unset /\ f.path # Unset /\ RoutePath(f) = RoutePath(e)
             \/ e.protocol = "tcp" /\ e.listenPort = f.port
             \/ e.protocol = "tcp" /\ f.protocol = "tcp" /\ f.listenPort = e.listenPort
  BY <1>1, <1>2, <1>3, <1>4, <1>5, <1>7, <1>8 DEF Clashes
<1>10. \A f \in config :
         Conflict(e, f) \/ Conflict(f, e) <=>
             \/ e.port = f.port
             \/ f.protocol = "tcp" /\ f.listenPort = e.port
             \/ HostNames(e) \cap HostNames(f) # {}
             \/ e.path # Unset /\ f.path # Unset /\ RoutePath(f) = RoutePath(e)
             \/ e.protocol = "tcp" /\ e.listenPort = f.port
             \/ e.protocol = "tcp" /\ f.protocol = "tcp" /\ f.listenPort = e.listenPort
  BY <1>6 DEF Conflict
<1> QED
  BY <1>9, <1>10

\* An endpoint that fits and clashes with none so far can be served with them.
LEMMA SoundGrows ==
  ASSUME TablesInv, Sound(config), NEW e, e \notin config, Fits(e), ~Clashes(e)
  PROVE  Sound(config \cup {e})
  BY ClashIsConflict DEF Sound

\* One that does not fit, or clashes, cannot be served with them.
LEMMA ClashIsUnsound ==
  ASSUME TablesInv, NEW S, config \subseteq S, NEW e \in S, e \notin config,
         ~Fits(e) \/ Clashes(e)
  PROVE  ~Sound(S)
  BY ClashIsConflict DEF Sound

-----------------------------------------------------------------------------
(* Environments *)

\* The last of the first n files that assigns key does so with this value, or none does
\* and it is heron's.
FromLayer(app, n, key, value) ==
  \/ \E i \in 1..n :
       /\ key \in DOMAIN EnvFile[app.envFiles[i]] /\ value = EnvFile[app.envFiles[i]][key]
       /\ \A j \in 1..n : j > i => key \notin DOMAIN EnvFile[app.envFiles[j]]
  \/ /\ \A i \in 1..n : key \notin DOMAIN EnvFile[app.envFiles[i]]
     /\ value = Inherited[key]

FileKeys(app, n) == UNION {DOMAIN EnvFile[app.envFiles[i]] : i \in 1..n}

\* What has been read and resolved of the environment of app.
ResolvingInv(app) ==
  /\ read \in 0..Len(app.envFiles)
  /\ \A i \in 1..read : app.envFiles[i] \in DOMAIN EnvFile
  /\ DOMAIN base = DOMAIN Inherited \cup FileKeys(app, read)
  /\ \A key \in DOMAIN base : FromLayer(app, read, key, base[key])
  /\ inline \subseteq DOMAIN app.inline
  /\ ~FilesRead(app) => inline = DOMAIN app.inline
  /\ DOMAIN env = FileKeys(app, read) \cup (DOMAIN app.inline \ inline)
  /\ \A key \in DOMAIN app.inline \ inline :
       /\ Resolves(app.inline[key], base)
       /\ env[key] = Interpolate(app.inline[key], base)
  /\ \A key \in DOMAIN env \ (DOMAIN app.inline \ inline) : env[key] = base[key]

LEMMA ResolvingBegins ==
  ASSUME NEW app, app.envFiles \in Seq(STRING), BeginResolving(app)
  PROVE  ResolvingInv(app)'
<1>1. /\ base' = Inherited /\ env' = <<>> /\ read' = 0 /\ inline' = DOMAIN app.inline
      /\ Len(app.envFiles) \in Nat
  BY DEF BeginResolving
<1>2. 1..0 = {} /\ FileKeys(app, 0) = {}
  BY DEF FileKeys
<1>3. DOMAIN env' = {}
  BY <1>1
<1>4. \A key \in DOMAIN base' : FromLayer(app, read', key, base'[key])
  BY <1>1, <1>2 DEF FromLayer
<1>5. read' \in 0..Len(app.envFiles) /\ \A i \in 1..read' : app.envFiles[i] \in DOMAIN EnvFile
  BY <1>1, <1>2
<1>6. FileKeys(app, read') = {}
  BY <1>1, <1>2
<1>7. DOMAIN base' = DOMAIN Inherited \cup FileKeys(app, read')
  BY <1>1, <1>6
<1>8. DOMAIN app.inline \ inline' = {}
  BY <1>1
<1> QED
  BY <1>1, <1>3, <1>4, <1>5, <1>6, <1>7, <1>8 DEF ResolvingInv

\* A file goes over the layers below it.
LEMMA ReadKeeps ==
  ASSUME NEW app, app.envFiles \in Seq(STRING), ResolvingInv(app), ~FilesRead(app),
         NextFile(app) \in DOMAIN EnvFile, ReadEnvFile(app)
  PROVE  ResolvingInv(app)'
<1> DEFINE new == EnvFile[app.envFiles[read + 1]]
<1>1. /\ Len(app.envFiles) \in Nat /\ read \in Nat /\ read' = read + 1
      /\ read + 1 <= Len(app.envFiles) /\ read + 1 \in 1..read + 1
      /\ inline' = inline /\ inline = DOMAIN app.inline
  BY DEF ResolvingInv, FilesRead, ReadEnvFile
<1>2. \A i \in 1..read + 1 : i \in 1..read \/ i = read + 1
  BY <1>1
<1>3. \A i \in 1..read : i \in 1..read + 1 /\ read + 1 > i /\ ~(i > read + 1)
  BY <1>1
<1>4. base' = Over(new, base) /\ env' = Over(new, env) /\ app.envFiles[read + 1] \in DOMAIN EnvFile
  BY DEF ReadEnvFile, NextFile
<1>5. FileKeys(app, read + 1) = FileKeys(app, read) \cup DOMAIN new
  BY <1>1, <1>2, <1>3 DEF FileKeys
<1>6. /\ DOMAIN base' = DOMAIN base \cup DOMAIN new /\ DOMAIN env' = DOMAIN env \cup DOMAIN new
      /\ \A key \in DOMAIN new : base'[key] = new[key] /\ env'[key] = new[key]
      /\ \A key \in DOMAIN base \ DOMAIN new : base'[key] = base[key]
      /\ \A key \in DOMAIN env \ DOMAIN new : env'[key] = env[key]
  BY <1>4 DEF Over
<1>7. ASSUME NEW key \in DOMAIN base'
      PROVE  FromLayer(app, read + 1, key, base'[key])
  <2>1. CASE key \in DOMAIN new
    <3>1. \A j \in 1..read + 1 : ~(j > read + 1)
      BY <1>1
    <3> QED
      BY <1>1, <1>6, <2>1, <3>1 DEF FromLayer
  <2>2. CASE key \notin DOMAIN new
    <3>1. FromLayer(app, read, key, base'[key])
      BY <1>6, <1>7, <2>2 DEF ResolvingInv
    <3> QED
      BY <1>1, <1>2, <1>3, <2>2, <3>1 DEF FromLayer
  <2> QED
    BY <2>1, <2>2
<1>8. \A i \in 1..read + 1 : app.envFiles[i] \in DOMAIN EnvFile
  BY <1>2, <1>4 DEF ResolvingInv
<1>9. read' \in 0..Len(app.envFiles)
  BY <1>1
<1>10. \A key \in DOMAIN env' : env'[key] = base'[key]
  <2>1. DOMAIN env = FileKeys(app, read) /\ FileKeys(app, read) \subseteq DOMAIN base
    BY <1>1 DEF ResolvingInv
  <2>2. \A key \in DOMAIN env : env[key] = base[key]
    BY <1>1 DEF ResolvingInv
  <2> QED
    BY <1>6, <2>1, <2>2
<1> HIDE DEF new
<1> QED
  BY <1>1, <1>5, <1>6, <1>7, <1>8, <1>9, <1>10 DEF ResolvingInv

\* An inline entry refers to the files' variables and heron's, never to another entry.
LEMMA ResolveKeeps ==
  ASSUME NEW app, ResolvingInv(app), FilesRead(app), NEW key \in inline,
         Resolves(app.inline[key], Snapshot), ResolveInline(app, key)
  PROVE  ResolvingInv(app)'
<1> DEFINE value == Interpolate(app.inline[key], base)
<1>1. /\ inline' = inline \ {key} /\ base' = base /\ read' = read
      /\ env' = Over([k \in {key} |-> value], env)
      /\ Resolves(app.inline[key], base)
  BY DEF ResolveInline, Snapshot
<1> HIDE DEF value
<1>2. /\ DOMAIN env' = DOMAIN env \cup {key} /\ env'[key] = value
      /\ \A k \in DOMAIN env \ {key} : env'[k] = env[k]
  BY <1>1 DEF Over
<1>3. DOMAIN app.inline \ inline' = (DOMAIN app.inline \ inline) \cup {key}
  BY <1>1 DEF ResolvingInv
<1>4. \A k \in DOMAIN app.inline \ inline' :
        Resolves(app.inline[k], base) /\ env'[k] = Interpolate(app.inline[k], base)
  BY <1>1, <1>2, <1>3 DEF ResolvingInv, value
<1>5. \A k \in DOMAIN env' \ (DOMAIN app.inline \ inline') : env'[k] = base[k]
  BY <1>2, <1>3 DEF ResolvingInv
<1>6. inline' \subseteq DOMAIN app.inline /\ FilesRead(app)'
  BY <1>1 DEF ResolvingInv, FilesRead
<1>7. DOMAIN env' = FileKeys(app, read) \cup (DOMAIN app.inline \ inline')
  BY <1>2, <1>3 DEF ResolvingInv
<1> QED
  BY <1>1, <1>4, <1>5, <1>6, <1>7 DEF ResolvingInv

\* Once all files are read, a variable has the value that its layers give it.
LEMMA BaseIsLayered ==
  ASSUME NEW app, app.envFiles \in Seq(STRING), ResolvingInv(app), FilesRead(app)
  PROVE  /\ DOMAIN base = LayeredKeys(app.envFiles)
         /\ \A key \in DOMAIN base : base[key] = Layered(app.envFiles, key)
         /\ Readable(app)
<1> DEFINE files == app.envFiles
<1>1. Len(files) \in Nat /\ read = Len(files) /\ DOMAIN files = 1..Len(files)
  BY DEF FilesRead
<1>2. Readable(app)
  BY <1>1 DEF ResolvingInv, Readable, Range
<1>3. FileKeys(app, read) = UNION {DOMAIN EnvFile[f] : f \in Range(files)}
  BY <1>1 DEF FileKeys, Range
<1>4. DOMAIN base = LayeredKeys(files)
  BY <1>3 DEF ResolvingInv, LayeredKeys
<1>5. ASSUME NEW key \in DOMAIN base
      PROVE  base[key] = Layered(files, key)
  <2> DEFINE I == {i \in 1..Len(files) : key \in DOMAIN EnvFile[files[i]]}
             last == SelectLastInSeq(files, LAMBDA f : key \in DOMAIN EnvFile[f])
  <2>1. last = IF I # {} THEN Max(I) ELSE 0
    BY DEF SelectLastInSeq
  <2>2. FromLayer(app, Len(files), key, base[key])
    BY <1>1 DEF ResolvingInv
  <2>3. Layered(files, key) = IF last # 0 THEN EnvFile[files[last]][key] ELSE Inherited[key]
    BY DEF Layered
  <2> HIDE DEF last
  <2>4. CASE I = {}
    BY <2>1, <2>2, <2>3, <2>4 DEF FromLayer
  <2>5. CASE I # {}
    <3>1. I \in SUBSET (1..Len(files))
      OBVIOUS
    <3>2. last \in I /\ \A i \in I : i <= last
      BY <1>1, <2>1, <2>5, <3>1, LargestExists
    <3>3. PICK i \in I : base[key] = EnvFile[files[i]][key] /\ \A j \in I : ~(j > i)
      BY <2>2, <2>5 DEF FromLayer
    <3>4. last = i
      BY <1>1, <3>2, <3>3
    <3>5. last # 0
      BY <3>2
    <3> QED
      BY <2>3, <3>3, <3>4, <3>5
  <2> QED
    BY <2>4, <2>5
<1> QED
  BY <1>2, <1>4, <1>5

\* An entry that cannot be resolved could not be in any order.
LEMMA UnresolvedIsWrong ==
  ASSUME NEW app, app.envFiles \in Seq(STRING), ResolvingInv(app), FilesRead(app),
         NEW key \in inline, ~Resolves(app.inline[key], Snapshot)
  PROVE  ~Resolvable(app)
<1>1. DOMAIN base = LayeredKeys(app.envFiles)
  BY BaseIsLayered
<1>2. key \in DOMAIN app.inline
  BY DEF ResolvingInv
<1> QED
  BY <1>1, <1>2 DEF Resolves, Resolvable, IsSet, Snapshot

LEMMA UnreadIsWrong ==
  ASSUME NEW app, app.envFiles \in Seq(STRING), ResolvingInv(app), ~FilesRead(app),
         NextFile(app) \notin DOMAIN EnvFile
  PROVE  ~Resolvable(app)
<1>1. read + 1 \in DOMAIN app.envFiles
  BY DEF ResolvingInv, FilesRead
<1> QED
  BY <1>1 DEF NextFile, Resolvable, Readable, Range

\* When all entries are resolved, a command has the environment it should have.
LEMMA ResolvedAsExpected ==
  ASSUME NEW app, app.envFiles \in Seq(STRING), ResolvingInv(app), FilesRead(app), inline = {}
  PROVE  Resolvable(app) /\ MergeEnvironment(Inherited, env) = Expected(app)
<1> DEFINE files == app.envFiles
           merged == MergeEnvironment(Inherited, env)
           Value(token) == IF "text" \in DOMAIN token THEN <<token.text>>
                           ELSE IF token.key \in LayeredKeys(files) THEN Layered(files, token.key)
                           ELSE <<token.default>>
<1>1. /\ DOMAIN base = LayeredKeys(files) /\ Readable(app)
      /\ \A key \in DOMAIN base : base[key] = Layered(files, key)
  BY BaseIsLayered
<1>2. Resolvable(app)
  BY <1>1 DEF ResolvingInv, Resolvable, Resolves, IsSet
<1>3. \A key \in DOMAIN app.inline :
        Interpolate(app.inline[key], base)
          = FlattenSeq([i \in DOMAIN app.inline[key] |-> Value(app.inline[key][i])])
  <2> SUFFICES ASSUME NEW key \in DOMAIN app.inline
               PROVE  Interpolate(app.inline[key], base)
                        = FlattenSeq([i \in DOMAIN app.inline[key] |-> Value(app.inline[key][i])])
    OBVIOUS
  <2> DEFINE template == app.inline[key]
             Piece(token) == IF "text" \in DOMAIN token THEN <<token.text>>
                             ELSE IF token.key \in DOMAIN base THEN base[token.key]
                             ELSE <<token.default>>
  <2>1. \A token : Piece(token) = Value(token)
    BY <1>1
  <2>2. [i \in DOMAIN template |-> Piece(template[i])] = [i \in DOMAIN template |-> Value(template[i])]
    BY <2>1
  <2>3. Interpolate(template, base) = FlattenSeq([i \in DOMAIN template |-> Piece(template[i])])
    BY DEF Interpolate
  <2> QED
    BY <2>2, <2>3
<1>4. /\ DOMAIN merged = DOMAIN env \cup DOMAIN Inherited
      /\ \A key \in DOMAIN env : merged[key] = env[key]
      /\ \A key \in DOMAIN Inherited \ DOMAIN env : merged[key] = Inherited[key]
      /\ merged = [key \in DOMAIN merged |-> merged[key]]
  BY DEF MergeEnvironment, Over
<1>5. DOMAIN merged = LayeredKeys(files) \cup DOMAIN app.inline
  BY <1>1, <1>4 DEF ResolvingInv
<1>6. \A key \in DOMAIN app.inline : merged[key] = Interpolate(app.inline[key], base)
  BY <1>4 DEF ResolvingInv
<1>7. ASSUME NEW key \in LayeredKeys(files) \ DOMAIN app.inline
      PROVE  merged[key] = Layered(files, key)
  <2>1. CASE key \in DOMAIN env
    BY <1>1, <1>4, <1>7, <2>1 DEF ResolvingInv
  <2>2. CASE key \notin DOMAIN env
    <3>1. key \in DOMAIN Inherited /\ key \notin FileKeys(app, read) /\ key \in DOMAIN base
      BY <1>1, <1>7, <2>2 DEF ResolvingInv
    <3>2. FromLayer(app, read, key, base[key])
      BY <3>1 DEF ResolvingInv
    <3>3. base[key] = Inherited[key]
      BY <3>1, <3>2 DEF FromLayer, FileKeys
    <3> QED
      BY <1>1, <1>4, <2>2, <3>1, <3>3
  <2> QED
    BY <2>1, <2>2
<1>8. Expected(app) =
        [key \in LayeredKeys(files) \cup DOMAIN app.inline |->
           IF key \in DOMAIN app.inline
             THEN FlattenSeq([i \in DOMAIN app.inline[key] |-> Value(app.inline[key][i])])
             ELSE Layered(files, key)]
  BY DEF Expected
<1>9. merged = Expected(app)
  <2>1. \A key \in LayeredKeys(files) \cup DOMAIN app.inline :
          merged[key] = IF key \in DOMAIN app.inline
                          THEN FlattenSeq([i \in DOMAIN app.inline[key] |-> Value(app.inline[key][i])])
                          ELSE Layered(files, key)
    BY <1>3, <1>6, <1>7
  <2> HIDE DEF merged, Value
  <2> QED
    BY <1>4, <1>5, <1>8, <2>1
<1> QED
  BY <1>2, <1>9

-----------------------------------------------------------------------------
(* Apps *)

\* What Normalize asks of an app before its endpoints, and of it altogether.
Sane(id) == App(id).launch /\ NamesDiffer(App(id)) /\ OnePrimary(App(id))
Good(id) == Sane(id) /\ App(id).pwd /\ Resolvable(App(id))

Endpoints(id) == EndpointInputs(id, App(id))

\* The app being normalised.
Working == {id \in {current} : phase \in {"endpoints", "environment"}}

PhaseInv ==
  /\ phase \in {"load", "apps", "endpoints", "environment", "serving", "rejected"}
  /\ phase = "load" =>
       /\ load \notin Failures \cup {"loaded"}
       /\ pending = {} /\ DOMAIN envs = {} /\ config = {} /\ todo = {}
  /\ phase = "rejected" => load \in Failures \/ (load = "loaded" /\ ~Acceptable)
  /\ phase \notin {"load", "rejected"} => load = "loaded"
  /\ phase \in {"apps", "environment", "serving"} => todo = {}
  /\ phase = "serving" => pending = {}

\* Each app is waiting, being normalised or done with.
AppsInv ==
  /\ pending \cup DOMAIN envs \cup Working \subseteq DOMAIN sources
  /\ pending \cap DOMAIN envs = {} /\ Working \cap (pending \cup DOMAIN envs) = {}
  /\ phase # "rejected" /\ load = "loaded" =>
       DOMAIN sources = pending \cup DOMAIN envs \cup Working
  /\ \A id \in Working : Sane(id) /\ (phase = "environment" => App(id).pwd)
  /\ \A id \in DOMAIN envs : Good(id)
  /\ EnvironmentLayered
  /\ phase = "environment" => \A app \in {App(current)} : ResolvingInv(app)

\* What is registered of each.
EndpointsInv ==
  /\ \A id \in DOMAIN envs : Endpoints(id) \subseteq config
  /\ \A id \in Working : Endpoints(id) \subseteq config \cup todo /\ todo \subseteq Endpoints(id)
  /\ phase # "rejected" =>
       /\ \A e \in config : \E id \in DOMAIN envs \cup Working : e \in Endpoints(id)
       /\ config \cap todo = {}
  /\ IsFiniteSet(config) /\ TablesInv /\ Sound(config)

\* How far the apps are, in each phase.
NormalizingInv == LoadInv /\ PhaseInv /\ AppsInv /\ EndpointsInv

LEMMA AppTypes ==
  ASSUME LoadInv, NEW id \in DOMAIN sources
  PROVE  App(id).endpoints \subseteq EndpointConfig /\ App(id).envFiles \in Seq(STRING)
<1>1. disk \in Disks /\ sources[id] \in DOMAIN disk /\ id \in DOMAIN disk[sources[id]].apps
  BY DEF LoadInv, StackInv, SourcesInv
<1> QED
  BY <1>1, ConfigAssumption DEF App

LEMMA EndpointTypes ==
  ASSUME LoadInv, NEW id \in DOMAIN sources, NEW e \in Endpoints(id)
  PROVE  /\ e.app = id /\ e # NoRoute
         /\ e.path \in Seq(STRING) /\ e.includePrefix \in BOOLEAN
<1>1. App(id).endpoints \subseteq EndpointConfig
  BY AppTypes
<1>2. PICK f \in EndpointConfig :
        e = [app |-> id, name |-> Lower[f.name], primary |-> f.primary \/ App(id).endpoints = {f},
             protocol |-> f.protocol, path |-> f.path, host |-> f.host, port |-> f.port,
             listenPort |-> f.listenPort, includePrefix |-> f.includePrefix]
  BY <1>1 DEF Endpoints, EndpointInputs
<1>3. f.path \in Seq(STRING) /\ f.includePrefix \in BOOLEAN
  BY DEF EndpointConfig
<1>4. "path" \in DOMAIN e /\ "path" \notin DOMAIN NoRoute
  BY <1>2 DEF NoRoute
<1> QED
  BY <1>2, <1>3, <1>4

\* What was registered, and what is about to be, is of the apps.
LEMMA OfTheApps ==
  ASSUME NormalizingInv, phase # "rejected"
  PROVE  config \subseteq AllEndpoints /\ \A id \in Working : Endpoints(id) \subseteq AllEndpoints
<1>1. \A id \in DOMAIN sources : Endpoints(id) \subseteq AllEndpoints
  BY DEF AllEndpoints, Endpoints
<1>2. DOMAIN envs \cup Working \subseteq DOMAIN sources
  BY DEF NormalizingInv, AppsInv
<1> QED
  BY <1>1, <1>2 DEF NormalizingInv, EndpointsInv

\* A step of the apps leaves the files.
Settled == UNCHANGED <<disk, strict, stack, sources, load>>

\* What is said of the files alone stays.
LEMMA SettledStays ==
  ASSUME Settled
  PROVE  /\ LoadInv => LoadInv' 
         /\ Acceptable' = Acceptable /\ AllEndpoints' = AllEndpoints
         /\ \A id : App(id)' = App(id)
         /\ \A id : /\ Sane(id)' = Sane(id) /\ Good(id)' = Good(id)
                    /\ Endpoints(id)' = Endpoints(id)
<1>1. disk' = disk /\ strict' = strict /\ stack' = stack /\ sources' = sources /\ load' = load
  BY DEF Settled
<1>2. LoadInv => LoadInv'
  BY <1>1 DEF LoadInv, StackInv, SourcesInv, Frame
<1>3. \A id : App(id)' = App(id)
  BY <1>1 DEF App
<1>4. \A id : /\ Sane(id)' = Sane(id) /\ Good(id)' = Good(id) /\ Endpoints(id)' = Endpoints(id)
  BY <1>3 DEF Sane, Good, Endpoints
<1>5. Acceptable' = Acceptable /\ AllEndpoints' = AllEndpoints
  BY <1>1, <1>3 DEF Acceptable, AllEndpoints
<1> QED
  BY <1>2, <1>3, <1>4, <1>5

\* Normalize rejects what is not acceptable.
LEMMA RejectKeeps ==
  ASSUME NormalizingInv, Settled, phase' = "rejected", load = "loaded", ~Acceptable,
         UNCHANGED <<envs, config, todo, tableVars>>, pending' \subseteq pending
  PROVE  NormalizingInv'
<1>1. Working' = {}
  BY DEF Working
<1>2. /\ LoadInv' /\ ~Acceptable' /\ load' = "loaded" /\ sources' = sources
      /\ \A id : /\ App(id)' = App(id) /\ Good(id)' = Good(id)
                 /\ Endpoints(id)' = Endpoints(id)
  BY SettledStays DEF NormalizingInv, Settled
<1>3. PhaseInv'
  BY <1>2 DEF PhaseInv
<1>4. AppsInv'
  BY <1>1, <1>2 DEF NormalizingInv, AppsInv, EnvironmentLayered
<1>5. EndpointsInv'
  BY <1>1, <1>2 DEF NormalizingInv, EndpointsInv, tableVars, TablesInv
<1> QED
  BY <1>2, <1>3, <1>4, <1>5 DEF NormalizingInv

\* An app of which nothing can be wrong yet is taken up.
LEMMA BeginAppKeeps ==
  ASSUME NormalizingInv, NEW id \in pending, BeginApp(id)
  PROVE  NormalizingInv'
<1>1. /\ Settled /\ phase = "apps" /\ load = "loaded" /\ Working = {} /\ todo = {}
      /\ id \in DOMAIN sources /\ id \notin DOMAIN envs
      /\ pending' = pending \ {id} /\ current' = id
  BY DEF BeginApp, loadVars, Settled, NormalizingInv, PhaseInv, AppsInv, Working
<1>2. CASE Sane(id)
  <2>1. /\ phase' = "endpoints" /\ todo' = Endpoints(id)
        /\ UNCHANGED <<envs, config, tableVars, envVars>>
    BY <1>2 DEF BeginApp, Sane, Endpoints
  <2>2. Working' = {id}
    BY <1>1, <2>1 DEF Working
  <2>3. /\ LoadInv' /\ sources' = sources /\ load' = "loaded"
        /\ \A x : /\ App(x)' = App(x) /\ Sane(x)' = Sane(x) /\ Good(x)' = Good(x)
                  /\ Endpoints(x)' = Endpoints(x)
    BY <1>1, SettledStays DEF NormalizingInv, Settled
  <2>4. PhaseInv'
    BY <2>1, <2>3 DEF PhaseInv
  <2>5. AppsInv'
    <3>1. /\ pending' \cup DOMAIN envs' \cup Working' = pending \cup DOMAIN envs
          /\ pending' \cap DOMAIN envs' = {} /\ Working' \cap (pending' \cup DOMAIN envs') = {}
      BY <1>1, <2>1, <2>2 DEF NormalizingInv, AppsInv
    <3>2. EnvironmentLayered'
      BY <2>1, <2>3 DEF NormalizingInv, AppsInv, EnvironmentLayered
    <3> QED
      BY <1>1, <1>2, <2>1, <2>2, <2>3, <3>1, <3>2 DEF NormalizingInv, AppsInv
  <2>6. EndpointsInv'
    <3>1. TablesInv' /\ config' = config /\ envs' = envs
      BY <2>1 DEF NormalizingInv, EndpointsInv, tableVars, TablesInv
    <3>2. config \cap Endpoints(id) = {}
      <4> SUFFICES ASSUME NEW e \in config, e \in Endpoints(id) PROVE FALSE
        OBVIOUS
      <4>1. PICK x \in DOMAIN envs : e \in Endpoints(x)
        BY <1>1 DEF NormalizingInv, EndpointsInv
      <4>2. e.app = x /\ e.app = id
        BY <1>1, <4>1, EndpointTypes DEF NormalizingInv, AppsInv
      <4> QED
        BY <1>1, <4>1, <4>2
    <3> QED
      BY <1>1, <2>1, <2>2, <2>3, <3>1, <3>2 DEF NormalizingInv, EndpointsInv
  <2> QED
    BY <2>3, <2>4, <2>5, <2>6 DEF NormalizingInv
<1>3. CASE ~Sane(id)
  <2>1. Reject /\ ~Acceptable
    BY <1>1, <1>3 DEF BeginApp, Sane, Acceptable
  <2> QED
    BY <1>1, <2>1, RejectKeeps DEF Reject
<1> QED
  BY <1>2, <1>3

\* An endpoint is registered, or cannot be served with what is.
LEMMA EndpointKeeps ==
  ASSUME NormalizingInv, NEW e \in todo, NormalizeEndpoint(e)
  PROVE  NormalizingInv'
<1>1. /\ Settled /\ phase = "endpoints" /\ load = "loaded" /\ Working = {current}
      /\ pending' = pending /\ current' = current
  BY DEF NormalizeEndpoint, loadVars, Settled, NormalizingInv, PhaseInv, Working
<1>2. /\ e \notin config /\ e \in Endpoints(current)
      /\ TablesInv /\ Sound(config) /\ IsFiniteSet(config)
  BY <1>1 DEF NormalizingInv, EndpointsInv
<1>3. CASE Fits(e) /\ ~Clashes(e)
  <2>1. /\ Register(e) /\ todo' = todo \ {e} /\ config' = config \cup {e}
        /\ phase' = phase /\ envs' = envs /\ UNCHANGED envVars
    BY <1>3 DEF NormalizeEndpoint
  <2>2. /\ LoadInv' /\ sources' = sources /\ load' = "loaded"
        /\ \A x : /\ App(x)' = App(x) /\ Sane(x)' = Sane(x) /\ Good(x)' = Good(x)
                  /\ Endpoints(x)' = Endpoints(x)
    BY <1>1, SettledStays DEF NormalizingInv, Settled
  <2>3. Working' = Working
    BY <1>1, <2>1 DEF Working
  <2>4. PhaseInv'
    BY <1>1, <2>1, <2>2 DEF PhaseInv
  <2>5. AppsInv'
    <3>1. EnvironmentLayered'
      BY <2>1, <2>2 DEF NormalizingInv, AppsInv, EnvironmentLayered
    <3> QED
      BY <1>1, <2>1, <2>2, <2>3, <3>1 DEF NormalizingInv, AppsInv
  <2>6. EndpointsInv'
    <3>1. TablesInv'
      BY <1>2, <2>1, RegisterKeeps
    <3>2. IsFiniteSet(config')
      BY <1>2, <2>1, FS_AddElement
    <3>3. Sound(config')
      BY <1>2, <1>3, <2>1, SoundGrows
    <3>4. Sound(config)' <=> Sound(config')
      BY DEF Sound
    <3>5. /\ \A x \in DOMAIN envs' : Endpoints(x)' \subseteq config'
          /\ \A x \in Working' : /\ Endpoints(x)' \subseteq config' \cup todo'
                                 /\ todo' \subseteq Endpoints(x)'
          /\ \A f \in config' : \E x \in DOMAIN envs' \cup Working' : f \in Endpoints(x)'
          /\ config' \cap todo' = {}
      BY <1>1, <1>2, <2>1, <2>2, <2>3 DEF NormalizingInv, EndpointsInv
    <3> QED
      BY <3>1, <3>2, <3>3, <3>4, <3>5 DEF EndpointsInv
  <2> QED
    BY <2>2, <2>4, <2>5, <2>6 DEF NormalizingInv
<1>4. CASE ~(Fits(e) /\ ~Clashes(e))
  <2>1. Reject
    BY <1>4 DEF NormalizeEndpoint
  <2>2. config \subseteq AllEndpoints /\ e \in AllEndpoints
    BY <1>1, <1>2, OfTheApps
  <2>3. ~Sound(AllEndpoints)
    BY <1>2, <1>4, <2>2, ClashIsUnsound
  <2> QED
    BY <1>1, <2>1, <2>3, RejectKeeps DEF Reject, Acceptable
<1> QED
  BY <1>3, <1>4

\* With its endpoints registered an app gets its environment.
LEMMA BeginEnvironmentKeeps ==
  ASSUME NormalizingInv, BeginEnvironment
  PROVE  NormalizingInv'
<1>1. /\ Settled /\ phase = "endpoints" /\ load = "loaded" /\ Working = {current} /\ todo = {}
      /\ pending' = pending /\ current' = current /\ current \in DOMAIN sources
  BY DEF BeginEnvironment, loadVars, Settled, NormalizingInv, PhaseInv, AppsInv, Working
<1>2. CASE App(current).pwd
  <2>1. /\ phase' = "environment" /\ BeginResolving(App(current))
        /\ UNCHANGED <<envs, config, todo, tableVars>>
    BY <1>2 DEF BeginEnvironment
  <2>2. /\ LoadInv' /\ sources' = sources /\ load' = "loaded"
        /\ \A x : /\ App(x)' = App(x) /\ Sane(x)' = Sane(x) /\ Good(x)' = Good(x)
                  /\ Endpoints(x)' = Endpoints(x)
    BY <1>1, SettledStays DEF NormalizingInv, Settled
  <2>3. Working' = Working
    BY <1>1, <2>1 DEF Working
  <2>4. PhaseInv'
    BY <1>1, <2>1, <2>2 DEF PhaseInv
  <2>5. \A app \in {App(current)'} : ResolvingInv(app)'
    <3> SUFFICES ASSUME NEW app, app = App(current)' PROVE ResolvingInv(app)'
      OBVIOUS
    <3>1. app = App(current) /\ app.envFiles \in Seq(STRING)
      BY <1>1, <2>2, AppTypes DEF NormalizingInv
    <3> QED
      BY <2>1, <3>1, ResolvingBegins
  <2>6. AppsInv'
    <3>1. EnvironmentLayered'
      BY <2>1, <2>2 DEF NormalizingInv, AppsInv, EnvironmentLayered
    <3> QED
      BY <1>1, <1>2, <2>1, <2>2, <2>3, <2>5, <3>1 DEF NormalizingInv, AppsInv
  <2>7. EndpointsInv'
    <3>1. TablesInv'
      BY <2>1 DEF NormalizingInv, EndpointsInv, tableVars, TablesInv
    <3> QED
      BY <1>1, <2>1, <2>2, <2>3, <3>1 DEF NormalizingInv, EndpointsInv
  <2> QED
    BY <2>2, <2>4, <2>6, <2>7 DEF NormalizingInv
<1>3. CASE ~App(current).pwd
  BY <1>1, <1>3, RejectKeeps DEF BeginEnvironment, Reject, Acceptable
<1> QED
  BY <1>2, <1>3

\* A step of an app's environment leaves the rest.
LEMMA EnvironmentStep ==
  ASSUME NormalizingInv, Settled, phase = "environment", \A app \in {App(current)} : ResolvingInv(app)',
         UNCHANGED <<phase, pending, current, envs, config, todo, tableVars>>
  PROVE  NormalizingInv'
<1>1. /\ LoadInv' /\ sources' = sources /\ load' = load /\ Acceptable' = Acceptable
      /\ \A x : /\ App(x)' = App(x) /\ Sane(x)' = Sane(x) /\ Good(x)' = Good(x)
                /\ Endpoints(x)' = Endpoints(x)
  BY SettledStays DEF NormalizingInv, Settled
<1>2. Working' = Working
  BY DEF Working
<1>3. PhaseInv'
  BY <1>1 DEF NormalizingInv, PhaseInv
<1>4. AppsInv'
  <2>1. EnvironmentLayered'
    BY <1>1 DEF NormalizingInv, AppsInv, EnvironmentLayered
  <2> QED
    BY <1>1, <1>2, <2>1 DEF NormalizingInv, AppsInv
<1>5. EndpointsInv'
  <2>1. TablesInv'
    BY DEF NormalizingInv, EndpointsInv, tableVars, TablesInv
  <2> QED
    BY <1>1, <1>2, <2>1 DEF NormalizingInv, EndpointsInv
<1> QED
  BY <1>1, <1>3, <1>4, <1>5 DEF NormalizingInv

\* In its environment an app is settled, and only what it refers to can be wrong.
LEMMA InEnvironment ==
  ASSUME NormalizingInv, phase = "environment"
  PROVE  /\ load = "loaded" /\ current \in DOMAIN sources /\ Working = {current} /\ todo = {}
         /\ Sane(current) /\ App(current).pwd
         /\ \A app \in {App(current)} : ResolvingInv(app) /\ app.envFiles \in Seq(STRING)
<1>1. Working = {current} /\ load = "loaded" /\ todo = {}
  BY DEF NormalizingInv, PhaseInv, Working
<1>2. current \in DOMAIN sources /\ Sane(current) /\ App(current).pwd
  BY <1>1 DEF NormalizingInv, AppsInv
<1>3. \A app \in {App(current)} : ResolvingInv(app)
  BY DEF NormalizingInv, AppsInv
<1>4. App(current).envFiles \in Seq(STRING)
  BY <1>2, AppTypes DEF NormalizingInv
<1> QED
  BY <1>1, <1>2, <1>3, <1>4

\* An app that cannot be resolved is not acceptable.
LEMMA UnresolvableIsUnacceptable ==
  ASSUME NormalizingInv, phase = "environment", \A app \in {App(current)} : ~Resolvable(app)
  PROVE  ~Acceptable
<1>1. current \in DOMAIN sources
  BY InEnvironment
<1>2. ~Resolvable(App(current))
  OBVIOUS
<1> QED
  BY <1>1, <1>2 DEF Acceptable

LEMMA ReadEnvironmentKeeps ==
  ASSUME NormalizingInv, ReadEnvironment
  PROVE  NormalizingInv'
<1>1. /\ Settled /\ phase = "environment" /\ load = "loaded" /\ ~FilesRead(App(current))
      /\ pending' = pending /\ current' = current
  BY InEnvironment DEF ReadEnvironment, loadVars, Settled
<1>2. PICK app \in {App(current)} : ResolvingInv(app) /\ app.envFiles \in Seq(STRING)
  BY <1>1, InEnvironment
<1>3. ~FilesRead(app)
  BY <1>1
<1>4. CASE NextFile(app) \in DOMAIN EnvFile
  <2>1. ReadEnvFile(app) /\ UNCHANGED <<phase, envs, config, todo, tableVars>>
    BY <1>4 DEF ReadEnvironment
  <2>2. ResolvingInv(app)'
    BY <1>2, <1>3, <1>4, <2>1, ReadKeeps
  <2>3. \A x \in {App(current)} : ResolvingInv(x)'
    BY <2>2
  <2> QED
    BY <1>1, <2>1, <2>3, EnvironmentStep
<1>5. CASE NextFile(app) \notin DOMAIN EnvFile
  <2>1. Reject
    BY <1>5 DEF ReadEnvironment
  <2>2. ~Resolvable(app)
    BY <1>2, <1>3, <1>5, UnreadIsWrong
  <2>3. \A x \in {App(current)} : ~Resolvable(x)
    BY <2>2
  <2>4. ~Acceptable
    BY <1>1, <2>3, UnresolvableIsUnacceptable
  <2> QED
    BY <1>1, <2>1, <2>4, RejectKeeps DEF Reject
<1> QED
  BY <1>4, <1>5

LEMMA ResolveEntryKeeps ==
  ASSUME NormalizingInv, NEW key \in inline, ResolveEntry(key)
  PROVE  NormalizingInv'
<1>1. /\ Settled /\ phase = "environment" /\ load = "loaded" /\ FilesRead(App(current))
      /\ pending' = pending /\ current' = current
  BY InEnvironment DEF ResolveEntry, loadVars, Settled
<1>2. PICK app \in {App(current)} : ResolvingInv(app) /\ app.envFiles \in Seq(STRING)
  BY <1>1, InEnvironment
<1>3. FilesRead(app)
  BY <1>1
<1>4. CASE Resolves(app.inline[key], Snapshot)
  <2>1. ResolveInline(app, key) /\ UNCHANGED <<phase, envs, config, todo, tableVars>>
    BY <1>4 DEF ResolveEntry
  <2>2. ResolvingInv(app)'
    BY <1>2, <1>3, <1>4, <2>1, ResolveKeeps
  <2>3. \A x \in {App(current)} : ResolvingInv(x)'
    BY <2>2
  <2> QED
    BY <1>1, <2>1, <2>3, EnvironmentStep
<1>5. CASE ~Resolves(app.inline[key], Snapshot)
  <2>1. Reject
    BY <1>5 DEF ResolveEntry
  <2>2. ~Resolvable(app)
    BY <1>2, <1>3, <1>5, UnresolvedIsWrong
  <2>3. \A x \in {App(current)} : ~Resolvable(x)
    BY <2>2
  <2>4. ~Acceptable
    BY <1>1, <2>3, UnresolvableIsUnacceptable
  <2> QED
    BY <1>1, <2>1, <2>4, RejectKeeps DEF Reject
<1> QED
  BY <1>4, <1>5

\* An app is done with when nothing was wrong with it.
LEMMA EndAppKeeps ==
  ASSUME NormalizingInv, EndApp
  PROVE  NormalizingInv'
<1>1. /\ Settled /\ phase = "environment" /\ load = "loaded" /\ FilesRead(App(current))
      /\ inline = {} /\ phase' = "apps" /\ envs' = Over(envs, [id \in {current} |-> env])
      /\ UNCHANGED <<pending, current, config, todo, tableVars>>
  BY InEnvironment DEF EndApp, loadVars, Settled
<1>2. /\ current \in DOMAIN sources /\ Working = {current} /\ todo = {}
      /\ Sane(current) /\ App(current).pwd /\ current \notin DOMAIN envs
  BY <1>1, InEnvironment DEF NormalizingInv, AppsInv
<1>3. PICK app \in {App(current)} : ResolvingInv(app) /\ app.envFiles \in Seq(STRING)
  BY <1>1, InEnvironment
<1>4. Resolvable(app) /\ MergeEnvironment(Inherited, env) = Expected(app)
  BY <1>1, <1>3, ResolvedAsExpected
<1>5. Good(current) /\ MergeEnvironment(Inherited, env) = Expected(App(current))
  BY <1>2, <1>4 DEF Good
<1>6. /\ LoadInv' /\ sources' = sources /\ load' = "loaded" /\ Acceptable' = Acceptable
      /\ \A x : /\ App(x)' = App(x) /\ Sane(x)' = Sane(x) /\ Good(x)' = Good(x)
                /\ Endpoints(x)' = Endpoints(x)
  BY <1>1, SettledStays DEF NormalizingInv, Settled
<1>7. /\ DOMAIN envs' = DOMAIN envs \cup {current} /\ envs'[current] = env
      /\ \A x \in DOMAIN envs : envs'[x] = envs[x]
  BY <1>1, <1>2 DEF Over
<1>8. Working' = {}
  BY <1>1 DEF Working
<1>9. PhaseInv'
  BY <1>1, <1>2, <1>6 DEF PhaseInv
<1>10. AppsInv'
  <2>1. EnvironmentLayered'
    <3> SUFFICES ASSUME NEW x \in DOMAIN envs'
                 PROVE  MergeEnvironment(Inherited, envs'[x]) = Expected(App(x))'
      BY DEF EnvironmentLayered
    <3>1. CASE x = current
      BY <1>5, <1>6, <1>7, <3>1
    <3>2. CASE x # current
      BY <1>6, <1>7, <3>2 DEF NormalizingInv, AppsInv, EnvironmentLayered
    <3> QED
      BY <3>1, <3>2
  <2> QED
    BY <1>1, <1>2, <1>5, <1>6, <1>7, <1>8, <2>1 DEF NormalizingInv, AppsInv
<1>11. EndpointsInv'
  <2>1. TablesInv'
    BY <1>1 DEF NormalizingInv, EndpointsInv, tableVars, TablesInv
  <2> QED
    BY <1>1, <1>2, <1>6, <1>7, <1>8, <2>1 DEF NormalizingInv, EndpointsInv
<1> QED
  BY <1>6, <1>9, <1>10, <1>11 DEF NormalizingInv

\* Files are loaded before anything is made of them.
LEMMA LoadStepKeeps ==
  ASSUME NormalizingInv, Load
  PROVE  NormalizingInv'
<1>1. /\ phase = "load" /\ LoadNext /\ UNCHANGED <<current, envs, config, todo, tableVars>>
      /\ load \notin Failures \cup {"loaded"} /\ DOMAIN envs = {} /\ config = {} /\ todo = {}
  BY DEF Load, NormalizingInv, PhaseInv
<1>2. LoadInv'
  BY <1>1, LoadKeeps DEF NormalizingInv
<1>3. load' = "loaded" => sources' = sources
  BY <1>1 DEF LoadNext, LoadRoot, LoadResource, LoadReturn, Fail, Failures
<1>4. load' \in {"start", "loading", "loaded"} \cup Failures
  BY <1>2 DEF LoadInv
<1>5. CASE load' = "loaded"
  <2>1. phase' = "apps" /\ pending' = DOMAIN sources'
    BY <1>3, <1>5 DEF Load, Failures
  <2>2. Working' = {}
    BY <2>1 DEF Working
  <2>3. PhaseInv' /\ AppsInv'
    BY <1>1, <1>5, <2>1, <2>2 DEF PhaseInv, AppsInv, EnvironmentLayered
  <2>4. EndpointsInv'
    BY <1>1, <2>1, <2>2 DEF NormalizingInv, EndpointsInv, tableVars, TablesInv, Sound
  <2> QED
    BY <1>2, <2>3, <2>4 DEF NormalizingInv
<1>6. CASE load' # "loaded"
  <2>1. /\ pending' = {} /\ phase' \in {"load", "rejected"}
        /\ phase' = "rejected" <=> load' \in Failures
    BY <1>4, <1>6 DEF Load
  <2>2. Working' = {}
    BY <2>1 DEF Working
  <2>3. PhaseInv' /\ AppsInv'
    BY <1>1, <1>6, <2>1, <2>2 DEF PhaseInv, AppsInv, EnvironmentLayered
  <2>4. EndpointsInv'
    BY <1>1, <2>1, <2>2 DEF NormalizingInv, EndpointsInv, tableVars, TablesInv, Sound
  <2> QED
    BY <1>2, <2>3, <2>4 DEF NormalizingInv
<1> QED
  BY <1>5, <1>6

\* Serving does not touch what Normalize made.
LEMMA ServingKeeps ==
  ASSUME NormalizingInv, StartServing \/ \E r \in Requests : HandleRequest(r)
  PROVE  NormalizingInv'
<1>1. /\ Settled /\ phase' = "serving" /\ UNCHANGED <<pending, current, envs, config, todo, tableVars>>
      /\ load = "loaded" /\ pending = {} /\ Working = {} /\ todo = {} /\ phase # "rejected"
  BY DEF StartServing, HandleRequest, loadVars, Settled, NormalizingInv, PhaseInv, Working
<1>2. /\ LoadInv' /\ sources' = sources /\ load' = load /\ Acceptable' = Acceptable
      /\ \A x : /\ App(x)' = App(x) /\ Sane(x)' = Sane(x) /\ Good(x)' = Good(x)
                /\ Endpoints(x)' = Endpoints(x)
  BY <1>1, SettledStays DEF NormalizingInv, Settled
<1>3. Working' = {}
  BY <1>1 DEF Working
<1>4. PhaseInv'
  BY <1>1, <1>2 DEF PhaseInv
<1>5. AppsInv'
  <2>1. EnvironmentLayered'
    BY <1>1, <1>2 DEF NormalizingInv, AppsInv, EnvironmentLayered
  <2> QED
    BY <1>1, <1>2, <1>3, <2>1 DEF NormalizingInv, AppsInv
<1>6. EndpointsInv'
  <2>1. TablesInv'
    BY <1>1 DEF NormalizingInv, EndpointsInv, tableVars, TablesInv
  <2> QED
    BY <1>1, <1>2, <1>3, <2>1 DEF NormalizingInv, EndpointsInv
<1> QED
  BY <1>2, <1>4, <1>5, <1>6 DEF NormalizingInv

\* What is served is all there is, and acceptable.
LEMMA ServedIsAcceptable ==
  ASSUME NormalizingInv, phase = "serving"
  PROVE  Acceptable /\ config = AllEndpoints
<1>1. /\ DOMAIN sources = DOMAIN envs /\ \A id \in DOMAIN envs : Good(id)
      /\ Working = {} /\ phase # "rejected"
  BY DEF NormalizingInv, PhaseInv, AppsInv, Working
<1>2. config \subseteq AllEndpoints
  BY <1>1, OfTheApps
<1>3. AllEndpoints \subseteq config
  BY <1>1 DEF NormalizingInv, EndpointsInv, AllEndpoints, Endpoints
<1>4. Sound(AllEndpoints)
  BY <1>2, <1>3 DEF NormalizingInv, EndpointsInv
<1> QED
  BY <1>1, <1>2, <1>3, <1>4 DEF Acceptable, Good, Sane

-----------------------------------------------------------------------------
(* Requests *)

\* Of strings, that is: Slash is one, but the provers do not know of literals.
Token == STRING \cup {Slash}
Texts == Seq(Token)

LEMMA StringsAreTexts ==
  ASSUME NEW s \in Seq(STRING)
  PROVE  s \in Texts
<1>1. Len(s) \in Nat /\ DOMAIN s = 1..Len(s) /\ \A i \in 1..Len(s) : s[i] \in Token
  BY DEF Token
<1>2. s = [i \in 1..Len(s) |-> s[i]]
  BY <1>1
<1> QED
  BY <1>1, <1>2 DEF Texts

LEMMA PrefixElements ==
  ASSUME NEW p \in Texts, NEW s \in Texts
  PROVE  IsPrefix(p, s) <=> Len(p) <= Len(s) /\ \A i \in 1..Len(p) : p[i] = s[i]
<1>1. Len(p) \in Nat /\ Len(s) \in Nat
  BY DEF Texts
<1>2. CASE Len(p) <= Len(s)
  <2> DEFINE t == SubSeq(s, 1, Len(p))
  <2>1. /\ t \in Texts /\ Len(t) = Len(p) /\ \A i \in 1..Len(p) : t[i] = s[i]
    BY <1>1, <1>2 DEF Texts
  <2>2. SubSeq(p, 1, Len(p)) = p
    BY <1>1 DEF Texts
  <2>3. p = t <=> \A i \in 1..Len(p) : p[i] = t[i]
    <3> HIDE DEF t
    <3> QED
      BY <2>1, SeqEqual DEF Texts
  <2> QED
    BY <1>2, <2>1, <2>2, <2>3 DEF IsPrefix
<1>3. CASE ~(Len(p) <= Len(s))
  BY <1>3 DEF IsPrefix
<1> QED
  BY <1>2, <1>3

\* Of two prefixes of a path the longer starts with the other.
LEMMA PrefixesNest ==
  ASSUME NEW p \in Texts, NEW q \in Texts, NEW s \in Texts,
         IsPrefix(p, s), IsPrefix(q, s), Len(p) <= Len(q)
  PROVE  IsPrefix(p, q)
<1>1. Len(p) \in Nat /\ Len(q) \in Nat /\ \A i \in 1..Len(p) : i \in 1..Len(q)
  BY DEF Texts
<1> QED
  BY <1>1, PrefixElements

LEMMA PrefixesEqual ==
  ASSUME NEW p \in Texts, NEW q \in Texts, IsPrefix(p, q), IsPrefix(q, p)
  PROVE  p = q
<1>1. Len(p) \in Nat /\ Len(q) \in Nat
  BY DEF Texts
<1>2. Len(p) = Len(q) /\ \A i \in 1..Len(p) : p[i] = q[i]
  BY <1>1, PrefixElements
<1> QED
  BY <1>2, SeqEqual DEF Texts

\* The path that an endpoint is mounted at is empty or starts with a slash.
LEMMA RoutePathForm ==
  ASSUME NEW e, e.path \in Texts, e.path # Unset, Fits(e)
  PROVE  /\ RoutePath(e) \in Texts
         /\ RoutePath(e) # <<>> => Len(RoutePath(e)) >= 1 /\ RoutePath(e)[1] = Slash
<1>1. e.path[1] = Slash
  BY DEF Fits
<1>2. CASE e.path = SlashPath
  BY <1>2 DEF RoutePath, SlashPath, Slash, Texts
<1>3. CASE e.path # SlashPath
  <2> DEFINE I == {i \in 1..Len(e.path) : e.path[i] # Slash}
             n == SelectLastInSeq(e.path, LAMBDA t : t # Slash)
  <2>1. n = IF I # {} THEN Max(I) ELSE 0
    BY DEF SelectLastInSeq
  <2>2. Len(e.path) \in Nat /\ I \in SUBSET (1..Len(e.path))
    BY DEF Texts
  <2>3. I # {} => Max(I) \in I
    BY <2>2, LargestExists
  <2>4. n \in Nat /\ n <= Len(e.path)
    BY <2>1, <2>2, <2>3
  <2>5. RoutePath(e) = SubSeq(e.path, 1, n)
    BY <1>3 DEF RoutePath
  <2> HIDE DEF n, I
  <2>6. /\ SubSeq(e.path, 1, n) \in Texts /\ Len(SubSeq(e.path, 1, n)) = n
        /\ \A i \in 1..n : SubSeq(e.path, 1, n)[i] = e.path[i]
    BY <2>2, <2>4 DEF Texts
  <2>7. CASE n = 0
    BY <2>5, <2>6, <2>7 DEF Texts
  <2>8. CASE n # 0
    <3>1. 1 \in 1..n
      BY <2>4, <2>8
    <3> QED
      BY <1>1, <2>4, <2>5, <2>6, <2>8, <3>1
  <2> QED
    BY <2>7, <2>8
<1> QED
  BY <1>2, <1>3

\* The test that a route is matched with is the one by whole segments.
LEMMA CoversIsMounted ==
  ASSUME NEW e, RoutePath(e) \in Texts, NEW path \in Texts
  PROVE  Covers(e, path) <=> Mounted(e, path)
<1> DEFINE p == RoutePath(e)
<1>1. Len(p) \in Nat /\ Len(path) \in Nat
  BY DEF Texts
<1>2. SubSeq(p, 1, Len(p)) = p /\ SubSeq(path, 1, Len(path)) = path
  BY <1>1 DEF Texts
<1>3. \A n \in 0..Len(path) : Len(SubSeq(path, 1, n)) = n
  BY <1>1 DEF Texts
<1>4. ASSUME Covers(e, path), p # SlashPath
      PROVE  Mounted(e, path)
  <2>1. CASE path = p
    <3>1. Len(path) \in 0..Len(path)
      BY <1>1
    <3> QED
      BY <1>2, <2>1, <3>1 DEF Mounted
  <2>2. CASE path # p
    <3>1. Len(path) > Len(p) /\ p = SubSeq(path, 1, Len(p)) /\ path[Len(p) + 1] = Slash
      BY <1>2, <1>4, <2>2 DEF Covers, IsPrefix
    <3>2. Len(p) \in 0..Len(path)
      BY <1>1, <3>1
    <3> QED
      BY <3>1, <3>2 DEF Mounted
  <2> QED
    BY <2>1, <2>2
<1>5. ASSUME Mounted(e, path), p # SlashPath
      PROVE  Covers(e, path)
  <2>1. PICK n \in 0..Len(path) : SubSeq(path, 1, n) = p /\ (n = Len(path) \/ path[n + 1] = Slash)
    BY <1>5 DEF Mounted
  <2>2. Len(p) = n
    BY <1>3, <2>1
  <2>3. CASE n = Len(path)
    BY <1>2, <2>1, <2>3 DEF Covers
  <2>4. CASE n # Len(path)
    <3>1. Len(path) > Len(p) /\ Len(p) <= Len(path)
      BY <1>1, <2>2, <2>4
    <3> QED
      BY <1>2, <2>1, <2>2, <2>4, <3>1 DEF Covers, IsPrefix
  <2> QED
    BY <2>3, <2>4
<1>6. p = SlashPath => Covers(e, path) /\ Mounted(e, path)
  BY DEF Covers, Mounted
<1> QED
  BY <1>4, <1>5, <1>6

\* What starts a path is empty, or a slash, or a prefix of it.
LEMMA MountedIsPrefix ==
  ASSUME NEW e, RoutePath(e) \in Texts, NEW path \in Texts, Covers(e, path)
  PROVE  RoutePath(e) = SlashPath \/ IsPrefix(RoutePath(e), path)
<1>1. Len(path) \in Nat
  BY DEF Texts
<1> QED
  BY <1>1 DEF Covers, IsPrefix

\* The longest of the endpoints mounted above a path is below all others.
LEMMA LongestIsBelow ==
  ASSUME NEW e, NEW f, NEW path \in Texts,
         RoutePath(e) \in Texts, RoutePath(f) \in Texts,
         RoutePath(e) # <<>> => RoutePath(e)[1] = Slash,
         RoutePath(f) # <<>> => RoutePath(f)[1] = Slash,
         Covers(e, path), Covers(f, path), Len(RoutePath(e)) >= Len(RoutePath(f))
  PROVE  IsPrefix(RoutePath(f), RoutePath(e))
<1> DEFINE p == RoutePath(e)
           q == RoutePath(f)
<1>1. Len(p) \in Nat /\ Len(q) \in Nat /\ Len(q) <= Len(p)
  BY DEF Texts
<1>2. Len(SlashPath) = 1 /\ SlashPath[1] = Slash
  BY DEF SlashPath
<1>3. CASE q = SlashPath
  <2>1. p # <<>>
    BY <1>1, <1>2, <1>3, SMTT(30)
  <2>2. \A i \in 1..Len(q) : i = 1
    BY <1>2, <1>3
  <2>3. \A i \in 1..Len(q) : q[i] = p[i]
    BY <1>2, <1>3, <2>1, <2>2
  <2> QED
    BY <1>1, <2>3, PrefixElements
<1>4. CASE q # SlashPath /\ p = SlashPath
  <2>1. IsPrefix(q, path)
    BY <1>4, MountedIsPrefix
  <2>2. CASE Len(q) = 0
    <3>1. \A i \in 1..Len(q) : q[i] = p[i]
      BY <2>2
    <3> QED
      BY <1>1, <3>1, PrefixElements
  <2>3. CASE Len(q) # 0
    <3>1. Len(q) = 1 /\ q[1] = p[1]
      BY <1>1, <1>2, <1>4, <2>3
    <3>2. \A i \in 1..Len(q) : q[i] = p[i]
      BY <3>1
    <3> QED
      BY <1>1, <3>2, PrefixElements
  <2> QED
    BY <2>2, <2>3
<1>5. CASE q # SlashPath /\ p # SlashPath
  BY <1>1, <1>5, MountedIsPrefix, PrefixesNest
<1> QED
  BY <1>3, <1>4, <1>5

\* What Serve answers.
Answer(r) ==
  LET url == ParseURL(r.raw)
      to  == Match(r.host, url.path)
  IN  IF to = NoRoute THEN [to |-> to, request |-> r]
      ELSE [to |-> to, request |-> r, url |-> Rewrite(to, url)]

WithPath == {e \in config : e.path # Unset}

\* All routes are there, the longest first, and each host has an endpoint of its own.
Routed ==
  /\ pathRoutes \in Seq(WithPath) /\ Range(pathRoutes) = WithPath /\ LongestFirst(pathRoutes)
  /\ DOMAIN hostRoutes = UNION {HostNames(e) : e \in config}
  /\ \A h \in DOMAIN hostRoutes : hostRoutes[h] \in config /\ h \in HostNames(hostRoutes[h])

RouterInv ==
  /\ phase # "serving" =>
       pathRoutes = <<>> /\ hostRoutes = <<>> /\ answer = [to |-> NoRoute]
  /\ phase = "serving" =>
       Routed /\ (answer = [to |-> NoRoute] \/ \E r \in Requests : answer = Answer(r))

LEMMA AnswerStays ==
  ASSUME NEW r, hostRoutes' = hostRoutes, pathRoutes' = pathRoutes
  PROVE  Answer(r)' = Answer(r)
<1>1. \A host, path : Match(host, path)' = Match(host, path)
  BY DEF Match, SelectInSeq
<1> QED
  BY <1>1 DEF Answer

\* NewHandler, from whatever order of a map, makes the routes.
LEMMA NewHandlerRoutes ==
  ASSUME TablesInv, IsFiniteSet(config), NewHandler, config' = config
  PROVE  Routed'
<1>1. IsFiniteSet(WithPath)
  BY FS_Subset DEF WithPath
<1>2. PICK routes \in SetToSeqs(WithPath) : LongestFirst(routes) /\ pathRoutes' = routes
  BY DEF NewHandler, WithPath
<1> DEFINE n == Cardinality(WithPath)
<1>3. n \in Nat
  BY <1>1, FS_CardinalityType
<1>4. routes \in [1..n -> WithPath] /\ \A i, j \in 1..n : i # j => routes[i] # routes[j]
  BY DEF SetToSeqs
<1>5. routes \in Injection(1..n, WithPath)
  BY <1>4 DEF Injection, IsInjective
<1>6. Cardinality(1..n) = n
  <2>1. 1 \in Int /\ n \in Int /\ Cardinality(1..n) = IF 1 > n THEN 0 ELSE n - 1 + 1
    BY <1>3, FS_Interval
  <2> QED
    BY <1>3, <2>1
<1>7. routes \in Surjection(1..n, WithPath)
  BY <1>1, <1>5, <1>6, FS_Injection
<1>8. Range(routes) = WithPath /\ routes \in Seq(WithPath)
  BY <1>3, <1>4, <1>7 DEF Surjection, Range
<1>9. WithPath' = WithPath
  BY DEF WithPath
<1>10. LongestFirst(pathRoutes)'
  <2>1. LongestFirst(pathRoutes)' <=> LongestFirst(pathRoutes')
    BY DEF LongestFirst, IsSorted
  <2> QED
    BY <1>2, <2>1
<1>11. hostRoutes' = [h \in hosts |-> CHOOSE e \in config : h \in HostNames(e)]
  BY DEF NewHandler
<1>12. hosts = UNION {HostNames(e) : e \in config}
  BY DEF TablesInv
<1>13. \A h \in hosts : hostRoutes'[h] \in config /\ h \in HostNames(hostRoutes'[h])
  BY <1>11, <1>12
<1> QED
  BY <1>2, <1>8, <1>9, <1>10, <1>11, <1>12, <1>13 DEF Routed

\* The routes and the last answer stay when nothing touches them.
LEMMA RouterStays ==
  ASSUME RouterInv, UNCHANGED routerVars, phase # "serving", phase' # "serving"
  PROVE  RouterInv'
BY DEF RouterInv, routerVars

LEMMA StartServingRoutes ==
  ASSUME NormalizingInv, RouterInv, StartServing
  PROVE  RouterInv'
<1>1. /\ phase # "serving" /\ phase' = "serving" /\ NewHandler /\ config' = config
      /\ answer' = answer
  BY DEF StartServing, NewHandler
<1>2. Routed'
  BY <1>1, NewHandlerRoutes DEF NormalizingInv, EndpointsInv
<1> QED
  BY <1>1, <1>2 DEF RouterInv

LEMMA HandleRequestRoutes ==
  ASSUME RouterInv, NEW r \in Requests, HandleRequest(r)
  PROVE  RouterInv'
<1>1. /\ phase = "serving" /\ phase' = phase /\ config' = config
      /\ hostRoutes' = hostRoutes /\ pathRoutes' = pathRoutes /\ answer' = Answer(r)
  BY DEF HandleRequest, Serve, Answer
<1>2. Routed'
  BY <1>1 DEF RouterInv, Routed, WithPath, LongestFirst, IsSorted
<1>3. Answer(r)' = Answer(r)
  BY <1>1, AnswerStays
<1> QED
  BY <1>1, <1>2, <1>3 DEF RouterInv

-----------------------------------------------------------------------------
(* Whom a request goes to *)

LEMMA ServedTypes ==
  ASSUME NormalizingInv, phase = "serving", NEW e \in config
  PROVE  /\ e # NoRoute /\ e.path \in Texts /\ e.includePrefix \in BOOLEAN
         /\ Fits(e) /\ \A f \in config : ~Conflict(e, f)
<1>1. PICK id \in DOMAIN sources : e \in Endpoints(id)
  <2>1. phase # "rejected" /\ DOMAIN envs \cup Working \subseteq DOMAIN sources
    BY DEF NormalizingInv, AppsInv
  <2> QED
    BY <2>1 DEF NormalizingInv, EndpointsInv
<1>2. e # NoRoute /\ e.path \in Texts /\ e.includePrefix \in BOOLEAN
  BY <1>1, EndpointTypes, StringsAreTexts DEF NormalizingInv
<1>3. Fits(e) /\ \A f \in config : ~Conflict(e, f)
  BY DEF NormalizingInv, EndpointsInv, Sound
<1> QED
  BY <1>2, <1>3

Unescaped(t) == IF t \in DOMAIN Unescape THEN Unescape[t] ELSE t

\* Unescaping a path takes its parts one by one, and leaves none to be unescaped.
LEMMA DecodedForm ==
  ASSUME NEW s \in Texts
  PROVE  /\ Decode(s) \in Texts /\ Len(Decode(s)) = Len(s)
         /\ \A i \in 1..Len(s) : /\ Decode(s)[i] = Unescaped(s[i])
                                 /\ Decode(s)[i] \notin DOMAIN Unescape
<1>1. Len(s) \in Nat /\ DOMAIN s = 1..Len(s) /\ \A i \in 1..Len(s) : s[i] \in Token
  BY DEF Texts
<1>2. \A t \in Token : Unescaped(t) \in Token /\ Unescaped(t) \notin DOMAIN Unescape
  BY RouterAssumption DEF Token, Unescaped
<1>3. Decode(s) = [i \in 1..Len(s) |-> Unescaped(s[i])]
  BY <1>1 DEF Decode, Unescaped
<1>4. Decode(s) \in Seq(Token) /\ Len(Decode(s)) = Len(s)
  BY <1>1, <1>2, <1>3
<1> QED
  BY <1>1, <1>2, <1>3, <1>4 DEF Texts

LEMMA DecodedAlready ==
  ASSUME NEW s \in Texts, \A i \in 1..Len(s) : s[i] \notin DOMAIN Unescape
  PROVE  Decode(s) = s
<1>1. \A i \in 1..Len(s) : Decode(s)[i] = s[i]
  BY DecodedForm DEF Unescaped
<1> QED
  BY <1>1, DecodedForm, SeqEqual DEF Texts

LEMMA RequestForm ==
  ASSUME NEW r \in Requests
  PROVE  /\ r.raw \in Texts /\ r.raw # <<>> /\ Len(r.raw) \in Nat \ {0} /\ r.raw[1] = Slash
         /\ Decode(r.raw) \in Texts /\ Len(Decode(r.raw)) = Len(r.raw)
         /\ Decode(r.raw) # <<>> /\ Decode(r.raw)[1] = Slash
         /\ ParseURL(r.raw).path = Decode(r.raw)
<1>1. r.raw \in Texts /\ r.raw # <<>> /\ Len(r.raw) \in Nat \ {0} /\ r.raw[1] = Slash
  BY RouterAssumption, StringsAreTexts DEF Texts
<1>2. 1 \in 1..Len(r.raw) /\ Unescaped(Slash) = Slash
  BY <1>1, RouterAssumption DEF Unescaped
<1>3. Decode(r.raw) \in Texts /\ Len(Decode(r.raw)) = Len(r.raw) /\ Decode(r.raw)[1] = Slash
  BY <1>1, <1>2, DecodedForm
<1>4. Decode(r.raw) # <<>>
  BY <1>1, <1>3 DEF Texts
<1> QED
  BY <1>1, <1>3, <1>4 DEF ParseURL

\* The backend is sent a path.
LEMMA RewrittenForm ==
  ASSUME NEW e, NEW url, url.path # <<>>
  PROVE  Rewrite(e, url).path # <<>>
<1>1. SlashPath # <<>>
  BY DEF SlashPath
<1>2. Rewrite(e, url).path = IF e.path = Unset \/ e.includePrefix THEN url.path
                             ELSE OrRoot(TrimPrefix(url.path, RoutePath(e)))
  BY DEF Rewrite
<1> QED
  BY <1>1, <1>2 DEF OrRoot

\* What is left of a path without its prefix.
Rest(s, p) == OrRoot(TrimPrefix(s, p))

LEMMA TrimmedForm ==
  ASSUME NEW p \in Texts, NEW s \in Texts, IsPrefix(p, s)
  PROVE  /\ s = p => Rest(s, p) = SlashPath
         /\ s # p => /\ Len(s) > Len(p) /\ s = p \o Rest(s, p)
                     /\ Rest(s, p) \in Texts /\ Len(Rest(s, p)) = Len(s) - Len(p)
                     /\ \A i \in 1..Len(s) - Len(p) : Rest(s, p)[i] = s[Len(p) + i]
<1> DEFINE m == Len(p)
           n == Len(s)
           t == SubSeq(s, m + 1, n)
<1>1. m \in Nat /\ n \in Nat /\ m <= n /\ \A i \in 1..m : p[i] = s[i]
  BY PrefixElements DEF Texts
<1>2. TrimPrefix(s, p) = t
  BY DEF TrimPrefix
<1>3. CASE s = p
  <2>1. t = <<>>
    BY <1>1, <1>3 DEF Texts
  <2> QED
    BY <1>2, <1>3, <2>1 DEF Rest, OrRoot
<1>4. CASE s # p
  <2>1. n > m
    <3>1. n = m => s = p
      BY <1>1, SeqEqual DEF Texts
    <3> QED
      BY <1>1, <1>4, <3>1
  <2>2. m + 1 \in Int /\ 1 <= m + 1 /\ m + 1 <= n /\ m + 1 \in 1..n + 1 /\ n - (m + 1) + 1 = n - m
    BY <1>1, <2>1
  <2>3. t \in Texts /\ Len(t) = n - m /\ \A i \in 1..n - m : t[i] = s[m + i]
    <3>1. t = [i \in 1..n - m |-> s[m + i]]
      BY <1>1, <2>1, <2>2 DEF Texts
    <3>2. n - m \in Nat /\ \A i \in 1..n - m : m + i \in 1..n
      BY <1>1, <2>1
    <3>3. \A i \in 1..n : s[i] \in Token
      BY DEF Texts
    <3> HIDE DEF m, n, t
    <3>4. \A i \in 1..n - m : s[m + i] \in Token
      BY <3>2, <3>3
    <3>5. t \in Seq(Token) /\ Len(t) = n - m /\ \A i \in 1..n - m : t[i] = s[m + i]
      BY <3>1, <3>2, <3>4
    <3> QED
      BY <3>5 DEF Texts
  <2>4. t # <<>>
    <3> HIDE DEF m, n, t
    <3>1. n - m # 0
      BY <1>1, <2>1
    <3> QED
      BY <2>3, <3>1
  <2>5. s = p \o t
    <3> HIDE DEF t
    <3>1. /\ p \o t \in Texts /\ Len(p \o t) = m + (n - m)
          /\ \A i \in 1..m + (n - m) : (p \o t)[i] = IF i <= m THEN p[i] ELSE t[i - m]
      BY <2>3 DEF Texts
    <3>2. m + (n - m) = n
      BY <1>1
    <3>3. ASSUME NEW i \in 1..n PROVE (p \o t)[i] = s[i]
      <4>1. CASE i <= m
        BY <1>1, <3>1, <3>2, <4>1
      <4>2. CASE ~(i <= m)
        <5>1. i - m \in 1..n - m /\ m + (i - m) = i
          BY <1>1, <4>2
        <5>2. t[i - m] = s[i]
          BY <2>3, <5>1
        <5> QED
          BY <3>1, <3>2, <4>2, <5>2
      <4> QED
        BY <4>1, <4>2
    <3> HIDE DEF m, n
    <3>4. p \o t \in Seq(Token) /\ s \in Seq(Token) /\ Len(p \o t) = Len(s)
      BY <3>1, <3>2 DEF Texts, n
    <3>5. \A i \in 1..Len(s) : (p \o t)[i] = s[i]
      BY <3>3 DEF n
    <3> QED
      BY <3>4, <3>5, SeqEqual
  <2> HIDE DEF t
  <2>6. Rest(s, p) = t
    BY <1>2, <2>4 DEF Rest, OrRoot
  <2> QED
    BY <1>4, <2>1, <2>3, <2>5, <2>6
<1> QED
  BY <1>3, <1>4

\* Taking the prefix off and unescaping may come in either order.
LEMMA RestDecoded ==
  ASSUME NEW p \in Texts, NEW raw \in Texts, IsPrefix(p, raw), IsPrefix(p, Decode(raw))
  PROVE  Decode(Rest(raw, p)) = Rest(Decode(raw), p)
<1> DEFINE path == Decode(raw)
           m    == Len(p)
<1>1. /\ path \in Texts /\ Len(path) = Len(raw) /\ m \in Nat /\ Len(raw) \in Nat
      /\ \A i \in 1..Len(raw) : path[i] = Unescaped(raw[i])
  BY DecodedForm DEF Texts
<1> HIDE DEF path
<1>2. (raw = p <=> path = p) /\ SlashPath \in Texts /\ Decode(SlashPath) = SlashPath
  <2>1. SlashPath \in Texts /\ \A i \in 1..Len(SlashPath) : SlashPath[i] = Slash
    BY DEF SlashPath, Texts, Token
  <2>2. Decode(SlashPath) = SlashPath
    BY <2>1, DecodedAlready, RouterAssumption
  <2>3. raw = p <=> path = p
    <3>1. (raw # p => Len(raw) > m) /\ (path # p => Len(path) > m)
      BY <1>1, TrimmedForm DEF path
    <3> QED
      BY <1>1, <3>1
  <2> QED
    BY <2>1, <2>2, <2>3
<1>3. CASE raw = p
  BY <1>1, <1>2, <1>3, TrimmedForm DEF path
<1>4. CASE raw # p
  <2>1. /\ Rest(raw, p) \in Texts /\ Len(Rest(raw, p)) = Len(raw) - m /\ Len(raw) > m
        /\ \A i \in 1..Len(raw) - m : Rest(raw, p)[i] = raw[m + i]
    BY <1>4, TrimmedForm
  <2>2. /\ Rest(path, p) \in Texts /\ Len(Rest(path, p)) = Len(raw) - m
        /\ \A i \in 1..Len(raw) - m : Rest(path, p)[i] = path[m + i]
    BY <1>1, <1>2, <1>4, TrimmedForm DEF path
  <2>3. /\ Decode(Rest(raw, p)) \in Texts /\ Len(Decode(Rest(raw, p))) = Len(raw) - m
        /\ \A i \in 1..Len(raw) - m : Decode(Rest(raw, p))[i] = Unescaped(Rest(raw, p)[i])
    BY <2>1, DecodedForm
  <2>4. \A i \in 1..Len(raw) - m : m + i \in 1..Len(raw)
    BY <1>1, <2>1
  <2>5. \A i \in 1..Len(raw) - m : Decode(Rest(raw, p))[i] = Rest(path, p)[i]
    BY <1>1, <2>1, <2>2, <2>3, <2>4
  <2> HIDE DEF m
  <2> QED
    BY <2>2, <2>3, <2>5, SeqEqual DEF Texts, path
<1> QED
  BY <1>3, <1>4

\* What goes on the request line when a prefix is taken off is what the client sent without
\* it, or what is left of the unescaped path if the client escaped some of the prefix.
LEMMA SentForm ==
  ASSUME NEW e, NEW r \in Requests, e.path # Unset, ~e.includePrefix,
         RoutePath(e) \in Texts,
         RoutePath(e) # <<>> => Len(RoutePath(e)) >= 1 /\ RoutePath(e)[1] = Slash,
         IsPrefix(RoutePath(e), Decode(r.raw))
  PROVE  LET p    == RoutePath(e)
             path == Decode(r.raw)
             sent == EscapedPath(Rewrite(e, ParseURL(r.raw)))
         IN  /\ sent = IF IsPrefix(p, r.raw) THEN Rest(r.raw, p) ELSE Rest(path, p)
             /\ Decode(sent) = Rest(path, p)
<1> DEFINE p    == RoutePath(e)
           raw  == r.raw
           path == Decode(raw)
           url  == Rewrite(e, ParseURL(raw))
<1>1. /\ raw \in Texts /\ raw # <<>> /\ Len(raw) \in Nat \ {0} /\ raw[1] = Slash
      /\ path \in Texts /\ Len(path) = Len(raw) /\ Len(p) \in Nat
  BY RequestForm DEF Texts
<1>2. url.path = Rest(path, p) /\ url.raw = IF path = raw THEN <<>> ELSE Rest(raw, p)
  BY <1>1 DEF Rewrite, ParseURL, Rest
<1>3. SlashPath # <<>> /\ Len(SlashPath) = 1
  BY DEF SlashPath
<1> HIDE DEF path, url
<1>4. CASE IsPrefix(p, raw)
  <2>1. Decode(Rest(raw, p)) = Rest(path, p)
    BY <1>1, <1>4, RestDecoded DEF path
  <2>2. Rest(raw, p) # <<>>
    BY <1>3 DEF Rest, OrRoot
  <2>3. EscapedPath(url) = Rest(raw, p)
    BY <1>2, <2>1, <2>2 DEF EscapedPath
  <2> QED
    BY <1>4, <2>1, <2>3 DEF path, url
<1>5. CASE ~IsPrefix(p, raw)
  <2>1. Len(p) >= 2
    <3>1. ASSUME Len(p) < 2 PROVE IsPrefix(p, raw)
      <4>1. Len(p) <= Len(raw) /\ \A i \in 1..Len(p) : i = 1
        BY <1>1, <3>1
      <4>2. \A i \in 1..Len(p) : p # <<>>
        BY <1>1 DEF Texts
      <4>3. \A i \in 1..Len(p) : p[i] = raw[i]
        BY <1>1, <4>1, <4>2
      <4> QED
        BY <1>1, <4>1, <4>3, PrefixElements
    <3> QED
      BY <1>1, <1>5, <3>1
  <2>2. path # raw
    BY <1>5 DEF path
  <2>3. url.raw = raw
    BY <1>1, <1>2, <1>5, <2>2 DEF Rest, OrRoot, TrimPrefix
  <2>4. /\ path = p => Rest(path, p) = SlashPath
        /\ path # p => /\ Len(path) > Len(p) /\ Rest(path, p) \in Texts
                       /\ Len(Rest(path, p)) = Len(path) - Len(p)
                       /\ \A i \in 1..Len(path) - Len(p) : Rest(path, p)[i] = path[Len(p) + i]
    BY <1>1, TrimmedForm DEF path
  <2>5. Rest(path, p) # path
    <3>1. CASE path = p
      <4>1. Len(Rest(path, p)) = 1
        BY <1>3, <2>4, <3>1
      <4>2. Len(path) = Len(p)
        BY <3>1
      <4>3. Len(path) # 1
        BY <1>1, <2>1, <4>2
      <4> QED
        BY <4>1, <4>3
    <3>2. CASE path # p
      <4>1. Len(Rest(path, p)) = Len(path) - Len(p) /\ Len(path) - Len(p) # Len(path)
        BY <1>1, <2>1, <2>4, <3>2
      <4> QED
        BY <4>1
    <3> QED
      BY <3>1, <3>2
  <2>6. EscapedPath(url) = Rest(path, p)
    BY <1>2, <2>3, <2>5 DEF EscapedPath, path
  <2>7. Decode(Rest(path, p)) = Rest(path, p)
    <3>1. CASE path = p
      <4>1. SlashPath \in Texts /\ \A i \in 1..Len(SlashPath) : SlashPath[i] = Slash
        BY DEF SlashPath, Texts, Token
      <4>2. Decode(SlashPath) = SlashPath
        BY <4>1, DecodedAlready, RouterAssumption
      <4> QED
        BY <2>4, <3>1, <4>2
    <3>2. CASE path # p
      <4>1. \A i \in 1..Len(path) - Len(p) : Len(p) + i \in 1..Len(raw)
        BY <1>1
      <4>2. \A i \in 1..Len(raw) : path[i] \notin DOMAIN Unescape
        BY <1>1, DecodedForm DEF path
      <4>3. \A i \in 1..Len(Rest(path, p)) : Rest(path, p)[i] \notin DOMAIN Unescape
        BY <2>4, <3>2, <4>1, <4>2
      <4> QED
        BY <2>4, <3>2, <4>3, DecodedAlready
    <3> QED
      BY <3>1, <3>2
  <2> QED
    BY <1>5, <2>6, <2>7 DEF path, url
<1> QED
  BY <1>4, <1>5

\* A host has one endpoint.
LEMMA MatchedByHost ==
  ASSUME NormalizingInv, Routed, phase = "serving", NEW host, NEW path,
         NEW e \in config, RequestHostname(host) \in HostNames(e)
  PROVE  Match(host, path) = e
<1> DEFINE h == RequestHostname(host)
           f == hostRoutes[h]
<1>1. h \in DOMAIN hostRoutes /\ f \in config /\ h \in HostNames(f)
  BY DEF Routed
<1>2. e = f
  BY <1>1, ServedTypes DEF Conflict
<1> QED
  BY <1>1, <1>2 DEF Match

\* Without one, the first route that covers the path is taken, and no other is as long.
LEMMA MatchedByPath ==
  ASSUME NormalizingInv, Routed, phase = "serving", NEW host, NEW path \in Texts,
         \A e \in config : RequestHostname(host) \notin HostNames(e)
  PROVE  \/ Match(host, path) = NoRoute /\ \A e \in WithPath : ~Covers(e, path)
         \/ /\ Match(host, path) \in WithPath /\ Covers(Match(host, path), path)
            /\ \A f \in WithPath : Covers(f, path) =>
                 Len(RoutePath(Match(host, path))) >= Len(RoutePath(f))
<1> DEFINE I == {i \in 1..Len(pathRoutes) : Covers(pathRoutes[i], path)}
           first == SelectInSeq(pathRoutes, LAMBDA e : Covers(e, path))
<1>1. first = IF I # {} THEN Min(I) ELSE 0
  BY DEF SelectInSeq
<1>2. Match(host, path) = IF first = 0 THEN NoRoute ELSE pathRoutes[first]
  BY DEF Match, Routed
<1>3. /\ pathRoutes \in Seq(WithPath) /\ Len(pathRoutes) \in Nat /\ DOMAIN pathRoutes = 1..Len(pathRoutes)
      /\ \A e \in WithPath : \E i \in 1..Len(pathRoutes) : pathRoutes[i] = e
  BY DEF Routed, Range
<1>4. \A i, j \in 1..Len(pathRoutes) :
        i < j => Len(RoutePath(pathRoutes[i])) >= Len(RoutePath(pathRoutes[j]))
  BY DEF Routed, LongestFirst, IsSorted
<1>5. CASE I = {}
  BY <1>1, <1>2, <1>3, <1>5
<1>6. CASE I # {}
  <2>1. I \in SUBSET Nat
    OBVIOUS
  <2>2. first \in I /\ \A i \in I : first <= i
    BY <1>1, <1>6, <2>1, SmallestExists
  <2> HIDE DEF first
  <2>3. first \in 1..Len(pathRoutes) /\ first # 0 /\ Covers(pathRoutes[first], path)
    BY <2>2
  <2>4. Match(host, path) = pathRoutes[first] /\ pathRoutes[first] \in WithPath
    BY <1>2, <1>3, <2>3
  <2>5. ASSUME NEW f \in WithPath, Covers(f, path)
        PROVE  Len(RoutePath(pathRoutes[first])) >= Len(RoutePath(f))
    <3>1. PICK j \in 1..Len(pathRoutes) : pathRoutes[j] = f
      BY <1>3
    <3>2. first <= j
      BY <2>2, <2>5, <3>1
    <3>3. CASE first = j
      <4>1. RoutePath(f) \in Texts
        BY ServedTypes, RoutePathForm DEF WithPath
      <4>2. Len(RoutePath(f)) \in Nat
        BY <4>1 DEF Texts
      <4> QED
        BY <3>1, <3>3, <4>2
    <3>4. CASE first < j
      BY <1>4, <2>3, <3>1, <3>4
    <3> QED
      BY <2>3, <3>2, <3>3, <3>4
  <2> QED
    BY <2>3, <2>4, <2>5
<1> QED
  BY <1>5, <1>6

\* What Answer(r) is, whoever it goes to.
LEMMA AnswerForm ==
  ASSUME NEW r \in Requests
  PROVE  /\ Answer(r).to = Match(r.host, Decode(r.raw)) /\ Answer(r).request = r
         /\ Answer(r).to # NoRoute => Answer(r).url = Rewrite(Answer(r).to, ParseURL(r.raw))
BY RequestForm DEF Answer

-----------------------------------------------------------------------------
(* The theorems *)

ConfigIInv == NormalizingInv /\ RouterInv

LEMMA StutterKeeps ==
  ASSUME ConfigIInv, UNCHANGED configVars
  PROVE  ConfigIInv'
<1>1. /\ Settled /\ UNCHANGED <<phase, pending, current, envs, config, todo, tableVars, envVars>>
      /\ UNCHANGED routerVars
  BY DEF configVars, loadVars, Settled
<1>2. CASE phase = "environment"
  <2>1. \A app \in {App(current)} : ResolvingInv(app)
    BY <1>2 DEF ConfigIInv, NormalizingInv, AppsInv
  <2>2. \A app \in {App(current)} : ResolvingInv(app)'
    BY <1>1, <2>1 DEF ResolvingInv, envVars, FilesRead
  <2> QED
    BY <1>1, <1>2, <2>2, EnvironmentStep, RouterStays DEF ConfigIInv
<1>3. CASE phase # "environment"
  <2>1. /\ LoadInv' /\ sources' = sources /\ load' = load /\ Acceptable' = Acceptable
        /\ \A x : /\ App(x)' = App(x) /\ Sane(x)' = Sane(x) /\ Good(x)' = Good(x)
                  /\ Endpoints(x)' = Endpoints(x)
    BY <1>1, SettledStays DEF ConfigIInv, NormalizingInv, Settled
  <2>2. Working' = Working
    BY <1>1 DEF Working
  <2>3. PhaseInv'
    BY <1>1, <2>1 DEF ConfigIInv, NormalizingInv, PhaseInv
  <2>4. EnvironmentLayered' /\ TablesInv'
    BY <1>1, <2>1 DEF ConfigIInv, NormalizingInv, AppsInv, EnvironmentLayered, EndpointsInv,
                      tableVars, TablesInv
  <2>5. AppsInv' /\ EndpointsInv'
    BY <1>1, <1>3, <2>1, <2>2, <2>4 DEF ConfigIInv, NormalizingInv, AppsInv, EndpointsInv
  <2>6. RouterInv'
    <3>1. Routed => Routed'
      BY <1>1 DEF routerVars, Routed, WithPath, LongestFirst, IsSorted
    <3>2. \A r : Answer(r)' = Answer(r)
      BY <1>1, AnswerStays DEF routerVars
    <3> QED
      BY <1>1, <3>1, <3>2 DEF ConfigIInv, RouterInv, routerVars
  <2> QED
    BY <2>1, <2>3, <2>5, <2>6 DEF ConfigIInv, NormalizingInv
<1> QED
  BY <1>2, <1>3

\* What every reachable state satisfies: files are on the stack once, each app is waiting,
\* being normalised or done with, the tables are those of the endpoints registered, and
\* the routes, once there are any, are of those.
THEOREM ConfigInvariant == ConfigSpec => []ConfigIInv
<1>1. ConfigInit => ConfigIInv
  <2> SUFFICES ASSUME ConfigInit PROVE ConfigIInv
    OBVIOUS
  <2>1. /\ disk \in Disks /\ stack = <<>> /\ sources = <<>> /\ load = "start"
        /\ config = {} /\ todo = {} /\ paths = {} /\ hosts = {} /\ ports = {} /\ listenPorts = {}
        /\ hostRoutes = <<>> /\ pathRoutes = <<>> /\ answer = [to |-> NoRoute]
        /\ phase = "load" /\ pending = {} /\ envs = <<>>
    BY DEF ConfigInit, LoadInit, NormalizeInit, RouterInit
  <2>2. DOMAIN sources = {} /\ DOMAIN envs = {} /\ Len(stack) = 0 /\ Working = {}
    BY <2>1 DEF Working
  <2>3. LoadInv
    <3>1. stack \in Seq(Frame) /\ 1..Len(stack) = {} /\ 1..Len(stack) - 1 = {}
      BY <2>1, <2>2
    <3> QED
      BY <2>1, <2>2, <3>1 DEF LoadInv, StackInv, SourcesInv
  <2>4. PhaseInv /\ AppsInv
    BY <2>1, <2>2 DEF PhaseInv, AppsInv, EnvironmentLayered, Failures
  <2>5. EndpointsInv
    BY <2>1, <2>2, FS_EmptySet DEF EndpointsInv, TablesInv, Sound
  <2>6. RouterInv
    BY <2>1 DEF RouterInv
  <2> QED
    BY <2>3, <2>4, <2>5, <2>6 DEF ConfigIInv, NormalizingInv
<1>2. ConfigIInv /\ [ConfigNext]_configVars => ConfigIInv'
  <2> SUFFICES ASSUME ConfigIInv, [ConfigNext]_configVars PROVE ConfigIInv'
    OBVIOUS
  <2> USE DEF ConfigIInv
  <2>1. CASE Load
    <3>1. phase # "serving" /\ phase' # "serving" /\ UNCHANGED routerVars
      BY <2>1 DEF Load
    <3> QED
      BY <2>1, <3>1, LoadStepKeeps, RouterStays
  <2>2. ASSUME NEW id \in pending, BeginApp(id) PROVE ConfigIInv'
    <3>1. phase # "serving" /\ phase' # "serving" /\ UNCHANGED routerVars
      BY <2>2 DEF BeginApp, Reject
    <3> QED
      BY <2>2, <3>1, BeginAppKeeps, RouterStays
  <2>3. ASSUME NEW e \in todo, NormalizeEndpoint(e) PROVE ConfigIInv'
    <3>1. phase # "serving" /\ phase' # "serving" /\ UNCHANGED routerVars
      BY <2>3 DEF NormalizeEndpoint, Reject
    <3> QED
      BY <2>3, <3>1, EndpointKeeps, RouterStays
  <2>4. CASE BeginEnvironment
    <3>1. phase # "serving" /\ phase' # "serving" /\ UNCHANGED routerVars
      BY <2>4 DEF BeginEnvironment, Reject
    <3> QED
      BY <2>4, <3>1, BeginEnvironmentKeeps, RouterStays
  <2>5. CASE ReadEnvironment
    <3>1. phase # "serving" /\ phase' # "serving" /\ UNCHANGED routerVars
      BY <2>5 DEF ReadEnvironment, Reject
    <3> QED
      BY <2>5, <3>1, ReadEnvironmentKeeps, RouterStays
  <2>6. ASSUME NEW key \in inline, ResolveEntry(key) PROVE ConfigIInv'
    <3>1. phase # "serving" /\ phase' # "serving" /\ UNCHANGED routerVars
      BY <2>6 DEF ResolveEntry, Reject
    <3> QED
      BY <2>6, <3>1, ResolveEntryKeeps, RouterStays
  <2>7. CASE EndApp
    <3>1. phase # "serving" /\ phase' # "serving" /\ UNCHANGED routerVars
      BY <2>7 DEF EndApp
    <3> QED
      BY <2>7, <3>1, EndAppKeeps, RouterStays
  <2>8. CASE StartServing
    BY <2>8, ServingKeeps, StartServingRoutes
  <2>9. ASSUME NEW r \in Requests, HandleRequest(r) PROVE ConfigIInv'
    BY <2>9, ServingKeeps, HandleRequestRoutes
  <2>10. CASE UNCHANGED configVars
    BY <2>10, StutterKeeps
  <2> QED
    BY <2>1, <2>2, <2>3, <2>4, <2>5, <2>6, <2>7, <2>8, <2>9, <2>10 DEF ConfigNext
<1> QED
  BY <1>1, <1>2, PTL DEF ConfigSpec

\* Loading that ends has come to all that is in the files, and loading that fails says why.
THEOREM LoadsTheGraph == ConfigSpec => []LoadedExactly
<1>1. ConfigInit => GraphInv
  <2> SUFFICES ASSUME ConfigInit PROVE GraphInv
    OBVIOUS
  <2>1. load = "start" /\ stack = <<>> /\ sources = <<>>
    BY DEF ConfigInit, LoadInit
  <2>2. DOMAIN sources = {} /\ 1..Len(stack) = {}
    BY <2>1
  <2>3. PathInv
    BY <2>2 DEF PathInv, Along
  <2>4. SeenInv /\ FailInv
    BY <2>1, <2>2 DEF SeenInv, FailInv, Visited, Failures
  <2> QED
    BY <2>3, <2>4 DEF GraphInv
<1>2. ConfigIInv /\ ConfigIInv' /\ GraphInv /\ [ConfigNext]_configVars => GraphInv'
  <2> SUFFICES ASSUME ConfigIInv, ConfigIInv', GraphInv, [ConfigNext]_configVars
               PROVE  GraphInv'
    OBVIOUS
  <2>1. LoadInv /\ LoadInv'
    BY DEF ConfigIInv, NormalizingInv
  <2>2. CASE Load
    BY <2>1, <2>2, LoadSees DEF Load
  <2>3. CASE UNCHANGED loadVars
    BY <2>1, <2>3, GraphIdles
  <2> QED
    BY <2>2, <2>3 DEF ConfigNext, configVars, BeginApp, NormalizeEndpoint, BeginEnvironment,
       ReadEnvironment, ResolveEntry, EndApp, StartServing, HandleRequest
<1>3. ConfigIInv /\ GraphInv => LoadedExactly
  <2> SUFFICES ASSUME ConfigIInv, GraphInv PROVE LoadedExactly
    OBVIOUS
  <2>1. disk \in Disks
    BY StackTypes DEF ConfigIInv, NormalizingInv
  <2>2. CASE load = "loaded"
    <3>1. \A c \in Walks : Visited(c) /\ Len(c) <= Cardinality(DOMAIN disk)
      BY <2>2 DEF GraphInv, SeenInv, Visited
    <3>2. Chains = Walks
      BY <2>1, <3>1, ChainsAreWalks
    <3>3. ~Cyclic
      BY <3>1, <3>2 DEF Cyclic, GraphInv, SeenInv
    <3>4. \A c \in Chains : End(c) # Unresolved /\ Valid(End(c))
      BY <2>1, <3>1, <3>2, ResourcesAssumption DEF GraphInv, SeenInv
    <3>5. Loadable
      BY <3>1, <3>2, <3>3, <3>4 DEF Loadable, GraphInv, SeenInv
    <3>6. DOMAIN sources = UNION {DOMAIN disk[End(c)].apps : c \in Chains}
      <4>1. \A id : id \in DOMAIN sources <=> \E c \in Chains : id \in DOMAIN disk[End(c)].apps
        BY <2>2, <3>1, <3>2 DEF GraphInv, SeenInv, Failures
      <4> QED
        BY <4>1
    <3> QED
      BY <2>2, <3>5, <3>6 DEF LoadedExactly, Failures
  <2>3. CASE load # "loaded"
    BY <2>3 DEF LoadedExactly, GraphInv, FailInv, Failures
  <2> QED
    BY <2>2, <2>3
<1> QED
  BY <1>1, <1>2, <1>3, ConfigInvariant, PTL DEF ConfigSpec

\* In whatever order the maps of Normalize are walked, a configuration is rejected exactly
\* when one of its apps or two of its endpoints are wrong (ConfigInv).
THEOREM RejectedWhenWrong == ConfigSpec => []ConfigInv
<1>1. ConfigIInv => ConfigInv
  <2> SUFFICES ASSUME ConfigIInv PROVE ConfigInv
    OBVIOUS
  <2>1. LoadTypeOK /\ pending \cup DOMAIN envs \subseteq DOMAIN sources
    BY LoadTypes DEF ConfigIInv, NormalizingInv, AppsInv
  <2>2. RouterTypeOK
    <3>1. CASE phase # "serving"
      <4>1. pathRoutes = <<>> /\ hostRoutes = <<>> /\ answer.to = NoRoute
        BY <3>1 DEF ConfigIInv, RouterInv
      <4>2. Range(pathRoutes) = {} /\ Range(hostRoutes) = {}
        BY <4>1 DEF Range
      <4> QED
        BY <4>1, <4>2 DEF RouterTypeOK
    <3>2. CASE phase = "serving"
      <4>1. Routed /\ NormalizingInv
        BY <3>2 DEF ConfigIInv, RouterInv
      <4>2. Range(pathRoutes) \cup Range(hostRoutes) \subseteq config
        BY <4>1 DEF Routed, WithPath, Range
      <4>3. CASE answer = [to |-> NoRoute]
        BY <4>2, <4>3 DEF RouterTypeOK
      <4>4. ASSUME NEW r \in Requests, answer = Answer(r) PROVE RouterTypeOK
        <5>1. answer.to \in config \cup {NoRoute}
          <6>1. CASE \E e \in config : RequestHostname(r.host) \in HostNames(e)
            BY <3>2, <4>1, <4>4, <6>1, MatchedByHost, AnswerForm
          <6>2. CASE \A e \in config : RequestHostname(r.host) \notin HostNames(e)
            BY <3>2, <4>1, <4>4, <6>2, MatchedByPath, AnswerForm, RequestForm DEF WithPath
          <6> QED
            BY <6>1, <6>2
        <5>2. answer.to # NoRoute => answer.url.path # <<>>
          BY <4>4, AnswerForm, RequestForm, RewrittenForm
        <5> QED
          BY <4>2, <5>1, <5>2 DEF RouterTypeOK
      <4> QED
        BY <3>2, <4>3, <4>4 DEF ConfigIInv, RouterInv
    <3> QED
      BY <3>1, <3>2
  <2>3. phase = "rejected" /\ load = "loaded" => ~Acceptable
    BY DEF ConfigIInv, NormalizingInv, PhaseInv, Failures
  <2>4. phase = "serving" => Acceptable /\ config = AllEndpoints
    BY ServedIsAcceptable DEF ConfigIInv
  <2> QED
    BY <2>1, <2>2, <2>3, <2>4 DEF ConfigIInv, NormalizingInv, PhaseInv, ConfigInv, ConfigTypeOK
<1> QED
  BY <1>1, ConfigInvariant, PTL

\* Every command of an app runs with the environment that the layers give, whatever the
\* order in which a map gave the inline entries (EnvironmentLayered).
THEOREM EnvironmentsLayered == ConfigSpec => []EnvironmentLayered
<1>1. ConfigIInv => EnvironmentLayered
  BY DEF ConfigIInv, NormalizingInv, AppsInv
<1> QED
  BY <1>1, ConfigInvariant, PTL

\* A request goes to the endpoint of its host, or to that of the longest path above its
\* own, whatever the order the routes came in (MostSpecific).
THEOREM RoutedToMostSpecific == ConfigSpec => []MostSpecific
<1>1. ConfigIInv => MostSpecific
  <2> SUFFICES ASSUME ConfigIInv, "request" \in DOMAIN answer PROVE MostSpecific
    BY DEF MostSpecific
  <2>1. phase = "serving" /\ Routed /\ NormalizingInv
    BY DEF ConfigIInv, RouterInv
  <2>2. PICK r \in Requests : answer = Answer(r)
    BY <2>1 DEF ConfigIInv, RouterInv
  <2> DEFINE path    == Decode(r.raw)
             to      == answer.to
             byHost  == {e \in config : RequestHostname(r.host) \in HostNames(e)}
             mounted == {e \in config : e.path # Unset /\ Mounted(e, path)}
             best    == {e \in mounted : \A f \in mounted : IsPrefix(RoutePath(f), RoutePath(e))}
  <2>3. answer.request = r /\ to = Match(r.host, path) /\ path \in Texts
    BY <2>2, AnswerForm, RequestForm
  <2>4. \A e \in WithPath : /\ RoutePath(e) \in Texts
                            /\ RoutePath(e) # <<>> => RoutePath(e)[1] = Slash
                            /\ Covers(e, path) <=> Mounted(e, path)
    BY <2>1, <2>3, ServedTypes, RoutePathForm, CoversIsMounted DEF WithPath
  <2>5. mounted = {e \in WithPath : Covers(e, path)}
    BY <2>4 DEF WithPath
  <2> HIDE DEF path, to, mounted
  <2>6. byHost # {} => byHost = {to}
    BY <2>1, <2>3, MatchedByHost
  <2>7. ASSUME byHost = {}, mounted = {}
        PROVE  to = NoRoute
    BY <2>1, <2>3, <2>5, <2>7, MatchedByPath
  <2>8. ASSUME byHost = {}, mounted # {}
        PROVE  best = {to}
    <3>1. /\ to \in mounted
          /\ \A f \in mounted : Len(RoutePath(to)) >= Len(RoutePath(f))
      BY <2>1, <2>3, <2>5, <2>8, MatchedByPath
    <3>2. \A f \in mounted : IsPrefix(RoutePath(f), RoutePath(to))
      BY <2>3, <2>4, <2>5, <3>1, LongestIsBelow
    <3>3. ASSUME NEW e \in best PROVE e = to
      <4>1. e \in mounted /\ IsPrefix(RoutePath(to), RoutePath(e))
        BY <3>1
      <4>2. RoutePath(e) = RoutePath(to)
        BY <2>4, <2>5, <3>1, <3>2, <4>1, PrefixesEqual
      <4> QED
        BY <2>1, <2>5, <3>1, <4>1, <4>2, ServedTypes DEF Conflict, WithPath
    <3> QED
      BY <3>1, <3>2, <3>3
  <2> QED
    BY <2>3, <2>6, <2>7, <2>8 DEF MostSpecific, path, to, mounted
<1> QED
  BY <1>1, ConfigInvariant, PTL

\* What goes on the request line to a backend, after the path it is mounted at, is what the
\* client sent after that path, and by host and with includePrefix all that the client sent;
\* and where it does not start with a slash is named (ForwardedFits).
THEOREM ForwardedAsAsked == ConfigSpec => []ForwardedFits
<1>1. ConfigIInv => ForwardedFits
  <2> SUFFICES ASSUME ConfigIInv, answer.to # NoRoute PROVE ForwardedFits
    BY DEF ForwardedFits
  <2>1. answer # [to |-> NoRoute]
    OBVIOUS
  <2>2. phase = "serving" /\ Routed /\ NormalizingInv
    BY <2>1 DEF ConfigIInv, RouterInv
  <2>3. PICK r \in Requests : answer = Answer(r)
    BY <2>1, <2>2 DEF ConfigIInv, RouterInv
  <2> DEFINE e    == answer.to
             p    == RoutePath(e)
             raw  == r.raw
             path == Decode(raw)
             sent == EscapedPath(answer.url)
  <2>4. /\ answer.request = r /\ e = Match(r.host, path)
        /\ answer.url = Rewrite(e, ParseURL(raw))
    BY <2>3, AnswerForm
  <2>5. /\ raw \in Texts /\ raw # <<>> /\ Len(raw) \in Nat \ {0} /\ raw[1] = Slash
        /\ path \in Texts /\ Len(path) = Len(raw) /\ path[1] = Slash
    BY RequestForm
  <2>6. CASE e.path = Unset \/ e.includePrefix
    <3>1. answer.url = [path |-> path, raw |-> IF path = raw THEN <<>> ELSE raw]
      BY <2>4, <2>6 DEF Rewrite, ParseURL
    <3>2. sent = raw
      BY <2>5, <3>1 DEF EscapedPath
    <3> QED
      BY <2>4, <2>6, <3>2 DEF ForwardedFits
  <2>7. CASE ~(e.path = Unset \/ e.includePrefix)
    <3> HIDE DEF e, path, raw, sent
    <3>1. \A f \in config : RequestHostname(r.host) \notin HostNames(f)
      <4> SUFFICES ASSUME NEW f \in config, RequestHostname(r.host) \in HostNames(f)
                   PROVE  FALSE
        OBVIOUS
      <4>1. e = f
        BY <2>2, <2>4, MatchedByHost
      <4> QED
        BY <2>7, <4>1 DEF HostNames
    <3>2. e # NoRoute
      BY DEF e
    <3>3. e \in WithPath /\ Covers(e, path)
      BY <2>2, <2>4, <2>5, <3>1, <3>2, MatchedByPath
    <3>4. p \in Texts /\ Len(p) \in Nat /\ (p # <<>> => Len(p) >= 1 /\ p[1] = Slash)
      <4>1. p \in Texts /\ (p # <<>> => Len(p) >= 1 /\ p[1] = Slash)
        BY <2>2, <3>3, ServedTypes, RoutePathForm DEF WithPath
      <4> QED
        BY <4>1 DEF Texts
    <3>5. SlashPath[1] = Slash /\ Len(SlashPath) = 1
      BY DEF SlashPath
    <3>6. IsPrefix(p, path)
      <4>1. CASE p = SlashPath
        <5> HIDE DEF p
        <5>1. Len(p) = 1 /\ p[1] = Slash
          BY <3>5, <4>1
        <5>2. \A i \in 1..Len(p) : p[i] = path[i]
          BY <2>5, <5>1
        <5>3. Len(p) <= Len(path)
          BY <2>5, <5>1
        <5> QED
          BY <2>5, <3>4, <5>2, <5>3, PrefixElements
      <4>2. CASE p # SlashPath
        BY <2>5, <3>3, <3>4, <4>2, MountedIsPrefix
      <4> QED
        BY <4>1, <4>2
    <3>7. /\ sent = IF IsPrefix(p, raw) THEN Rest(raw, p) ELSE Rest(path, p)
          /\ Decode(sent) = Rest(path, p)
      BY <2>4, <2>7, <3>4, <3>6, SentForm DEF path, raw, sent
    <3>8. /\ path = p => Rest(path, p) = SlashPath
          /\ path # p => /\ path = p \o Rest(path, p) /\ Len(path) > Len(p)
                         /\ Len(Rest(path, p)) = Len(path) - Len(p)
                         /\ \A i \in 1..Len(path) - Len(p) : Rest(path, p)[i] = path[Len(p) + i]
      BY <2>5, <3>4, <3>6, TrimmedForm
    <3>9. IsPrefix(p, raw) =>
            /\ raw = p => Rest(raw, p) = SlashPath
            /\ raw # p => /\ raw = p \o Rest(raw, p) /\ Len(raw) > Len(p)
                          /\ Len(Rest(raw, p)) = Len(raw) - Len(p)
                          /\ \A i \in 1..Len(raw) - Len(p) : Rest(raw, p)[i] = raw[Len(p) + i]
      BY <2>5, <3>4, TrimmedForm
    <3> HIDE DEF p
    <3>10. path \in {p \o Decode(sent), p}
      BY <3>7, <3>8
    <3>11. IsPrefix(p, raw) => raw \in {p \o sent, p}
      BY <3>7, <3>9
    <3>12. path = p => sent = SlashPath
      <4>1. path = p /\ IsPrefix(p, raw) => raw = p
        BY <2>5, <3>4, <3>9
      <4> QED
        BY <3>7, <3>8, <3>9, <4>1
    <3>13. ASSUME p # SlashPath, raw[Len(p) + 1] = Slash
           PROVE  sent[1] = Slash
      <4>1. CASE IsPrefix(p, raw) /\ raw # p
        <5>1. 1 \in 1..Len(raw) - Len(p)
          BY <2>5, <3>4, <3>9, <4>1
        <5> QED
          BY <3>7, <3>9, <3>13, <4>1, <5>1
      <4>2. CASE IsPrefix(p, raw) /\ raw = p
        BY <3>5, <3>7, <3>9, <4>2
      <4>3. CASE ~IsPrefix(p, raw) /\ path = p
        BY <3>5, <3>7, <3>8, <4>3
      <4>4. CASE ~IsPrefix(p, raw) /\ path # p
        <5>1. path[Len(p) + 1] = Slash
          BY <3>3, <3>13, <4>4 DEF Covers, p
        <5>2. 1 \in 1..Len(path) - Len(p)
          BY <2>5, <3>4, <3>8, <4>4
        <5> QED
          BY <3>7, <3>8, <4>4, <5>1, <5>2
      <4> QED
        BY <4>1, <4>2, <4>3, <4>4
    <3> QED
      BY <2>4, <2>7, <3>10, <3>11, <3>12, <3>13 DEF ForwardedFits, e, p, path, raw, sent
  <2> QED
    BY <2>6, <2>7
<1> QED
  BY <1>1, ConfigInvariant, PTL

=============================================================================
