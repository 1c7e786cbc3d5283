------------------------------- MODULE TuiProofs -------------------------------
(***************************************************************************)
(* Proofs about LogView.tla and Tui.tla, for any services, inputs, filters *)
(* and sizes: what a frame shows and where a paused one stays; which keys  *)
(* the bytes typed are, wherever reads cut them; and what the event loop   *)
(* and its goroutines owe each other.                                      *)
(***************************************************************************)
EXTENDS Tui, StoreProofs, FiniteSetTheorems, SequenceTheorems,
  WellFoundedInduction

-----------------------------------------------------------------------------
(* Positions *)

\* A set of naturals has a smallest element, if it has any.
LEMMA SmallestExists ==
  ASSUME NEW T \in SUBSET Nat, T # {}
  PROVE  Min(T) \in T /\ \A y \in T : Min(T) <= y
<1> DEFINE R == OpToRel(<, Nat)
<1>1. IsWellFoundedOn(R, Nat)
  BY NatLessThanWellFounded
<1>2. \A x, y \in Nat : x < y => <<x, y>> \in R
  BY DEF OpToRel
<1> HIDE DEF R
<1>3. PICK x \in T : \A y \in T : <<y, x>> \notin R
  BY <1>1, WFMin
<1>4. \A y \in T : x <= y
  <2> SUFFICES ASSUME NEW y \in T PROVE x <= y
    OBVIOUS
  <2>1. ~(y < x)
    BY <1>2, <1>3
  <2> QED
    BY <2>1
<1> QED
  BY <1>3, <1>4 DEF Min

\* A set of positions up to n has a largest one, if it has any.
LEMMA LargestExists ==
  ASSUME NEW n \in Nat, NEW T \in SUBSET (1..n), T # {}
  PROVE  Max(T) \in T /\ \A y \in T : y <= Max(T)
<1> DEFINE U == {n - i : i \in T}
<1>1. U \in SUBSET Nat /\ U # {}
  <2>1. \A i \in T : n - i \in Nat
    OBVIOUS
  <2>2. PICK i \in T : TRUE
    OBVIOUS
  <2> QED
    BY <2>1, <2>2
<1>2. Min(U) \in U /\ \A u \in U : Min(U) <= u
  BY <1>1, SmallestExists
<1>3. PICK x \in T : Min(U) = n - x
  BY <1>2
<1>4. \A y \in T : y <= x
  <2> SUFFICES ASSUME NEW y \in T PROVE y <= x
    OBVIOUS
  <2>1. n - x <= n - y
    BY <1>2, <1>3
  <2> QED
    BY <2>1
<1> QED
  BY <1>4 DEF Max

\* A limit and zero leave of a number what lies between them.
LEMMA MaxOfTwo ==
  ASSUME NEW a \in Int, NEW b \in Int
  PROVE  Max({a, b}) = (IF a >= b THEN a ELSE b) /\ Min({a, b}) = (IF a <= b THEN a ELSE b)
<1>1. PICK x \in {a, b} : \A y \in {a, b} : x >= y
  OBVIOUS
<1>2. PICK z \in {a, b} : \A y \in {a, b} : z <= y
  OBVIOUS
<1>3. Max({a, b}) \in {a, b} /\ \A y \in {a, b} : Max({a, b}) >= y
  BY <1>1 DEF Max
<1>4. Min({a, b}) \in {a, b} /\ \A y \in {a, b} : Min({a, b}) <= y
  BY <1>2 DEF Min
<1> QED
  BY <1>3, <1>4

\* The ranks of n positions are 1 to n, in their order.
LEMMA RankIsOrder ==
  ASSUME NEW n \in Nat, NEW P \in SUBSET (1..n)
  PROVE  /\ Cardinality(P) \in 0..n
         /\ \A i \in P : Rank(P, i) \in 1..Cardinality(P)
         /\ \A i, j \in P : i < j => Rank(P, i) < Rank(P, j)
         /\ \A k \in 1..Cardinality(P) : \E i \in P : Rank(P, i) = k
<1> DEFINE Upto(i) == {j \in P : j <= i}
           f == [i \in P |-> Rank(P, i)]
           c == Cardinality(P)
<1>1. IsFiniteSet(1..n) /\ Cardinality(1..n) = n
  BY FS_Interval
<1>2. IsFiniteSet(P) /\ c \in 0..n
  <2>1. IsFiniteSet(P) /\ c <= n
    BY <1>1, FS_Subset
  <2> QED
    BY <2>1, FS_CardinalityType
<1>3. ASSUME NEW i \in P
      PROVE  /\ Rank(P, i) = Cardinality(Upto(i)) /\ IsFiniteSet(Upto(i))
             /\ Rank(P, i) \in 1..c
  <2>1. Rank(P, i) = Cardinality(Upto(i))
    BY DEF Rank
  <2>2. IsFiniteSet(Upto(i)) /\ Cardinality(Upto(i)) <= c
    BY <1>2, FS_Subset
  <2>3. Cardinality(Upto(i)) \in Nat /\ Cardinality(Upto(i)) # 0
    <3>1. i \in Upto(i)
      OBVIOUS
    <3> QED
      BY <2>2, <3>1, FS_EmptySet, FS_CardinalityType
  <2> QED
    BY <1>2, <2>1, <2>2, <2>3
<1>4. ASSUME NEW i \in P, NEW j \in P, i < j
      PROVE  Rank(P, i) < Rank(P, j)
  <2>0. i \in Int /\ j \in Int /\ \A k \in P : k \in Int
    OBVIOUS
  <2>1. Upto(i) \subseteq Upto(j) /\ j \in Upto(j) /\ j \notin Upto(i)
    <3>1. \A k \in P : k <= i => k <= j
      BY <1>4, <2>0
    <3>2. ~(j <= i)
      BY <1>4, <2>0
    <3>3. Upto(i) \subseteq Upto(j)
      BY <3>1
    <3>4. j \in Upto(j)
      BY <2>0
    <3> QED
      BY <3>2, <3>3, <3>4
  <2>2. /\ Cardinality(Upto(i)) <= Cardinality(Upto(j))
        /\ Cardinality(Upto(i)) # Cardinality(Upto(j))
    BY <1>3, <2>1, FS_Subset
  <2> QED
    BY <1>3, <2>2
<1>i. 0..n \subseteq Int
  OBVIOUS
<1> HIDE DEF c, Upto
<1>5. f \in Injection(P, 1..c)
  <2>1. f \in [P -> 1..c]
    BY <1>3
  <2>2. \A i, j \in P : f[i] = f[j] => i = j
    <3> SUFFICES ASSUME NEW i \in P, NEW j \in P, i # j PROVE f[i] # f[j]
      OBVIOUS
    <3>1. i < j \/ j < i
      OBVIOUS
    <3>2. Rank(P, i) \in 1..c /\ Rank(P, j) \in 1..c /\ c \in Int
      BY <1>2, <1>3, <1>i, Zenon
    <3> QED
      BY <1>4, <3>1, <3>2
  <2> QED
    BY <2>1, <2>2 DEF Injection, IsInjective
<1>6. IsFiniteSet(1..c) /\ Cardinality(1..c) = c
  BY <1>2, FS_Interval
<1>7. f \in Surjection(P, 1..c)
  BY <1>5, <1>6, FS_Injection DEF c
<1>8. \A k \in 1..c : \E i \in P : Rank(P, i) = k
  BY <1>7 DEF Surjection
<1> QED
  BY <1>2, <1>3, <1>4, <1>8 DEF c

\* What is picked are the elements at those positions, and they keep their order.
LEMMA PickedInOrder ==
  ASSUME NEW S, NEW s \in Seq(S), NEW P \in SUBSET (DOMAIN s)
  PROVE  /\ Picked(s, P) \in Seq(S) /\ Len(Picked(s, P)) \in 0..Len(s)
         /\ Range(Picked(s, P)) = {s[i] : i \in P}
         /\ \A k, l \in DOMAIN Picked(s, P) : k < l =>
              \E i, j \in P : i < j /\ Picked(s, P)[k] = s[i] /\ Picked(s, P)[l] = s[j]
<1> DEFINE c == Cardinality(P)
           At(k) == CHOOSE i \in P : Rank(P, i) = k
           picked == Picked(s, P)
<1>1. DOMAIN s = 1..Len(s) /\ Len(s) \in Nat
  OBVIOUS
<1>2. /\ c \in 0..Len(s)
      /\ \A i \in P : Rank(P, i) \in 1..c
      /\ \A i, j \in P : i < j => Rank(P, i) < Rank(P, j)
      /\ \A k \in 1..c : \E i \in P : Rank(P, i) = k
  BY <1>1, RankIsOrder
<1>3. \A k \in 1..c : At(k) \in P /\ Rank(P, At(k)) = k
  BY <1>2
<1>4. picked = [k \in 1..c |-> s[At(k)]]
  BY DEF Picked
<1>5. \A i, j \in P : Rank(P, i) <= Rank(P, j) => i <= j
  BY <1>1, <1>2
<1>6. \A i \in P : At(Rank(P, i)) = i
  <2> SUFFICES ASSUME NEW i \in P PROVE At(Rank(P, i)) = i
    OBVIOUS
  <2>1. At(Rank(P, i)) \in P /\ Rank(P, At(Rank(P, i))) = Rank(P, i)
    BY <1>2, <1>3
  <2> HIDE DEF At
  <2>2. i <= At(Rank(P, i)) /\ At(Rank(P, i)) <= i
    BY <1>2, <1>5, <2>1
  <2> QED
    BY <1>1, <2>1, <2>2
<1> HIDE DEF At
<1>7. \A k \in 1..c : s[At(k)] \in S
  BY <1>1, <1>3
<1>8. picked \in Seq(S) /\ Len(picked) = c /\ DOMAIN picked = 1..c
  BY <1>2, <1>4, <1>7
<1>9. \A k \in 1..c : picked[k] = s[At(k)]
  BY <1>4
<1> HIDE DEF picked
<1>10. Range(picked) = {s[i] : i \in P}
  <2>1. \A k \in DOMAIN picked : picked[k] \in {s[i] : i \in P}
    BY <1>3, <1>8, <1>9
  <2>2. \A i \in P : Rank(P, i) \in DOMAIN picked /\ picked[Rank(P, i)] = s[i]
    BY <1>2, <1>6, <1>8, <1>9
  <2> QED
    BY <2>1, <2>2 DEF Range
<1>11. ASSUME NEW k \in 1..c, NEW l \in 1..c, k < l
       PROVE  \E i, j \in P : i < j /\ picked[k] = s[i] /\ picked[l] = s[j]
  <2>1. At(k) < At(l)
    <3>1. ~(At(l) <= At(k))
      <4>1. CASE At(l) = At(k)
        BY <1>3, <1>11, <4>1
      <4>2. CASE At(l) < At(k)
        BY <1>2, <1>3, <1>11, <4>2
      <4> QED
        BY <1>1, <1>3, <4>1, <4>2
    <3> QED
      BY <1>1, <1>3, <3>1
  <2> QED
    BY <1>3, <1>9, <2>1
<1> QED
  BY <1>2, <1>8, <1>10, <1>11 DEF picked

-----------------------------------------------------------------------------
(* The pane *)

\* A log keeps the end of what its target has logged: what is gone is older.
LEMMA KeptIsTail ==
  ASSUME StoreInv, NEW t \in Targets
  PROVE  /\ kept[t] \in Seq(Entries) /\ logged[t] \in Seq(Entries)
         /\ Range(kept[t]) \subseteq Range(logged[t])
         /\ \A i, j \in DOMAIN kept[t] : i < j => kept[t][i].seq < kept[t][j].seq
         /\ \A e \in Range(logged[t]) : \A f \in Range(kept[t]) :
              e \notin Range(kept[t]) => e.seq < f.seq
         /\ \A e, f \in Range(logged[t]) : e.seq = f.seq => e = f
         /\ \A e \in Range(logged[t]) : e \in Entries /\ e.seq \in 1..seq
<1> DEFINE log == logged[t]
           keep == kept[t]
           n == Len(keep)
           l == Len(log)
<1>1. keep \in Seq(Entries) /\ log \in Seq(Entries) /\ seq \in Nat
  BY DEF StoreInv, StoreTypeOK
<1>2. n \in Nat /\ l \in Nat /\ DOMAIN keep = 1..n /\ DOMAIN log = 1..l
  BY <1>1
<1>3. n <= l /\ \A i \in 1..n : keep[i] = log[l - n + i]
  BY DEF StoreInv, LatestKept
<1>4. \A i, j \in DOMAIN log : /\ log[i].seq <= seq
                               /\ i < j => log[i].seq < log[j].seq
  BY DEF StoreInv, Numbered
<1>5. \A i \in 1..l : log[i] \in Entries /\ log[i].seq \in Nat \ {0}
  <2>1. \A i \in 1..l : log[i] \in Entries
    BY <1>1
  <2> QED
    BY <2>1 DEF Entries
<1> HIDE DEF log, keep, n, l
<1>6. \A i \in 1..n : l - n + i \in 1..l
  BY <1>2, <1>3
<1>7. \A i, j \in 1..n : i < j => l - n + i < l - n + j
  BY <1>2
<1>8. \A e \in Range(log) : \E i \in 1..l : e = log[i]
  BY <1>2 DEF Range
<1>9. \A e \in Range(keep) : \E i \in 1..n : e = keep[i]
  BY <1>2 DEF Range
<1>10. \A i \in 1..n : keep[i] \in Range(keep) /\ keep[i] \in Range(log)
  <2>1. \A i \in 1..n : keep[i] \in Range(keep)
    BY <1>2 DEF Range
  <2>2. \A i \in 1..l : log[i] \in Range(log)
    BY <1>2 DEF Range
  <2> QED
    BY <1>3, <1>6, <2>1, <2>2
<1>11. Range(keep) \subseteq Range(log)
  BY <1>9, <1>10
<1>12. \A i, j \in DOMAIN keep : i < j => keep[i].seq < keep[j].seq
  BY <1>2, <1>3, <1>4, <1>6, <1>7
<1>13. ASSUME NEW e \in Range(log), NEW f \in Range(keep), e \notin Range(keep)
       PROVE  e.seq < f.seq
  <2>1. PICK i \in 1..l : e = log[i]
    BY <1>8
  <2>2. PICK j \in 1..n : f = keep[j]
    BY <1>9
  <2>3. i <= l - n
    <3>1. SUFFICES ASSUME ~(i <= l - n) PROVE FALSE
      OBVIOUS
    <3>2. i - (l - n) \in 1..n /\ l - n + (i - (l - n)) = i
      BY <1>2, <1>3, <3>1
    <3>3. keep[i - (l - n)] = log[l - n + (i - (l - n))]
      BY <1>3, <3>2
    <3> QED
      BY <1>10, <1>13, <2>1, <3>2, <3>3
  <2>4. i < l - n + j
    BY <1>2, <1>3, <2>3
  <2> QED
    BY <1>2, <1>3, <1>4, <1>6, <2>1, <2>2, <2>4
<1>14. \A e, f \in Range(log) : e.seq = f.seq => e = f
  <2> SUFFICES ASSUME NEW e \in Range(log), NEW f \in Range(log), e.seq = f.seq
               PROVE  e = f
    OBVIOUS
  <2>1. PICK i \in 1..l : e = log[i]
    BY <1>8
  <2>2. PICK j \in 1..l : f = log[j]
    BY <1>8
  <2>3. ~(i < j) /\ ~(j < i)
    <3>1. log[i].seq \in Nat /\ log[j].seq \in Nat
      BY <1>5
    <3> QED
      BY <1>2, <1>4, <2>1, <2>2, <3>1
  <2> QED
    BY <1>2, <2>1, <2>2, <2>3
<1>15. \A e \in Range(log) : e \in Entries /\ e.seq \in 1..seq
  BY <1>1, <1>2, <1>4, <1>5, <1>8
<1> QED
  BY <1>1, <1>11, <1>12, <1>13, <1>14, <1>15 DEF log, keep

\* The rows are the entries kept that match, in the order of their numbers.
LEMMA RowsAre ==
  ASSUME StoreInv, target \in Targets
  PROVE  /\ Rows \in Seq(Entries)
         /\ Range(Rows) = {e \in Range(kept[target]) : Shown(e)}
         /\ \A i, j \in DOMAIN Rows : i < j => Rows[i].seq < Rows[j].seq
<1> DEFINE keep == kept[target]
           P == {i \in DOMAIN keep : Shown(keep[i])}
<1>1. /\ keep \in Seq(Entries)
      /\ \A i, j \in DOMAIN keep : i < j => keep[i].seq < keep[j].seq
  BY KeptIsTail
<1>2. Rows = Picked(keep, P) /\ P \in SUBSET (DOMAIN keep)
  BY DEF Rows
<1>3. {keep[i] : i \in P} = {e \in Range(keep) : Shown(e)}
  BY DEF Range
<1> HIDE DEF keep, P
<1>4. /\ Picked(keep, P) \in Seq(Entries)
      /\ Range(Picked(keep, P)) = {keep[i] : i \in P}
      /\ \A k, l \in DOMAIN Picked(keep, P) : k < l =>
           \E i, j \in P : i < j /\ Picked(keep, P)[k] = keep[i] /\ Picked(keep, P)[l] = keep[j]
  BY <1>1, <1>2, PickedInOrder
<1>5. \A i, j \in DOMAIN Rows : i < j => Rows[i].seq < Rows[j].seq
  <2> SUFFICES ASSUME NEW k \in DOMAIN Rows, NEW l \in DOMAIN Rows, k < l
               PROVE  Rows[k].seq < Rows[l].seq
    OBVIOUS
  <2>1. PICK i \in P, j \in P : i < j /\ Rows[k] = keep[i] /\ Rows[l] = keep[j]
    BY <1>2, <1>4
  <2> QED
    BY <1>1, <1>2, <2>1
<1> QED
  BY <1>2, <1>3, <1>4, <1>5 DEF keep

Back(rows) == Min({offset, Max({0, Len(rows) - 1})})

\* The last row to draw is one of the rows.  Of a paused frame it is the last up to the
\* anchor, or the first row when all come after the anchor.
LEMMA EndIsARow ==
  ASSUME NEW rows \in Seq(Entries), offset \in Nat, NEW anchor \in Nat
  PROVE  LET end == EndRow(rows, Back(rows), anchor)
         IN  /\ end \in 0..Len(rows) /\ (rows # <<>> => end >= 1)
             /\ rows # <<>> /\ offset > 0 /\ anchor # 0 =>
                  /\ end = 1 \/ rows[end].seq <= anchor
                  /\ \A i \in DOMAIN rows : rows[i].seq <= anchor => i <= end
<1> DEFINE n == Len(rows)
           back == Back(rows)
           end == EndRow(rows, back, anchor)
           T == {1} \cup {i \in DOMAIN rows : rows[i].seq <= anchor}
<1>1. n \in Nat /\ DOMAIN rows = 1..n /\ (rows = <<>> <=> n = 0)
  OBVIOUS
<1>2. back = IF n = 0 THEN 0 ELSE IF offset <= n - 1 THEN offset ELSE n - 1
  <2>1. Max({0, n - 1}) = IF n = 0 THEN 0 ELSE n - 1
    <3>1. Max({0, n - 1}) = IF 0 >= n - 1 THEN 0 ELSE n - 1
      BY <1>1, MaxOfTwo
    <3> QED
      BY <1>1, <3>1
  <2>2. Max({0, n - 1}) \in Int
    BY <1>1, <2>1
  <2>3. back = IF offset <= Max({0, n - 1}) THEN offset ELSE Max({0, n - 1})
    <3>1. \A a, b \in Int : Min({a, b}) = IF a <= b THEN a ELSE b
      BY MaxOfTwo, Zenon
    <3>2. offset \in Int
      OBVIOUS
    <3> QED
      BY <2>2, <3>1, <3>2, Zenon DEF Back
  <2> QED
    BY <1>1, <2>1, <2>3
<1>3. rows # <<>> => Max(T) \in T /\ \A y \in T : y <= Max(T)
  <2>1. rows # <<>> => T \in SUBSET (1..n) /\ T # {}
    BY <1>1
  <2> HIDE DEF T
  <2> QED
    BY <1>1, <2>1, LargestExists
<1>4. end = IF back > 0 /\ anchor # 0 THEN Max(T) ELSE n - back
  BY DEF EndRow
<1> HIDE DEF end, back
<1>5. CASE rows = <<>>
  BY <1>1, <1>2, <1>4, <1>5 DEF end, back
<1>6. CASE rows # <<>> /\ back > 0 /\ anchor # 0
  <2>1. end \in T /\ \A y \in T : y <= end
    BY <1>3, <1>4, <1>6
  <2>2. end \in 1..n
    BY <1>1, <1>6, <2>1
  <2> QED
    BY <1>1, <1>6, <2>1, <2>2 DEF end, back
<1>7. CASE rows # <<>> /\ ~(back > 0 /\ anchor # 0)
  <2>0. n >= 1
    BY <1>1, <1>7
  <2>b. back = IF offset <= n - 1 THEN offset ELSE n - 1
    <3>1. ~(n = 0)
      BY <1>1, <2>0
    <3> QED
      BY <1>2, <3>1, Zenon
  <2>e. end = n - back
    BY <1>4, <1>7
  <2>a. n \in Nat /\ offset \in Nat
    BY <1>1
  <2> HIDE DEF n
  <2>1. end = n - back /\ back \in 0..(n - 1)
    BY <2>0, <2>a, <2>b, <2>e
  <2>2. offset > 0 /\ anchor # 0 => n = 1 /\ end = 1
    <3>1. anchor # 0 => ~(back > 0)
      BY <1>7
    <3>2. anchor # 0 => back = 0
      BY <2>1, <2>a, <3>1
    <3> QED
      BY <2>0, <2>a, <2>b, <2>e, <3>2
  <2>3. end \in 1..n
    BY <2>1, <2>a
  <2> QED
    BY <1>1, <1>7, <2>2, <2>3 DEF end, back, n
<1> QED
  BY <1>5, <1>6, <1>7

\* What logLines draws and keeps of it.
LEMMA DrawIs ==
  ASSUME StoreInv, target \in Targets, offset \in Nat, logEnd \in 0..seq, Draw
  PROVE  \E end \in 0..Len(Rows), first \in Nat \ {0} :
           /\ frame' = SubSeq(Rows, first, end) /\ first <= end + 1
           /\ Rows # <<>> => first <= end
           /\ offset' = Len(Rows) - end
           /\ logEnd' = IF end < Len(Rows) THEN Rows[end].seq ELSE IF offset = 0 THEN 0 ELSE logEnd
           /\ Rows # <<>> /\ offset > 0 /\ logEnd # 0 =>
                /\ end = 1 \/ Rows[end].seq <= logEnd
                /\ \A i \in DOMAIN Rows : Rows[i].seq <= logEnd => i <= end
<1> DEFINE rows   == Rows
           anchor == IF offset = 0 THEN 0 ELSE logEnd
           end    == EndRow(rows, Back(rows), anchor)
           first  == Max({0, end - Height}) + 1
<1>1. rows \in Seq(Entries) /\ seq \in Nat /\ Height \in Nat \ {0}
  BY RowsAre, ViewAssumption DEF StoreInv, StoreTypeOK
<1>2. anchor \in Nat
  BY <1>1
<1>3. /\ offset' = Len(rows) - end
      /\ logEnd' = IF end < Len(rows) THEN rows[end].seq ELSE anchor
      /\ frame' = SubSeq(rows, first, end)
  BY DEF Draw, Back
<1> HIDE DEF rows, anchor
<1>4. /\ end \in 0..Len(rows) /\ (rows # <<>> => end >= 1)
      /\ rows # <<>> /\ offset > 0 /\ anchor # 0 =>
           /\ end = 1 \/ rows[end].seq <= anchor
           /\ \A i \in DOMAIN rows : rows[i].seq <= anchor => i <= end
  BY <1>1, <1>2, EndIsARow
<1>5. offset > 0 => anchor = logEnd
  BY DEF anchor
<1> HIDE DEF end
<1>6. first = IF end >= Height THEN end - Height + 1 ELSE 1
  <2>1. Max({0, end - Height}) = IF 0 >= end - Height THEN 0 ELSE end - Height
    BY <1>1, <1>4, MaxOfTwo
  <2> QED
    BY <1>1, <1>4, <2>1
<1>7. first \in Nat \ {0} /\ first <= end + 1 /\ (end >= 1 => first <= end)
  BY <1>1, <1>4, <1>6
<1> HIDE DEF first
<1>8. logEnd' = IF end < Len(rows) THEN rows[end].seq ELSE IF offset = 0 THEN 0 ELSE logEnd
  BY <1>3 DEF anchor
<1> QED
  BY <1>3, <1>4, <1>5, <1>7, <1>8 DEF rows

\* The end of what is shown of a paused frame is what its anchor says.
PausedInv ==
  since = "none" /\ offset > 0 =>
    /\ frame # <<>> /\ logEnd = Last(frame).seq
    /\ Last(frame) \in Range(logged[target]) /\ Shown(Last(frame))

ViewInv == ViewTypeOK /\ frame \in Seq(Entries) /\ ShownInOrder /\ PausedInv

LEMMA ViewBegins ==
  ASSUME StoreInit, ViewInit
  PROVE  ViewInv
<1>1. frame = <<>> /\ frame \in Seq(Entries) /\ Range(frame) = {} /\ DOMAIN frame = {}
  BY DEF ViewInit, Range
<1> QED
  BY <1>1 DEF ViewInit, StoreInit, ViewInv, ViewTypeOK, ShownInOrder, PausedInv

\* A frame shows what there is of its target between its ends.
LEMMA DrawKeeps ==
  ASSUME StoreInv, ViewInv, Draw, UNCHANGED storeVars
  PROVE  ViewInv'
<1> DEFINE rows == Rows
<1>1. /\ target \in Targets /\ offset \in Nat /\ logEnd \in 0..seq /\ seq \in Nat
      /\ target' = target /\ logFilter' = logFilter /\ since' = "none"
      /\ seq' = seq /\ kept' = kept /\ logged' = logged
  BY DEF ViewInv, ViewTypeOK, StoreInv, StoreTypeOK, Draw, storeVars
<1>2. /\ rows \in Seq(Entries)
      /\ Range(rows) = {e \in Range(kept[target]) : Shown(e)}
      /\ \A i, j \in DOMAIN rows : i < j => rows[i].seq < rows[j].seq
  BY <1>1, RowsAre
<1>3. /\ kept[target] \in Seq(Entries) /\ logged[target] \in Seq(Entries)
      /\ Range(kept[target]) \subseteq Range(logged[target])
      /\ \A e \in Range(logged[target]) : \A f \in Range(kept[target]) :
           e \notin Range(kept[target]) => e.seq < f.seq
      /\ \A e, f \in Range(logged[target]) : e.seq = f.seq => e = f
      /\ \A e \in Range(logged[target]) : e \in Entries /\ e.seq \in 1..seq
  BY <1>1, KeptIsTail
<1>4. PICK end \in 0..Len(rows), first \in Nat \ {0} :
        /\ frame' = SubSeq(rows, first, end) /\ first <= end + 1
        /\ rows # <<>> => first <= end
        /\ offset' = Len(rows) - end
        /\ logEnd' = IF end < Len(rows) THEN rows[end].seq ELSE IF offset = 0 THEN 0 ELSE logEnd
  BY <1>1, DrawIs
<1> HIDE DEF rows
<1>5. /\ DOMAIN rows = 1..Len(rows) /\ Len(rows) \in Nat
      /\ \A i \in 1..Len(rows) : rows[i] \in Range(logged[target]) /\ Shown(rows[i])
                                 /\ rows[i].seq \in 1..seq /\ rows[i] \in Range(kept[target])
  <2>1. DOMAIN rows = 1..Len(rows) /\ Len(rows) \in Nat
    BY <1>2
  <2>2. \A i \in 1..Len(rows) : rows[i] \in Range(rows)
    BY <2>1 DEF Range
  <2> QED
    BY <1>2, <1>3, <2>1, <2>2
<1>6. /\ frame' \in Seq(Entries) /\ Len(frame') = end - first + 1 /\ DOMAIN frame' = 1..Len(frame')
      /\ Len(frame') \in Nat
      /\ \A i \in 1..Len(frame') : frame'[i] = rows[first + i - 1] /\ first + i - 1 \in first..end
  <2>1. first..end \subseteq 1..Len(rows)
    BY <1>4, <1>5
  <2>2. \A i \in first..end : rows[i] \in Entries
    BY <1>2, <1>5, <2>1
  <2>3. /\ frame' \in Seq(Entries)
        /\ Len(frame') = IF first <= end THEN end - first + 1 ELSE 0
        /\ \A i \in 1..(end - first + 1) : frame'[i] = rows[first + i - 1]
    BY <1>2, <1>4, <2>1, <2>2, SubSeqProperties
  <2>4. end - first + 1 \in Nat
    BY <1>4
  <2>5. \A i \in 1..(end - first + 1) : first + i - 1 \in first..end
    BY <1>4
  <2> QED
    BY <1>4, <2>3, <2>4, <2>5
<1>7. first..end \subseteq 1..Len(rows)
  BY <1>4, <1>5
<1>8. ViewTypeOK'
  <2>1. offset' \in Nat
    BY <1>4, <1>5
  <2>2. logEnd' \in 0..seq
    <3>1. CASE end < Len(rows)
      <4>1. end \in 1..Len(rows)
        BY <1>4, <1>5, <3>1
      <4> QED
        BY <1>4, <1>5, <3>1, <4>1
    <3>2. CASE ~(end < Len(rows))
      BY <1>1, <1>4, <3>2
    <3> QED
      BY <3>1, <3>2
  <2> QED
    BY <1>1, <2>1, <2>2 DEF ViewTypeOK
<1>9. ShownInOrder'
  <2>1. \A e : Shown(e)' <=> Shown(e)
    BY <1>1 DEF Shown
  <2>2. \A e \in Range(frame') : \E i \in 1..Len(frame') : e = frame'[i]
    BY <1>6 DEF Range
  <2>3. \A e \in Range(frame') : e \in Range(logged[target]) /\ Shown(e)
    BY <1>5, <1>6, <1>7, <2>2
  <2>4. \A i, j \in DOMAIN frame' : i < j => frame'[i].seq < frame'[j].seq
    <3> SUFFICES ASSUME NEW i \in DOMAIN frame', NEW j \in DOMAIN frame', i < j
                 PROVE  frame'[i].seq < frame'[j].seq
      OBVIOUS
    <3>1. first + i - 1 < first + j - 1
      BY <1>4, <1>6
    <3>2. /\ first + i - 1 \in DOMAIN rows /\ frame'[i] = rows[first + i - 1]
          /\ first + j - 1 \in DOMAIN rows /\ frame'[j] = rows[first + j - 1]
      BY <1>5, <1>6, <1>7
    <3> QED
      BY <1>2, <3>1, <3>2
  <2>5. ASSUME NEW e \in Range(logged[target]), Shown(e),
               NEW i \in DOMAIN frame', NEW j \in DOMAIN frame',
               frame'[i].seq <= e.seq, e.seq <= frame'[j].seq
        PROVE  e \in Range(frame')
    <3>1. frame'[i] \in Range(kept[target]) /\ frame'[i].seq \in Nat /\ e.seq \in Nat
      <4>1. first + i - 1 \in 1..Len(rows) /\ frame'[i] = rows[first + i - 1]
        BY <1>6, <1>7
      <4>2. \A k \in 1..seq : k \in Nat
        BY <1>1
      <4> QED
        BY <1>3, <1>5, <4>1, <4>2
    <3>2. e \in Range(kept[target])
      BY <1>3, <2>5, <3>1
    <3>3. PICK x \in 1..Len(rows) : e = rows[x]
      <4>1. e \in Range(rows)
        BY <1>2, <2>5, <3>2
      <4> QED
        BY <1>5, <4>1 DEF Range
    <3>4. ~(x < first + i - 1) /\ ~(first + j - 1 < x)
      <4>1. first + i - 1 \in 1..Len(rows) /\ first + j - 1 \in 1..Len(rows)
        BY <1>6, <1>7
      <4>2. rows[first + i - 1].seq <= rows[x].seq /\ rows[x].seq <= rows[first + j - 1].seq
        BY <1>6, <2>5, <3>3
      <4>3. /\ rows[x].seq \in Nat /\ rows[first + i - 1].seq \in Nat
            /\ rows[first + j - 1].seq \in Nat
        BY <1>5, <3>3, <4>1
      <4> QED
        BY <1>2, <1>5, <4>1, <4>2, <4>3
    <3>5. x - first + 1 \in DOMAIN frame' /\ first + (x - first + 1) - 1 = x
      <4>1. i <= Len(frame') /\ j <= Len(frame') /\ i \in Nat /\ j \in Nat /\ i >= 1
        BY <1>6
      <4> QED
        BY <1>4, <1>6, <3>4, <4>1
    <3>6. frame'[x - first + 1] = e
      BY <1>6, <3>3, <3>5
    <3> QED
      BY <3>5, <3>6 DEF Range
  <2> QED
    BY <1>1, <2>1, <2>3, <2>4, <2>5 DEF ShownInOrder
<1>10. PausedInv'
  <2> SUFFICES ASSUME offset' > 0
               PROVE  /\ frame' # <<>> /\ logEnd' = Last(frame').seq
                      /\ Last(frame') \in Range(logged[target]) /\ Shown(Last(frame'))
    BY <1>1 DEF PausedInv, Shown
  <2>1. end < Len(rows) /\ rows # <<>>
    BY <1>4, <1>5
  <2>2. Len(frame') >= 1 /\ first + Len(frame') - 1 = end
    BY <1>4, <1>6, <2>1
  <2>3. frame' # <<>> /\ Last(frame') = rows[end] /\ end \in 1..Len(rows)
    BY <1>6, <1>7, <2>2 DEF Last
  <2> QED
    BY <1>4, <1>5, <2>1, <2>3
<1> QED
  BY <1>6, <1>8, <1>9, <1>10 DEF ViewInv

\* A paused frame is drawn again where it was, or from the oldest entry there is.
LEMMA DrawStays ==
  ASSUME StoreInv, ViewInv, Draw, since = "none", Rows # <<>>, offset > 0
  PROVE  PauseKept
<1> DEFINE rows == Rows
           last == Last(frame)
<1>1. /\ target \in Targets /\ offset \in Nat /\ logEnd \in 0..seq /\ seq \in Nat
  BY DEF ViewInv, ViewTypeOK, StoreInv, StoreTypeOK
<1>2. /\ rows \in Seq(Entries) /\ rows # <<>>
      /\ Range(rows) = {e \in Range(kept[target]) : Shown(e)}
      /\ \A i, j \in DOMAIN rows : i < j => rows[i].seq < rows[j].seq
  BY <1>1, RowsAre
<1>3. /\ Range(kept[target]) \subseteq Range(logged[target])
      /\ \A e \in Range(logged[target]) : \A f \in Range(kept[target]) :
           e \notin Range(kept[target]) => e.seq < f.seq
      /\ \A e \in Range(logged[target]) : e \in Entries /\ e.seq \in 1..seq
  BY <1>1, KeptIsTail
<1>4. logEnd = last.seq /\ last \in Range(logged[target]) /\ Shown(last)
  BY DEF ViewInv, PausedInv
<1>5. logEnd \in Nat /\ logEnd # 0
  BY <1>1, <1>3, <1>4
<1>6. PICK end \in 0..Len(rows), first \in Nat \ {0} :
        /\ frame' = SubSeq(rows, first, end) /\ first <= end /\ offset' = Len(rows) - end
        /\ end = 1 \/ rows[end].seq <= logEnd
        /\ \A i \in DOMAIN rows : rows[i].seq <= logEnd => i <= end
  BY <1>1, <1>2, <1>5, DrawIs
<1> HIDE DEF rows, last
<1>7. /\ DOMAIN rows = 1..Len(rows) /\ Len(rows) \in Nat
      /\ \A i \in 1..Len(rows) : rows[i] \in Range(rows) /\ rows[i] \in Range(kept[target])
                                 /\ rows[i].seq \in Nat
  <2>1. DOMAIN rows = 1..Len(rows) /\ Len(rows) \in Nat
    BY <1>2
  <2>2. \A i \in 1..Len(rows) : rows[i] \in Range(rows)
    BY <2>1 DEF Range
  <2>3. \A k \in 1..seq : k \in Nat
    BY <1>1
  <2> QED
    BY <1>2, <1>3, <2>1, <2>2, <2>3
<1>8. end \in 1..Len(rows) /\ first..end \subseteq 1..Len(rows)
  BY <1>6, <1>7
<1>9. frame' # <<>> /\ Last(frame') = rows[end] /\ rows[Len(rows) - offset'] = rows[end]
  <2>1. \A i \in first..end : rows[i] \in Entries
    BY <1>2, <1>7, <1>8
  <2>2. /\ Len(frame') = end - first + 1
        /\ \A i \in 1..(end - first + 1) : frame'[i] = rows[first + i - 1]
    BY <1>6, <1>8, <2>1, SubSeqProperties
  <2>3. Len(frame') \in 1..(end - first + 1) /\ first + Len(frame') - 1 = end
    BY <1>6, <1>8, <2>2
  <2>4. frame' # <<>>
    BY <2>3
  <2>5. Len(rows) - offset' = end
    BY <1>6, <1>7
  <2> QED
    BY <2>2, <2>3, <2>4, <2>5 DEF Last
<1>10. CASE Retained(last)
  <2>1. PICK x \in 1..Len(rows) : last = rows[x]
    <3>1. last \in Range(rows)
      BY <1>2, <1>4, <1>10 DEF Retained
    <3> QED
      BY <1>7, <3>1 DEF Range
  <2>2. x <= end
    BY <1>4, <1>6, <1>7, <2>1
  <2>3. ~(x < end)
    <3>1. CASE end = 1
      BY <1>7, <3>1
    <3>2. CASE rows[end].seq <= logEnd
      BY <1>2, <1>4, <1>7, <1>8, <2>1, <3>2
    <3> QED
      BY <1>6, <3>1, <3>2
  <2>4. x = end
    BY <1>7, <1>8, <2>2, <2>3
  <2> QED
    BY <1>9, <1>10, <2>1, <2>4 DEF PauseKept, last, rows
<1>11. CASE ~Retained(last)
  <2>1. \A i \in 1..Len(rows) : last.seq < rows[i].seq
    BY <1>3, <1>4, <1>7, <1>11 DEF Retained
  <2>2. end = 1
    BY <1>4, <1>5, <1>6, <1>7, <1>8, <2>1
  <2> QED
    BY <1>9, <1>11, <2>2 DEF PauseKept, rows, last
<1> QED
  BY <1>10, <1>11

\* Keys that look elsewhere or scroll; the next frame is not drawn yet.
PaneKey ==
  \/ \E t \in Targets : \E f : Look(t, f)
  \/ \E delta \in Int : Scroll(delta)

\* Snapshots turn the pane only when no service was selected.
SnapshotTurns == Selected = NoService /\ \E t \in Targets : LookAlong(t)

LEMMA PaneTurns ==
  ASSUME StoreInv, ViewInv, PaneKey \/ SnapshotTurns, UNCHANGED storeVars
  PROVE  /\ ViewInv' /\ since' # "none"
         /\ since' = "snapshot" => SnapshotTurns
<1>1. seq' = seq /\ seq \in Nat /\ target \in Targets /\ offset \in Nat /\ logEnd \in 0..seq
  BY DEF storeVars, StoreInv, StoreTypeOK, ViewInv, ViewTypeOK
<1>2. /\ target' \in Targets /\ logEnd' \in {0, logEnd} /\ frame' = frame
      /\ since' \in {"up", "snapshot", "other"} /\ offset' \in Nat
      /\ since' = "snapshot" => SnapshotTurns
  <2>1. ASSUME NEW t \in Targets, NEW f, Look(t, f)
        PROVE  /\ target' \in Targets /\ logEnd' \in {0, logEnd} /\ frame' = frame
               /\ since' \in {"up", "other"} /\ offset' \in Nat
    BY <2>1 DEF Look, Turn
  <2>2. ASSUME NEW delta \in Int, Scroll(delta)
        PROVE  /\ target' \in Targets /\ logEnd' \in {0, logEnd} /\ frame' = frame
               /\ since' \in {"up", "other"} /\ offset' \in Nat
    <3>1. offset + delta \in Int /\ MaxOffset \in Nat /\ MaxOffset \in Int
      BY <1>1, ViewAssumption
    <3>2. Max({0, offset + delta}) \in Nat
      BY <3>1, MaxOfTwo
    <3>m. \A x \in Nat : Min({MaxOffset, x}) \in Nat
      <4>1. \A x \in Int : Min({MaxOffset, x}) = IF MaxOffset <= x THEN MaxOffset ELSE x
        BY <3>1, MaxOfTwo, Zenon
      <4> QED
        BY <3>1, <4>1
    <3>3. Min({MaxOffset, Max({0, offset + delta})}) \in Nat
      BY <3>2, <3>m, Zenon
    <3> QED
      BY <1>1, <2>2, <3>3 DEF Scroll
  <2>3. ASSUME NEW t \in Targets, LookAlong(t)
        PROVE  /\ target' \in Targets /\ logEnd' \in {0, logEnd} /\ frame' = frame
               /\ since' \in {"snapshot", "other"} /\ offset' \in Nat
    BY <2>3 DEF LookAlong, Turn
  <2> QED
    BY <2>1, <2>2, <2>3 DEF PaneKey, SnapshotTurns
<1> QED
  BY <1>1, <1>2 DEF ViewInv, ViewTypeOK, ShownInOrder, PausedInv

\* A new entry comes after all that a frame shows.
LEMMA EntryKeeps ==
  ASSUME StoreInv, ViewInv, NEW t \in Targets, NEW text \in Texts, Log(t, text),
         UNCHANGED viewVars
  PROVE  ViewInv'
<1> DEFINE entry == [seq |-> seq + 1, text |-> text]
<1>1. /\ seq' = seq + 1 /\ seq \in Nat /\ target \in Targets /\ logEnd \in 0..seq
      /\ logged'[target] \in {logged[target], Append(logged[target], entry)}
      /\ logged[target] \in Seq(Entries) /\ entry.seq = seq + 1
  BY LogEffect DEF StoreInv, StoreTypeOK, ViewInv, ViewTypeOK
<1>2. /\ \A e \in Range(logged[target]) : e.seq \in 1..seq
  BY <1>1, KeptIsTail
<1>3. target' = target /\ frame' = frame /\ since' = since /\ offset' = offset /\ logEnd' = logEnd
      /\ \A e : Shown(e)' <=> Shown(e)
  BY DEF viewVars, Shown
<1> HIDE DEF entry
<1>4. /\ Range(logged[target]) \subseteq Range(logged'[target])
      /\ \A e \in Range(logged'[target]) : e \in Range(logged[target]) \/ e = entry
  <2>1. CASE logged'[target] = logged[target]
    BY <2>1
  <2>2. CASE logged'[target] = Append(logged[target], entry)
    <3>1. /\ DOMAIN logged[target] \subseteq DOMAIN logged'[target]
          /\ \A i \in DOMAIN logged[target] : logged'[target][i] = logged[target][i]
          /\ \A i \in DOMAIN logged'[target] : i \in DOMAIN logged[target] \/ logged'[target][i] = entry
      BY <1>1, <2>2
    <3> QED
      BY <3>1 DEF Range
  <2> QED
    BY <1>1, <2>1, <2>2
<1>5. ShownInOrder'
  <2> SUFFICES ASSUME since = "none"
               PROVE  /\ \A e \in Range(frame) : e \in Range(logged'[target]) /\ Shown(e)
                      /\ \A i, j \in DOMAIN frame : i < j => frame[i].seq < frame[j].seq
                      /\ \A e \in Range(logged'[target]) :
                           Shown(e) /\ (\E i, j \in DOMAIN frame : frame[i].seq <= e.seq /\ e.seq <= frame[j].seq)
                             => e \in Range(frame)
    BY <1>3 DEF ShownInOrder
  <2>1. /\ \A e \in Range(frame) : e \in Range(logged[target]) /\ Shown(e)
        /\ \A i, j \in DOMAIN frame : i < j => frame[i].seq < frame[j].seq
        /\ \A e \in Range(logged[target]) :
             Shown(e) /\ (\E i, j \in DOMAIN frame : frame[i].seq <= e.seq /\ e.seq <= frame[j].seq)
               => e \in Range(frame)
    BY DEF ViewInv, ShownInOrder
  <2>2. \A j \in DOMAIN frame : ~(entry.seq <= frame[j].seq)
    <3>1. \A j \in DOMAIN frame : frame[j] \in Range(frame)
      BY DEF Range
    <3> QED
      BY <1>1, <1>2, <2>1, <3>1
  <2> QED
    BY <1>4, <2>1, <2>2
<1> QED
  BY <1>1, <1>3, <1>4, <1>5 DEF ViewInv, ViewTypeOK, PausedInv

LEMMA PaneStands ==
  ASSUME ViewInv, UNCHANGED <<storeVars, viewVars>>
  PROVE  ViewInv'
  BY DEF ViewInv, ViewTypeOK, ShownInOrder, PausedInv, storeVars, viewVars, Shown

-----------------------------------------------------------------------------
(* The keys *)

KeyTypes == Seq(STRING \cup {"escape"})

\* nextKey takes the first key of its input, or waits for more of it, or gives up a
\* sequence that is too long.
LEMMA NextKeyIs ==
  ASSUME NEW s \in Seq(STRING)
  PROVE  LET k    == NextKey(s).key
             rest == NextKey(s).rest
         IN  /\ k \in KeyTypes /\ Len(rest) \in 0..Len(s)
             /\ k = None => Len(rest) = Len(s)
             /\ k # None =>
                  \/ /\ Len(s) > Limit /\ s[1] = "esc" /\ Introducer(s[2]) /\ \A i \in 3..Len(s) : ~Final(s[i])
                  \/ /\ Len(rest) = Len(s) - Width(k)
                     /\ \/ s[1] # "esc" /\ k = <<s[1]>> /\ Len(s) >= 1
                        \/ s[1] = "esc" /\ Len(s) >= 2 /\ ~Introducer(s[2]) /\ k = <<"escape">>
                        \/ /\ s[1] = "esc" /\ Introducer(s[2]) /\ Len(k) \in 3..Len(s)
                           /\ \A i \in 1..Len(k) : k[i] = s[i]
                           /\ Final(s[Len(k)]) /\ \A i \in 3..(Len(k) - 1) : ~Final(s[i])
<1> SUFFICES
      ASSUME NEW k, NEW rest, k = NextKey(s).key, rest = NextKey(s).rest
      PROVE  /\ k \in KeyTypes /\ Len(rest) \in 0..Len(s)
             /\ k = None => Len(rest) = Len(s)
             /\ k # None =>
                  \/ /\ Len(s) > Limit /\ s[1] = "esc" /\ Introducer(s[2]) /\ \A i \in 3..Len(s) : ~Final(s[i])
                  \/ /\ Len(rest) = Len(s) - Width(k)
                     /\ \/ s[1] # "esc" /\ k = <<s[1]>> /\ Len(s) >= 1
                        \/ s[1] = "esc" /\ Len(s) >= 2 /\ ~Introducer(s[2]) /\ k = <<"escape">>
                        \/ /\ s[1] = "esc" /\ Introducer(s[2]) /\ Len(k) \in 3..Len(s)
                           /\ \A i \in 1..Len(k) : k[i] = s[i]
                           /\ Final(s[Len(k)]) /\ \A i \in 3..(Len(k) - 1) : ~Final(s[i])
  OBVIOUS
<1> DEFINE Cut(n) == [key |-> SubSeq(s, 1, n), rest |-> SubSeq(s, n + 1, Len(s))]
           ends   == {i \in 3..Len(s) : Final(s[i])}
<1>0. Len(s) \in Nat /\ DOMAIN s = 1..Len(s) /\ \A i \in 1..Len(s) : s[i] \in STRING
  OBVIOUS
<1>a. \A a \in Nat : a >= 1 => a - 1 \in 0..a
  OBVIOUS
<1>1. ASSUME NEW n \in 1..Len(s)
      PROVE  /\ SubSeq(s, 1, n) \in KeyTypes /\ Len(SubSeq(s, 1, n)) = n
             /\ \A i \in 1..n : SubSeq(s, 1, n)[i] = s[i]
             /\ Len(SubSeq(s, n + 1, Len(s))) = Len(s) - n
             /\ SubSeq(s, 1, n) # None
  <2>1. n \in Int /\ n + 1 \in Int /\ 1 \in Int /\ Len(s) \in Int
    BY <1>0
  <2>2. \A i \in 1..n : s[i] \in STRING
    BY <1>0
  <2>3. \A i \in (n + 1)..Len(s) : s[i] \in STRING
    BY <1>0
  <2>4. /\ SubSeq(s, 1, n) \in Seq(STRING)
        /\ Len(SubSeq(s, 1, n)) = IF 1 <= n THEN n - 1 + 1 ELSE 0
        /\ \A i \in 1..(n - 1 + 1) : SubSeq(s, 1, n)[i] = s[1 + i - 1]
    BY <2>1, <2>2, SubSeqProperties
  <2>5. Len(SubSeq(s, n + 1, Len(s))) = IF n + 1 <= Len(s) THEN Len(s) - (n + 1) + 1 ELSE 0
    BY <2>1, <2>3, SubSeqProperties
  <2>6. Len(SubSeq(s, 1, n)) = n /\ Len(SubSeq(s, n + 1, Len(s))) = Len(s) - n
    <3>1. n \in Nat /\ 1 <= n /\ n <= Len(s)
      BY <1>0
    <3>2. n - 1 + 1 = n
      BY <3>1
    <3>a. \A a, b \in Nat : b <= a => a - b = IF b + 1 <= a THEN a - (b + 1) + 1 ELSE 0
      OBVIOUS
    <3>3. Len(s) - n = IF n + 1 <= Len(s) THEN Len(s) - (n + 1) + 1 ELSE 0
      BY <1>0, <3>1, <3>a, Zenon
    <3> QED
      BY <2>4, <2>5, <3>1, <3>2, <3>3, Zenon
  <2>7. \A i \in 1..n : SubSeq(s, 1, n)[i] = s[i]
    BY <2>4
  <2>8. SubSeq(s, 1, n) \in KeyTypes
    BY <2>4 DEF KeyTypes
  <2>9. SubSeq(s, 1, n) # None
    <3>1. Len(None) = 0
      BY DEF None
    <3> QED
      BY <2>6, <3>1
  <2> QED
    BY <2>6, <2>7, <2>8, <2>9
<1>2. <<"escape">> \in KeyTypes /\ <<"escape">> # None /\ Len(<<"escape">>) = 1 /\ None \in KeyTypes
      /\ Width(<<"escape">>) = 1 /\ \A l : Len(l) # 1 => Width(l) = Len(l)
  BY DEF KeyTypes, None, Width
<1>3. CASE s = <<>> \/ s = <<"esc">>
  <2>1. NextKey(s) = [key |-> None, rest |-> s]
    BY <1>3 DEF NextKey
  <2> QED
    BY <1>0, <1>2, <2>1
<1> DEFINE more == ~(s = <<>> \/ s = <<"esc">>)
<1>4. CASE more /\ s[1] # "esc"
  <2>1. Len(s) >= 1
    BY <1>0, <1>4
  <2>2. NextKey(s) = Cut(1)
    BY <1>4 DEF NextKey
  <2>a. k = SubSeq(s, 1, 1) /\ rest = SubSeq(s, 1 + 1, Len(s)) /\ 1 \in 1..Len(s)
    BY <1>0, <2>1, <2>2
  <2>3. /\ Len(k) = 1 /\ k \in KeyTypes /\ k # None
        /\ k[1] = s[1] /\ Len(rest) = Len(s) - 1
    <3>1. /\ Len(k) = 1 /\ k \in KeyTypes /\ k # None
          /\ Len(rest) = Len(s) - 1 /\ \A i \in 1..1 : k[i] = s[i]
      BY <1>1, <2>a, Zenon
    <3>2. 1 \in 1..1
      OBVIOUS
    <3> QED
      BY <3>1, <3>2, Zenon
  <2>4. k = <<s[1]>>
    <3>1. k \in Seq(STRING \cup {"escape"}) /\ Len(k) = 1 /\ k[1] = s[1]
      BY <2>3 DEF KeyTypes
    <3> QED
      BY <3>1
  <2>5. Width(k) = 1
    BY <2>3 DEF Width
  <2>6. Len(rest) \in 0..Len(s)
    BY <1>0, <1>a, <2>1, <2>3, Zenon
  <2> QED
    BY <1>4, <2>1, <2>3, <2>4, <2>5, <2>6
<1>5. CASE more /\ s[1] = "esc" /\ ~Introducer(s[2])
  <2>1. Len(s) >= 2
    BY <1>0, <1>5
  <2>2. NextKey(s) = [Cut(1) EXCEPT !.key = <<"escape">>]
    BY <1>5 DEF NextKey, Introducer
  <2>3. k = <<"escape">> /\ Len(rest) = Len(s) - 1
    <3>1. k = <<"escape">> /\ rest = SubSeq(s, 1 + 1, Len(s)) /\ 1 \in 1..Len(s)
      BY <1>0, <2>1, <2>2
    <3> QED
      BY <1>1, <3>1
  <2>4. Len(rest) \in 0..Len(s)
    <3>1. Len(s) >= 1
      BY <1>0, <2>1
    <3> QED
      BY <1>0, <1>a, <2>3, <3>1, Zenon
  <2>5. Len(rest) = Len(s) - Width(k) /\ k \in KeyTypes /\ k # None
    BY <1>2, <2>3
  <2> QED
    BY <1>5, <2>1, <2>3, <2>4, <2>5
<1>6. CASE more /\ s[1] = "esc" /\ Introducer(s[2]) /\ ends # {}
  <2>1. NextKey(s) = Cut(Min(ends))
    BY <1>6 DEF NextKey, Introducer
  <2>2. Min(ends) \in ends /\ \A y \in ends : Min(ends) <= y
    <3>1. ends \in SUBSET Nat
      BY <1>0
    <3> QED
      BY <1>6, <3>1, SmallestExists
  <2>3. PICK n \in 3..Len(s) : n = Min(ends) /\ Final(s[n]) /\ \A y \in ends : n <= y
    BY <2>2
  <2>4. \A i \in 3..(n - 1) : ~Final(s[i])
    BY <1>0, <2>3
  <2>5. n \in 1..Len(s) /\ NextKey(s) = Cut(n)
    BY <2>1, <2>3
  <2>6. /\ Len(k) = n /\ k \in KeyTypes /\ k # None
        /\ \A i \in 1..n : k[i] = s[i]
        /\ Len(rest) = Len(s) - n
    BY <1>1, <2>5
  <2>7. Width(k) = n
    BY <1>2, <2>3, <2>6
  <2> QED
    BY <1>0, <1>6, <2>3, <2>4, <2>6, <2>7
<1>7. CASE more /\ s[1] = "esc" /\ Introducer(s[2]) /\ ends = {}
  <2>1. NextKey(s) = IF Len(s) > Limit THEN [key |-> <<"escape">>, rest |-> <<>>]
                                       ELSE [key |-> None, rest |-> s]
    BY <1>7 DEF NextKey, Introducer
  <2>2. \A i \in 3..Len(s) : ~Final(s[i])
    BY <1>7
  <2>3. CASE Len(s) > Limit
    BY <1>0, <1>2, <1>7, <2>1, <2>2, <2>3
  <2>4. CASE ~(Len(s) > Limit)
    BY <1>0, <1>2, <2>1, <2>4
  <2> QED
    BY <2>3, <2>4
<1> QED
  BY <1>3, <1>4, <1>5, <1>6, <1>7

LEMMA AppendIs ==
  ASSUME NEW S, NEW s \in Seq(S), NEW e \in S
  PROVE  /\ Append(s, e) \in Seq(S)
         /\ Len(Append(s, e)) = Len(s) + 1 /\ DOMAIN Append(s, e) = 1..(Len(s) + 1)
         /\ \A i \in 1..Len(s) : Append(s, e)[i] = s[i]
         /\ Append(s, e)[Len(s) + 1] = e
  OBVIOUS

\* The reads are cut at rising positions, and each byte is in one place on its way.
InputInv ==
  /\ typed \in Seq(STRING)
  /\ framed \in 0..received /\ received \in 0..taken /\ taken \in 0..Len(typed)
  /\ keys \in Seq(Nat) /\ Len(keys) <= KeyRoom
  /\ \A i \in DOMAIN keys : keys[i] \in received..taken
  /\ \A i, j \in DOMAIN keys : i < j => keys[i] <= keys[j]

\* Where the input begins is where the last key ended.
FramingInv ==
  /\ handled \in Seq([key : KeyTypes, at : Nat])
  /\ KeysFramed
  /\ ~Malformed =>
       framed = IF handled = <<>> THEN 0
                ELSE handled[Len(handled)].at + Width(handled[Len(handled)].key)

LEMMA InputBegins ==
  ASSUME TuiInit
  PROVE  InputInv /\ FramingInv
<1>1. typed \in Seq(STRING) /\ Len(typed) \in Nat
  BY TuiAssumption DEF TuiInit
<1>2. /\ keys = <<>> /\ handled = <<>> /\ keys \in Seq(Nat) /\ Len(keys) = 0 /\ DOMAIN keys = {}
      /\ handled \in Seq([key : KeyTypes, at : Nat]) /\ DOMAIN handled = {}
  BY DEF TuiInit
<1>3. framed = 0 /\ received = 0 /\ taken = 0 /\ KeyRoom \in Nat
  BY TuiAssumption DEF TuiInit
<1> QED
  BY <1>1, <1>2, <1>3 DEF InputInv, FramingInv, KeysFramed

\* The reading goroutine and the channel.
LEMMA InputKept ==
  ASSUME InputInv, TakeKeys \/ ReadChunk \/ SendChunk
  PROVE  InputInv'
<1>0. /\ typed \in Seq(STRING) /\ Len(typed) \in Nat /\ keys \in Seq(Nat) /\ Len(keys) \in Nat
      /\ DOMAIN keys = 1..Len(keys) /\ KeyRoom \in Nat
      /\ framed \in 0..received /\ received \in 0..taken /\ taken \in 0..Len(typed)
      /\ taken \in Nat /\ received \in Nat /\ framed \in Nat
  BY TuiAssumption DEF InputInv
<1>1. CASE TakeKeys
  <2>1. /\ keys # <<>> /\ received' = Head(keys) /\ keys' = Tail(keys)
        /\ typed' = typed /\ taken' = taken /\ framed' = framed
    BY <1>1 DEF TakeKeys
  <2>2. /\ Head(keys) = keys[1] /\ 1 \in DOMAIN keys
        /\ Tail(keys) \in Seq(Nat) /\ Len(Tail(keys)) = Len(keys) - 1
        /\ \A i \in 1..Len(Tail(keys)) : Tail(keys)[i] = keys[i + 1]
    BY <1>0, <2>1, HeadTailProperties
  <2>3. received' \in received..taken
    BY <2>1, <2>2 DEF InputInv
  <2>4. DOMAIN keys' = 1..(Len(keys) - 1)
    BY <1>0, <2>1, <2>2
  <2>5. \A i \in DOMAIN keys' : /\ keys'[i] = keys[i + 1] /\ i + 1 \in DOMAIN keys /\ i + 1 > 1
                                /\ keys'[i] \in Nat
    BY <1>0, <2>1, <2>2, <2>4
  <2>6. \A i \in DOMAIN keys' : keys'[i] \in received'..taken
    <3> SUFFICES ASSUME NEW i \in DOMAIN keys' PROVE keys'[i] \in received'..taken
      OBVIOUS
    <3>1. keys'[i] = keys[i + 1] /\ i + 1 \in DOMAIN keys /\ 1 < i + 1 /\ keys'[i] \in Nat
      BY <2>4, <2>5, <1>0
    <3>2. keys[i + 1] \in received..taken /\ keys[1] <= keys[i + 1]
      BY <2>2, <3>1 DEF InputInv
    <3>3. received' = keys[1] /\ received' \in Nat
      BY <1>0, <2>1, <2>2, <2>3
    <3> QED
      BY <1>0, <3>1, <3>2, <3>3
  <2>7. \A i, j \in DOMAIN keys' : i < j => keys'[i] <= keys'[j]
    <3> SUFFICES ASSUME NEW i \in DOMAIN keys', NEW j \in DOMAIN keys', i < j
                 PROVE  keys'[i] <= keys'[j]
      OBVIOUS
    <3>1. i + 1 < j + 1
      BY <1>0, <2>4
    <3> QED
      BY <2>5, <3>1 DEF InputInv
  <2>8. Len(keys') <= KeyRoom
    BY <1>0, <2>1, <2>2 DEF InputInv
  <2>9. received' \in 0..taken /\ framed \in 0..received'
    BY <1>0, <2>3
  <2> QED
    BY <1>0, <2>1, <2>2, <2>6, <2>7, <2>8, <2>9 DEF InputInv
<1>2. CASE ReadChunk
  <2>1. /\ taken' \in (taken + 1)..Len(typed) /\ typed' = typed /\ keys' = keys
        /\ received' = received /\ framed' = framed
    BY <1>2 DEF ReadChunk, Others, inputVars
  <2>2. taken' \in 0..Len(typed) /\ received \in 0..taken' /\ taken < taken'
    BY <1>0, <2>1
  <2>3. \A i \in DOMAIN keys : keys[i] \in received..taken'
    BY <1>0, <2>1, <2>2 DEF InputInv
  <2> QED
    BY <2>1, <2>2, <2>3 DEF InputInv
<1>3. CASE SendChunk
  <2>1. /\ keys' = Append(keys, taken) /\ typed' = typed /\ taken' = taken
        /\ received' = received /\ framed' = framed /\ Len(keys) < KeyRoom
    BY <1>3 DEF SendChunk, Others, inputVars
  <2>2. /\ keys' \in Seq(Nat) /\ DOMAIN keys' = 1..(Len(keys) + 1) /\ Len(keys') = Len(keys) + 1
        /\ \A i \in 1..Len(keys) : keys'[i] = keys[i] /\ keys[i] \in Nat
        /\ keys'[Len(keys) + 1] = taken
    BY <1>0, <2>1
  <2>3. \A i \in DOMAIN keys' : i \in 1..Len(keys) \/ i = Len(keys) + 1
    BY <1>0, <2>2
  <2>4. \A i \in 1..Len(keys) : keys[i] \in received..taken /\ keys[i] <= taken
    BY <1>0 DEF InputInv
  <2>5. taken \in received..taken
    BY <1>0
  <2>6. \A i \in DOMAIN keys' : keys'[i] \in received..taken
    BY <2>2, <2>3, <2>4, <2>5
  <2>7. \A i, j \in DOMAIN keys' : i < j => keys'[i] <= keys'[j]
    <3> SUFFICES ASSUME NEW i \in DOMAIN keys', NEW j \in DOMAIN keys', i < j
                 PROVE  keys'[i] <= keys'[j]
      OBVIOUS
    <3>1. i \in 1..Len(keys)
      BY <1>0, <2>2
    <3>2. CASE j \in 1..Len(keys)
      BY <1>0, <2>2, <3>1, <3>2 DEF InputInv
    <3>3. CASE j = Len(keys) + 1
      BY <2>2, <2>4, <3>1, <3>3
    <3> QED
      BY <2>3, <3>2, <3>3
  <2>8. Len(keys') <= KeyRoom
    BY <1>0, <2>1, <2>2
  <2> QED
    BY <1>0, <2>1, <2>2, <2>6, <2>7, <2>8 DEF InputInv
<1> QED
  BY <1>1, <1>2, <1>3

\* The input is the bytes received that no key has taken.
LEMMA InputIs ==
  ASSUME InputInv
  PROVE  /\ Input \in Seq(STRING) /\ Len(Input) = received - framed
         /\ \A i \in 1..Len(Input) : Input[i] = typed[framed + i] /\ framed + i \in DOMAIN typed
<1>1. /\ typed \in Seq(STRING) /\ Len(typed) \in Nat /\ DOMAIN typed = 1..Len(typed)
      /\ framed \in Nat /\ received \in Nat /\ framed <= received /\ received <= Len(typed)
  BY DEF InputInv
<1>2. \A i \in (framed + 1)..received : i \in DOMAIN typed /\ typed[i] \in STRING
  BY <1>1
<1>3. /\ Input \in Seq(STRING)
      /\ Len(Input) = IF framed + 1 <= received THEN received - (framed + 1) + 1 ELSE 0
      /\ \A i \in 1..(received - (framed + 1) + 1) : Input[i] = typed[framed + 1 + i - 1]
  BY <1>1, <1>2, SubSeqProperties DEF Input
<1>4. received - (framed + 1) + 1 = received - framed
  BY <1>1
<1>5. Len(Input) = received - framed
  BY <1>1, <1>3
<1>6. \A i \in 1..Len(Input) : framed + 1 + i - 1 = framed + i /\ framed + i \in DOMAIN typed
  BY <1>1, <1>2, <1>5
<1> QED
  BY <1>3, <1>4, <1>5, <1>6

\* As long as a well-formed sequence has not ended it has parameter and intermediate bytes,
\* fewer than the limit.
LEMMA UnendedSequence ==
  ASSUME typed \in Seq(STRING), ~Malformed, Limit \in Nat \ 0..1,
         NEW i \in DOMAIN typed, typed[i] = "esc", Introducer(typed[i + 1]),
         NEW n \in DOMAIN typed, \A j \in (i + 2)..n : ~Ending(typed[j])
  PROVE  (\A j \in (i + 2)..n : Within(typed[j])) /\ ~(i + Limit <= n)
<1> DEFINE Amiss == {j \in (i + 2)..n : ~Within(typed[j])}
<1>0. DOMAIN typed = 1..Len(typed) /\ Len(typed) \in Nat /\ i \in Nat /\ n \in Nat
  OBVIOUS
<1>1. \A j \in (i + 2)..n : j \in DOMAIN typed /\ i + 2 <= j
  BY <1>0
<1>2. Amiss = {}
  <2> SUFFICES ASSUME Amiss # {} PROVE FALSE
    OBVIOUS
  <2>1. Amiss \in SUBSET Nat
    BY <1>0
  <2>2. Min(Amiss) \in Amiss /\ \A y \in Amiss : Min(Amiss) <= y
    BY <2>1, SmallestExists
  <2>3. PICK j \in (i + 2)..n : ~Within(typed[j]) /\ \A y \in Amiss : j <= y
    BY <2>2
  <2>4. \A l \in (i + 2)..(j - 1) : Within(typed[l])
    BY <1>0, <2>3
  <2> QED
    BY <1>1, <2>3, <2>4 DEF Malformed
<1>3. ~(i + Limit <= n)
  <2> SUFFICES ASSUME i + Limit <= n PROVE FALSE
    OBVIOUS
  <2>1. i + Limit \in (i + 2)..n
    BY <1>0
  <2>2. \A l \in (i + 2)..(i + Limit - 1) : Within(typed[l])
    BY <1>0, <1>2, <2>1
  <2> QED
    BY <1>1, <2>1, <2>2 DEF Malformed
<1> QED
  BY <1>2, <1>3

\* The key that nextKey takes of the input is the first after the bytes of the last one.
LEMMA TakenIsFirst ==
  ASSUME InputInv, ~Malformed, NextKey(Input).key # None
  PROVE  /\ FirstKey(NextKey(Input).key, framed)
         /\ Len(NextKey(Input).rest) = Len(Input) - Width(NextKey(Input).key)
<1> DEFINE s == Input
           k == NextKey(s).key
           rest == NextKey(s).rest
<1>1. /\ typed \in Seq(STRING) /\ DOMAIN typed = 1..Len(typed) /\ Len(typed) \in Nat
      /\ framed \in Nat /\ received \in Nat /\ framed <= received /\ received <= Len(typed)
      /\ Limit \in Nat \ 0..1
  BY TuiAssumption DEF InputInv
<1>2. /\ s \in Seq(STRING) /\ Len(s) = received - framed
      /\ \A i \in 1..Len(s) : s[i] = typed[framed + i] /\ framed + i \in DOMAIN typed
  BY InputIs
<1> HIDE DEF s
<1>3. /\ k \in KeyTypes
      /\ \/ /\ Len(s) > Limit /\ s[1] = "esc" /\ Introducer(s[2]) /\ \A i \in 3..Len(s) : ~Final(s[i])
         \/ /\ Len(rest) = Len(s) - Width(k)
            /\ \/ s[1] # "esc" /\ k = <<s[1]>> /\ Len(s) >= 1
               \/ s[1] = "esc" /\ Len(s) >= 2 /\ ~Introducer(s[2]) /\ k = <<"escape">>
               \/ /\ s[1] = "esc" /\ Introducer(s[2]) /\ Len(k) \in 3..Len(s)
                  /\ \A i \in 1..Len(k) : k[i] = s[i]
                  /\ Final(s[Len(k)]) /\ \A i \in 3..(Len(k) - 1) : ~Final(s[i])
  <2>1. k # None
    BY DEF s
  <2> QED
    BY <1>2, <2>1, NextKeyIs
<1> HIDE DEF k, rest
<1>4. ~(Len(s) > Limit /\ s[1] = "esc" /\ Introducer(s[2]) /\ \A i \in 3..Len(s) : ~Final(s[i]))
  <2> SUFFICES ASSUME Len(s) > Limit, s[1] = "esc", Introducer(s[2]), \A i \in 3..Len(s) : ~Final(s[i])
               PROVE  Malformed
    OBVIOUS
  <2>1. framed + 1 \in DOMAIN typed /\ typed[framed + 1] = "esc"
    BY <1>1, <1>2
  <2>2. framed + Len(s) \in DOMAIN typed /\ framed + 1 + Limit <= framed + Len(s)
    BY <1>1, <1>2
  <2>3. typed[framed + 2] = s[2] /\ framed + 2 = framed + 1 + 1
    BY <1>1, <1>2
  <2>4. ASSUME NEW j \in (framed + 1 + 2)..(framed + Len(s))
        PROVE  ~Ending(typed[j])
    <3>1. j - framed \in 3..Len(s) /\ framed + (j - framed) = j /\ j - framed \in 1..Len(s)
      BY <1>1, <1>2
    <3>2. s[j - framed] = typed[framed + (j - framed)]
      BY <1>2, <3>1
    <3> QED
      BY <3>1, <3>2 DEF Final, Ending
  <2>5. ~(framed + 1 + Limit <= framed + Len(s)) \/ Malformed
    BY <1>1, <2>1, <2>2, <2>3, <2>4, UnendedSequence
  <2> QED
    BY <2>2, <2>5
<1>5. /\ Len(s) >= 1 => s[1] = typed[framed + 1]
      /\ Len(s) >= 2 => s[2] = typed[framed + 2] /\ framed + 2 \in DOMAIN typed
  <2>1. Len(s) \in Nat
    BY <1>2
  <2> QED
    BY <1>2, <2>1
<1>6. FirstKey(k, framed)
  <2>1. CASE s[1] # "esc" /\ k = <<s[1]>> /\ Len(s) >= 1
    BY <1>5, <2>1 DEF FirstKey
  <2>2. CASE s[1] = "esc" /\ Len(s) >= 2 /\ ~Introducer(s[2]) /\ k = <<"escape">>
    <3>1. Len(s) >= 1
      BY <1>2, <2>2
    <3> QED
      BY <1>5, <2>2, <3>1 DEF FirstKey
  <2>3. CASE /\ s[1] = "esc" /\ Introducer(s[2]) /\ Len(k) \in 3..Len(s)
             /\ \A i \in 1..Len(k) : k[i] = s[i]
             /\ Final(s[Len(k)]) /\ \A i \in 3..(Len(k) - 1) : ~Final(s[i])
    <3>1. Len(s) \in Nat /\ Len(k) \in Nat /\ 3 <= Len(k) /\ Len(k) <= Len(s)
      BY <1>2, <2>3
    <3>2. \A i \in 1..Len(k) : k[i] = typed[framed + i] /\ framed + i \in DOMAIN typed
      BY <1>2, <2>3, <3>1
    <3>3. k = SubSeq(typed, framed + 1, framed + Len(k))
      <4> DEFINE sub == SubSeq(typed, framed + 1, framed + Len(k))
      <4>1. \A i \in (framed + 1)..(framed + Len(k)) : typed[i] \in STRING
        BY <1>1, <1>2, <3>1
      <4>2. /\ sub \in Seq(STRING)
            /\ Len(sub) = IF framed + 1 <= framed + Len(k) THEN framed + Len(k) - (framed + 1) + 1 ELSE 0
            /\ \A i \in 1..(framed + Len(k) - (framed + 1) + 1) : sub[i] = typed[framed + 1 + i - 1]
        BY <1>1, <3>1, <4>1, SubSeqProperties
      <4>3. /\ framed + Len(k) - (framed + 1) + 1 = Len(k) /\ framed + 1 <= framed + Len(k)
            /\ \A i \in 1..Len(k) : framed + 1 + i - 1 = framed + i
        BY <1>1, <3>1
      <4>4. Len(sub) = Len(k) /\ \A i \in 1..Len(k) : sub[i] = k[i]
        BY <3>2, <4>2, <4>3
      <4>5. sub \in Seq(STRING \cup {"escape"}) /\ k \in Seq(STRING \cup {"escape"})
        BY <1>3, <4>2 DEF KeyTypes
      <4> HIDE DEF sub
      <4>6. k = sub
        BY <4>4, <4>5, SeqEqual
      <4> QED
        BY <4>6 DEF sub
    <3>4. typed[framed + 1] = "esc" /\ Introducer(typed[framed + 2])
      BY <1>5, <2>3, <3>1
    <3>5. framed + Len(k) \in DOMAIN typed /\ Ending(typed[framed + Len(k)])
      <4>1. Len(k) \in 1..Len(k) /\ Len(k) \in 1..Len(s)
        BY <3>1
      <4> QED
        BY <1>2, <2>3, <3>2, <4>1 DEF Final, Ending
    <3>6. \A i \in 3..(Len(k) - 1) : Within(typed[framed + i])
      <4>1. framed + Len(k) - 1 \in DOMAIN typed /\ framed + 1 \in DOMAIN typed
        BY <1>1, <3>1, <3>5
      <4>2. ASSUME NEW j \in (framed + 1 + 2)..(framed + Len(k) - 1)
            PROVE  ~Ending(typed[j])
        <5>1. /\ j - framed \in 3..(Len(k) - 1) /\ framed + (j - framed) = j
              /\ j - framed \in 1..Len(s)
          BY <1>1, <3>1
        <5>2. s[j - framed] = typed[framed + (j - framed)]
          BY <1>2, <5>1
        <5> QED
          BY <2>3, <5>1, <5>2 DEF Final, Ending
      <4>3. typed[framed + 1 + 1] = typed[framed + 2]
        BY <1>1
      <4>4. \A j \in (framed + 1 + 2)..(framed + Len(k) - 1) : Within(typed[j])
        BY <1>1, <3>4, <4>1, <4>2, <4>3, UnendedSequence
      <4>5. \A i \in 3..(Len(k) - 1) : framed + i \in (framed + 1 + 2)..(framed + Len(k) - 1)
        BY <1>1, <3>1
      <4> QED
        BY <4>4, <4>5
    <3> QED
      BY <3>1, <3>3, <3>4, <3>5, <3>6 DEF FirstKey
  <2> QED
    BY <1>3, <1>4, <2>1, <2>2, <2>3
<1> QED
  BY <1>3, <1>4, <1>6 DEF k, rest, s

LEMMA FramingKept ==
  ASSUME InputInv, FramingInv, HandleKey
  PROVE  InputInv' /\ FramingInv'
<1> DEFINE k == NextKey(Input).key
           rest == NextKey(Input).rest
           taking == [key |-> k, at |-> framed]
           n == Len(handled)
<1>1. /\ framed' = received - Len(rest)
      /\ k = None => handled' = handled
      /\ k # None => handled' = Append(handled, taking)
      /\ UNCHANGED <<received, typed, taken, keys>>
  BY DEF HandleKey, readerVars
<1>2. /\ Input \in Seq(STRING) /\ Len(Input) = received - framed
      /\ framed \in Nat /\ received \in Nat /\ framed <= received
  BY InputIs DEF InputInv
<1>3. /\ k \in KeyTypes /\ Len(rest) \in 0..Len(Input)
      /\ k = None => Len(rest) = Len(Input)
  BY <1>2, NextKeyIs
<1>4. ~Malformed /\ k # None => FirstKey(k, framed) /\ Len(rest) = Len(Input) - Width(k)
  BY TakenIsFirst
<1>5. (Malformed' <=> Malformed) /\ \A x, y : FirstKey(x, y)' <=> FirstKey(x, y)
  BY <1>1 DEF Malformed, FirstKey
<1>6. taking \in [key : KeyTypes, at : Nat] /\ taking.key = k /\ taking.at = framed
  BY <1>2, <1>3
<1>7. handled \in Seq([key : KeyTypes, at : Nat]) /\ n \in Nat /\ DOMAIN handled = 1..n
  BY DEF FramingInv
<1> HIDE DEF k, rest, taking
<1>8. framed' \in framed..received /\ framed' \in 0..received
  BY <1>1, <1>2, <1>3
<1>9. InputInv'
  BY <1>1, <1>8 DEF InputInv
<1>10. CASE k = None
  <2>1. framed' = framed /\ handled' = handled
    BY <1>1, <1>2, <1>3, <1>10
  <2> QED
    BY <1>5, <1>9, <2>1 DEF FramingInv, KeysFramed
<1>11. CASE k # None
  <2>1. /\ handled' = Append(handled, taking) /\ handled' \in Seq([key : KeyTypes, at : Nat])
        /\ Len(handled') = n + 1 /\ DOMAIN handled' = 1..(n + 1)
        /\ \A i \in 1..n : handled'[i] = handled[i]
        /\ handled'[n + 1] = taking
    <3>1. handled' = Append(handled, taking)
      BY <1>1, <1>11
    <3> QED
      BY <1>6, <1>7, <3>1, AppendIs
  <2> HIDE DEF n
  <2>2. ASSUME ~Malformed
        PROVE  /\ framed' = handled'[n + 1].at + Width(handled'[n + 1].key)
               /\ \A i \in DOMAIN handled' :
                    /\ FirstKey(handled'[i].key, handled'[i].at)
                    /\ handled'[i].at = IF i = 1 THEN 0
                                        ELSE handled'[i - 1].at + Width(handled'[i - 1].key)
    <3>1. framed' = framed + Width(k)
      <4>1. Len(rest) = Len(Input) - Width(k) /\ Len(rest) \in Int /\ Len(Input) \in Int
        BY <1>2, <1>3, <1>4, <1>11, <2>2
      <4>2. Width(k) \in Int
        <5>1. Len(k) \in Nat
          BY <1>3 DEF KeyTypes
        <5> QED
          BY <5>1 DEF Width
      <4> QED
        BY <1>1, <1>2, <4>1, <4>2
    <3>2. ASSUME NEW i \in 1..n
          PROVE  /\ FirstKey(handled'[i].key, handled'[i].at)
                 /\ handled'[i].at = IF i = 1 THEN 0
                                     ELSE handled'[i - 1].at + Width(handled'[i - 1].key)
      <4>1. i = 1 \/ i - 1 \in 1..n
        BY <1>7
      <4>2. handled'[i] = handled[i] /\ (i # 1 => handled'[i - 1] = handled[i - 1])
        BY <2>1, <4>1
      <4>3. i \in DOMAIN handled
        BY <1>7 DEF n
      <4> QED
        BY <2>2, <4>2, <4>3 DEF FramingInv, KeysFramed
    <3>3. /\ FirstKey(handled'[n + 1].key, handled'[n + 1].at)
          /\ handled'[n + 1].at = IF n + 1 = 1 THEN 0 ELSE handled'[n].at + Width(handled'[n].key)
      <4>1. FirstKey(k, framed)
        BY <1>4, <1>11, <2>2
      <4>2. handled = <<>> <=> n + 1 = 1
        BY <1>7 DEF n
      <4>3. n + 1 # 1 => n \in 1..n
        BY <1>7
      <4>4. framed = IF handled = <<>> THEN 0 ELSE handled[n].at + Width(handled[n].key)
        BY <2>2 DEF FramingInv, n
      <4> QED
        BY <1>6, <2>1, <4>1, <4>2, <4>3, <4>4
    <3>4. /\ \A i \in DOMAIN handled' : i \in 1..n \/ i = n + 1
          /\ (n + 1) - 1 = n
      BY <1>7, <2>1 DEF n
    <3>5. framed' = handled'[n + 1].at + Width(handled'[n + 1].key)
      BY <1>6, <2>1, <3>1
    <3> DEFINE Follows(i) ==
          /\ FirstKey(handled'[i].key, handled'[i].at)
          /\ handled'[i].at = IF i = 1 THEN 0 ELSE handled'[i - 1].at + Width(handled'[i - 1].key)
    <3>6. Follows(n + 1)
      BY <3>3, <3>4, Zenon
    <3>7. \A i \in 1..n : Follows(i)
      BY <3>2
    <3> HIDE DEF Follows
    <3>8. \A i \in DOMAIN handled' : Follows(i)
      BY <3>4, <3>6, <3>7, Zenon
    <3> QED
      BY <3>5, <3>8 DEF Follows
  <2>3. handled' # <<>>
    BY <1>7, <2>1 DEF n
  <2> QED
    BY <1>5, <1>9, <2>1, <2>2, <2>3 DEF FramingInv, KeysFramed
<1> QED
  BY <1>10, <1>11

-----------------------------------------------------------------------------
(* The services shown *)

Panes == (Range(Services) \cup {NoService}) \X {"logs", "events"}

Fields == {"filter", "search", "focus", "confirm", "busy"}

LEMMA PassingIs ==
  ASSUME NEW filter
  PROVE  /\ Passing(filter) \in Seq(STRING)
         /\ Range(Passing(filter)) = {id \in Range(Services) : Matches(id, filter)}
         /\ Visible(filter) \in Seq(STRING)
         /\ Range(Visible(filter)) = {id \in Range(Services) : known /\ Matches(id, filter)}
<1> DEFINE P == {i \in DOMAIN Services : Matches(Services[i], filter)}
<1>1. Services \in Seq(STRING)
  BY TuiAssumption
<1>2. Passing(filter) = Picked(Services, P) /\ P \in SUBSET (DOMAIN Services)
  BY DEF Passing
<1>3. {Services[i] : i \in P} = {id \in Range(Services) : Matches(id, filter)}
  BY DEF Range
<1> HIDE DEF P
<1>4. /\ Passing(filter) \in Seq(STRING)
      /\ Range(Passing(filter)) = {id \in Range(Services) : Matches(id, filter)}
  BY <1>1, <1>2, <1>3, PickedInOrder
<1>5. Range(<<>>) = {} /\ <<>> \in Seq(STRING)
  BY DEF Range
<1>6. CASE known
  BY <1>4, <1>6 DEF Visible
<1>7. CASE ~known
  BY <1>4, <1>5, <1>7 DEF Visible
<1> QED
  BY <1>6, <1>7

LEMMA ReselectedIs ==
  ASSUME NEW shown \in Seq(STRING)
  PROVE  /\ IF Range(shown) = {} THEN Reselected(shown) = NoService
                                 ELSE Reselected(shown) \in Range(shown)
         /\ Selected \in Range(shown) => Reselected(shown) = Selected
<1>1. DOMAIN shown = 1..Len(shown) /\ Len(shown) \in Nat
  OBVIOUS
<1>2. shown # <<>> => Head(shown) = shown[1] /\ 1 \in DOMAIN shown
  BY <1>1
<1>3. shown # <<>> => Head(shown) \in Range(shown)
  BY <1>2 DEF Range
<1>4. shown = <<>> => Range(shown) = {}
  BY DEF Range
<1> QED
  BY <1>3, <1>4 DEF Reselected

\* What is selected anew of what a filter leaves is shown.
LEMMA SelectedAnew ==
  ASSUME NEW filter, m'.filter = filter, UNCHANGED known,
         target'[1] = Reselected(Visible(filter))
  PROVE  ShownSelected' /\ target'[1] \in Range(Services) \cup {NoService}
<1> DEFINE shown == {id \in Range(Services) : known /\ Matches(id, filter)}
<1>1. Visible(filter) \in Seq(STRING) /\ Range(Visible(filter)) = shown
  BY PassingIs
<1>2. IF shown = {} THEN target'[1] = NoService ELSE target'[1] \in shown
  BY <1>1, ReselectedIs
<1>3. ShownSelected'
  BY <1>2 DEF ShownSelected, Selected
<1> QED
  BY <1>2, <1>3

\* An arrow selects another of the services shown.
LEMMA NeighbourIs ==
  ASSUME NEW delta \in {-1, 1}, Selected \in Range(Visible(m.filter))
  PROVE  Neighbour(delta) \in Range(Visible(m.filter))
<1> DEFINE shown == Visible(m.filter)
           I     == {i \in 1..Len(shown) : shown[i] = Selected}
           i     == SelectInSeq(shown, LAMBDA id : id = Selected)
           n     == Len(shown)
<1>1. shown \in Seq(STRING) /\ DOMAIN shown = 1..n /\ n \in Nat
  BY PassingIs
<1>2. I # {} /\ I \in SUBSET Nat
  BY <1>1 DEF Range
<1>3. i = Min(I)
  BY <1>2 DEF SelectInSeq
<1>4. i \in I
  BY <1>2, <1>3, SmallestExists
<1>5. i \in 1..n
  BY <1>4
<1>6. Neighbour(delta) = shown[Max({1, Min({n, i + delta})})]
  BY DEF Neighbour
<1> HIDE DEF shown, I, i, n
<1>7. i \in Int /\ n \in Int /\ i + delta \in Int /\ i + delta >= 0 /\ n >= 1
  BY <1>1, <1>5
<1>8. Min({n, i + delta}) = IF n <= i + delta THEN n ELSE i + delta
  BY <1>7, MaxOfTwo
<1>9. Min({n, i + delta}) \in 0..n
  BY <1>7, <1>8
<1>10. \A x \in 0..n : Max({1, x}) \in 1..n
  <2> SUFFICES ASSUME NEW x \in 0..n PROVE Max({1, x}) \in 1..n
    OBVIOUS
  <2>1. x \in Int /\ 1 \in Int
    BY <1>7
  <2>2. Max({1, x}) = IF 1 >= x THEN 1 ELSE x
    BY <2>1, MaxOfTwo
  <2> QED
    BY <1>7, <2>1, <2>2
<1>11. Max({1, Min({n, i + delta})}) \in 1..n
  BY <1>9, <1>10
<1> QED
  BY <1>1, <1>6, <1>11 DEF Range, shown

-----------------------------------------------------------------------------
(* What a key does *)

\* A question about a kill is about the selected service, and was the last key.
KillAsked ==
  ~Leaving /\ m.confirm # None /\ m.confirm.action = "kill" =>
    /\ m.confirm.id = Selected /\ Selected # NoService
    /\ handled # <<>> /\ handled[Len(handled)].key = <<"k">>

ModelInv ==
  /\ DOMAIN m = Fields /\ m.focus \in 0..3 /\ m.busy \in BOOLEAN
  /\ target \in Panes /\ ShownSelected
  /\ IsFiniteSet(actions) /\ results \in 0..1 /\ OneAction
  /\ KillAsked

\* The action a key may start, for the selected service.
Starts(k, a) ==
  /\ a.id = Selected
  /\ IF a.action = "kill"
       THEN k = <<"y">> /\ m.confirm # None /\ m.confirm.action = "kill"
       ELSE a.action = ActionOf[k[1]]

\* What every key leaves: the pane at a service that is shown, at most one more action
\* if there was none, and no question but the one asked by this key.
KeyDone(k) ==
  /\ DOMAIN m' = Fields /\ m'.focus \in 0..3
  /\ target' \in Panes /\ (PaneKey \/ UNCHANGED viewVars) /\ ShownSelected'
  /\ \/ actions' = actions /\ m'.busy = m.busy
     \/ ~m.busy /\ m'.busy = TRUE /\ \E a : actions' = actions \cup {a} /\ Starts(k, a)
  /\ \/ m'.confirm = None \/ m'.confirm.action # "kill"
     \/ k = <<"k">> /\ m'.confirm.id = Selected' /\ Selected' # NoService
     \/ loop' = "worker"

\* What leaves the pane and the filter alone.
LEMMA PaneLeft ==
  ASSUME ModelInv, UNCHANGED <<viewVars, known>>, m'.filter = m.filter
  PROVE  target' \in Panes /\ (PaneKey \/ UNCHANGED viewVars) /\ ShownSelected' /\ Selected' = Selected
  BY DEF ModelInv, ShownSelected, viewVars, Selected

\* The same service in another pane, or further back.
LEMMA PaneMoved ==
  ASSUME ModelInv, UNCHANGED known, m'.filter = m.filter,
         \/ \E kind \in {"logs", "events"} : \E f : Look(<<Selected, kind>>, f)
         \/ \E delta \in Int : Scroll(delta)
  PROVE  target' \in Panes /\ PaneKey /\ ShownSelected'
<1>1. target \in Panes /\ Selected \in Range(Services) \cup {NoService}
      /\ target = <<target[1], target[2]>> /\ Panes \subseteq Targets
  BY TuiAssumption DEF ModelInv, Panes, Selected
<1>2. CASE \E kind \in {"logs", "events"} : \E f : Look(<<Selected, kind>>, f)
  <2>0. PICK kind \in {"logs", "events"} : \E f : Look(<<Selected, kind>>, f)
    BY <1>2
  <2>1. PICK f : Look(<<Selected, kind>>, f)
    BY <2>0
  <2>2. <<Selected, kind>> \in Panes
    BY <1>1 DEF Panes
  <2>3. target' = <<Selected, kind>> /\ target'[1] = Selected
    BY <2>1 DEF Look, Turn
  <2>4. PaneKey
    BY <1>1, <2>1, <2>2 DEF PaneKey
  <2>5. ShownSelected'
    BY <2>3 DEF ModelInv, ShownSelected, Selected
  <2> QED
    BY <2>2, <2>3, <2>4, <2>5
<1>3. CASE \E delta \in Int : Scroll(delta)
  <2>1. target' = target
    BY <1>3 DEF Scroll
  <2>2. ShownSelected'
    BY <2>1 DEF ModelInv, ShownSelected, Selected
  <2> QED
    BY <1>1, <1>3, <2>1, <2>2 DEF PaneKey
<1> QED
  BY <1>2, <1>3

LEMMA AnswerDone ==
  ASSUME ModelInv, NEW k, Answer(k), m.confirm # None, UNCHANGED known, loop = "keys"
  PROVE  KeyDone(k)
<1>0. DOMAIN m = Fields /\ m.focus \in 0..3 /\ m.busy \in BOOLEAN /\ viewVars' = viewVars
  BY DEF ModelInv, Answer
<1> DEFINE act == [action |-> "kill", id |-> m.confirm.id, nr |-> Len(handled)]
<1>1. \/ m' = [m EXCEPT !.confirm = None] /\ actions' = actions
      \/ /\ k = <<"y">> /\ m.confirm.action = "kill" /\ ~m.busy
         /\ m' = [m EXCEPT !.confirm = None, !.busy = TRUE]
         /\ actions' = actions \cup {act}
  BY DEF Answer, Stay, StartAction
<1>2. /\ DOMAIN m' = Fields /\ m'.focus \in 0..3 /\ m'.filter = m.filter /\ m'.confirm = None
      /\ \/ actions' = actions /\ m'.busy = m.busy
         \/ /\ ~m.busy /\ m'.busy = TRUE /\ actions' = actions \cup {act}
            /\ k = <<"y">> /\ m.confirm.action = "kill"
  BY <1>0, <1>1 DEF Fields
<1>3. m.confirm.action = "kill" => Starts(k, act) \/ k # <<"y">>
  <2>1. ~Leaving
    BY DEF Leaving
  <2>2. m.confirm.action = "kill" => m.confirm.id = Selected
    BY <2>1 DEF ModelInv, KillAsked
  <2> QED
    BY <2>2 DEF Starts
<1>4. target' \in Panes /\ (PaneKey \/ UNCHANGED viewVars) /\ ShownSelected'
  BY <1>0, <1>2, PaneLeft
<1> HIDE DEF act
<1> QED
  BY <1>2, <1>3, <1>4 DEF KeyDone

LEMMA EditDone ==
  ASSUME ModelInv, NEW k, EditFilter(k), m.confirm = None, UNCHANGED known
  PROVE  KeyDone(k)
<1> DEFINE filter == IF m.focus = 3 THEN m.filter ELSE Edited(m.filter, k)
           search == k \notin {<<"cr">>, <<"escape">>}
           log    == IF m.focus = 3 THEN Edited(logFilter, k) ELSE logFilter
           pane   == <<Reselected(Visible(filter)), target[2]>>
<1>1. /\ m' = [m EXCEPT !.filter = filter, !.search = search]
      /\ Look(pane, log) /\ actions' = actions
  BY DEF EditFilter, Stay
<1> HIDE DEF filter, search, log
<1>2. DOMAIN m = Fields /\ m.focus \in 0..3 /\ target \in Panes /\ Panes \subseteq Targets
  BY TuiAssumption DEF ModelInv, Panes
<1>3. /\ DOMAIN m' = Fields /\ m'.focus = m.focus /\ m'.filter = filter /\ m'.confirm = None
      /\ m'.busy = m.busy
  BY <1>1, <1>2 DEF Fields
<1>4. target' = pane /\ target'[1] = Reselected(Visible(filter))
  BY <1>1 DEF Look, Turn
<1>5. ShownSelected' /\ target'[1] \in Range(Services) \cup {NoService}
  BY <1>3, <1>4, SelectedAnew
<1>6. pane \in Panes
  <2>1. target[2] \in {"logs", "events"}
    BY <1>2 DEF Panes
  <2>2. Reselected(Visible(filter)) \in Range(Services) \cup {NoService}
    BY <1>4, <1>5
  <2> QED
    BY <2>1, <2>2 DEF Panes
<1>7. PaneKey
  BY <1>1, <1>2, <1>6 DEF PaneKey
<1> QED
  BY <1>1, <1>2, <1>3, <1>4, <1>5, <1>6, <1>7 DEF KeyDone

\* A key that asks no question and starts nothing.
Quiet ==
  /\ UNCHANGED <<m, actions>>
  /\ \/ UNCHANGED viewVars
     \/ \E kind \in {"logs", "events"} : \E f : Look(<<Selected, kind>>, f)
     \/ \E delta \in Int : Scroll(delta)

LEMMA QuietDone ==
  ASSUME ModelInv, NEW k, Quiet, m.confirm = None, UNCHANGED known
  PROVE  KeyDone(k)
<1>1. DOMAIN m = Fields /\ m.focus \in 0..3 /\ m' = m /\ actions' = actions
  BY DEF ModelInv, Quiet
<1>2. target' \in Panes /\ (PaneKey \/ UNCHANGED viewVars) /\ ShownSelected'
  <2>1. CASE UNCHANGED viewVars
    BY <1>1, <2>1, PaneLeft
  <2>2. CASE ~UNCHANGED viewVars
    BY <1>1, <2>2, PaneMoved DEF Quiet
  <2> QED
    BY <2>1, <2>2
<1> QED
  BY <1>1, <1>2 DEF KeyDone

\* A key that changes what is no more than the focus, or the pane too.
LEMMA FocusDone ==
  ASSUME ModelInv, NEW k, m.confirm = None, UNCHANGED <<known, actions>>,
         NEW n \in 0..3, NEW search, m' = [m EXCEPT !.focus = n, !.search = search],
         UNCHANGED viewVars \/ \E kind \in {"logs", "events"} : \E f : Look(<<Selected, kind>>, f)
  PROVE  KeyDone(k)
<1>1. DOMAIN m = Fields
  BY DEF ModelInv
<1>2. /\ DOMAIN m' = Fields /\ m'.focus = n /\ m'.filter = m.filter /\ m'.confirm = None
      /\ m'.busy = m.busy /\ actions' = actions
  BY <1>1 DEF Fields
<1>3. target' \in Panes /\ (PaneKey \/ UNCHANGED viewVars) /\ ShownSelected'
  <2>1. CASE UNCHANGED viewVars
    BY <1>2, <2>1, PaneLeft
  <2>2. CASE ~UNCHANGED viewVars
    BY <1>2, <2>2, PaneMoved
  <2> QED
    BY <2>1, <2>2
<1> QED
  BY <1>2, <1>3 DEF KeyDone

LEMMA MoveDone ==
  ASSUME ModelInv, NEW k, NEW delta \in {-1, 1}, Move(delta), m.confirm = None, UNCHANGED known
  PROVE  KeyDone(k)
<1>1. m' = m /\ actions' = actions
  BY DEF Move, Stay
<1>2. target \in Panes /\ Panes \subseteq Targets /\ DOMAIN m = Fields /\ m.focus \in 0..3
  BY TuiAssumption DEF ModelInv, Panes
<1>3. CASE m.focus = 3
  <2>1. Scroll(-delta) /\ -delta \in Int
    BY <1>3 DEF Move
  <2> QED
    BY <1>1, <2>1, QuietDone DEF Quiet
<1>4. CASE m.focus # 3 /\ (m.focus = 2 \/ Selected \notin Range(Visible(m.filter)))
  <2>1. UNCHANGED viewVars
    BY <1>4 DEF Move
  <2> QED
    BY <1>1, <2>1, QuietDone DEF Quiet
<1>5. CASE m.focus # 3 /\ m.focus # 2 /\ Selected \in Range(Visible(m.filter))
  <2> DEFINE id   == Neighbour(delta)
             pane == <<id, target[2]>>
  <2>1. Look(pane, logFilter)
    BY <1>5 DEF Move
  <2>2. id \in Range(Visible(m.filter))
    BY <1>5, NeighbourIs
  <2> HIDE DEF id
  <2>3. Range(Visible(m.filter)) = {x \in Range(Services) : known /\ Matches(x, m.filter)}
    BY PassingIs
  <2>4. target' = pane /\ target'[1] = id
    BY <2>1 DEF Look, Turn
  <2>5. ShownSelected'
    BY <1>1, <2>2, <2>3, <2>4 DEF ShownSelected, Selected
  <2>6. pane \in Panes
    BY <1>2, <2>2, <2>3 DEF Panes
  <2>7. PaneKey
    BY <1>2, <2>1, <2>6 DEF PaneKey
  <2> QED
    BY <1>1, <1>2, <2>4, <2>5, <2>6, <2>7 DEF KeyDone
<1> QED
  BY <1>3, <1>4, <1>5

LEMMA AskDone ==
  ASSUME ModelInv, NEW k, NEW action, NEW id, Ask(action, id), UNCHANGED known,
         action # "kill" \/ (k = <<"k">> /\ id = Selected /\ Selected # NoService)
  PROVE  KeyDone(k)
<1>1. DOMAIN m = Fields /\ m.focus \in 0..3
  BY DEF ModelInv
<1>2. /\ m' = [m EXCEPT !.confirm = [action |-> action, id |-> id]] /\ actions' = actions
      /\ UNCHANGED viewVars
  BY DEF Ask, Stay
<1>3. /\ DOMAIN m' = Fields /\ m'.focus = m.focus /\ m'.filter = m.filter /\ m'.busy = m.busy
      /\ m'.confirm.action = action /\ m'.confirm.id = id
  BY <1>1, <1>2 DEF Fields
<1>4. target' \in Panes /\ (PaneKey \/ UNCHANGED viewVars) /\ ShownSelected' /\ Selected' = Selected
  BY <1>2, <1>3, PaneLeft
<1> QED
  BY <1>1, <1>2, <1>3, <1>4 DEF KeyDone

\* S, x, r and k: an action is started, or a question asked.
LEMMA ActDone ==
  ASSUME ModelInv, NEW k \in KeyTypes, Len(k) = 1, k[1] \in DOMAIN ActionOf, Act(ActionOf[k[1]]),
         m.confirm = None, UNCHANGED known
  PROVE  KeyDone(k)
<1>0. DOMAIN m = Fields /\ m.focus \in 0..3 /\ m.busy \in BOOLEAN
  BY DEF ModelInv
<1>1. CASE ~Free
  BY <1>1, QuietDone DEF Act, Ignore, Quiet, Stay
<1>2. CASE Free /\ ActionOf[k[1]] = "kill"
  <2>1. k[1] = "k"
    BY <1>2 DEF ActionOf
  <2>2. k = <<"k">>
    <3>1. k \in Seq(STRING \cup {"escape"})
      BY DEF KeyTypes
    <3> QED
      BY <2>1, <3>1
  <2>3. Ask("kill", Selected)
    BY <1>2 DEF Act
  <2> QED
    BY <1>2, <2>2, <2>3, AskDone DEF Free
<1>3. CASE Free /\ ActionOf[k[1]] # "kill"
  <2> DEFINE act == [action |-> ActionOf[k[1]], id |-> Selected, nr |-> Len(handled)]
  <2>1. /\ m' = [m EXCEPT !.busy = TRUE] /\ actions' = actions \cup {act} /\ UNCHANGED viewVars
        /\ ~m.busy
    BY <1>3 DEF Act, StartAction, Free
  <2>2. Starts(k, act)
    BY <1>3 DEF Starts
  <2> HIDE DEF act
  <2>3. /\ DOMAIN m' = Fields /\ m'.focus = m.focus /\ m'.filter = m.filter /\ m'.busy = TRUE
        /\ m'.confirm = None
    BY <1>0, <2>1 DEF Fields
  <2>4. target' \in Panes /\ (PaneKey \/ UNCHANGED viewVars) /\ ShownSelected'
    BY <2>1, <2>3, PaneLeft
  <2> QED
    BY <1>0, <2>1, <2>2, <2>3, <2>4 DEF KeyDone
<1> QED
  BY <1>1, <1>2, <1>3

LEMMA CommandDone ==
  ASSUME ModelInv, NEW k \in KeyTypes, Command(k), m.confirm = None, UNCHANGED known
  PROVE  KeyDone(k)
<1>0. /\ DOMAIN m = Fields /\ m.focus \in 0..3 /\ target \in Panes /\ Page \in Nat
      /\ target = <<Selected, target[2]>> /\ target[2] \in {"logs", "events"}
  BY ViewAssumption DEF ModelInv, Panes, Selected
<1>1. CASE Ask("quit", NoService)
  BY <1>1, AskDone
<1>2. CASE Focus((m.focus % 3) + 1) \/ Focus(1) \/ Focus(2) \/ Focus(3)
  <2>1. PICK n \in 0..3 : Focus(n)
    BY <1>0, <1>2
  <2>2. m' = [m EXCEPT !.focus = n, !.search = m.search] /\ actions' = actions /\ UNCHANGED viewVars
    BY <1>0, <2>1 DEF Focus, Stay, Fields
  <2> QED
    BY <2>2, FocusDone
<1>3. CASE ShowLog("logs") \/ ShowLog("events")
  <2>1. PICK kind \in {"logs", "events"} : ShowLog(kind)
    BY <1>3
  <2>2. /\ m' = [m EXCEPT !.focus = 3, !.search = m.search] /\ actions' = actions
        /\ Look(<<Selected, kind>>, logFilter)
    BY <1>0, <2>1 DEF ShowLog, Stay, Fields
  <2>3. 3 \in 0..3
    OBVIOUS
  <2> QED
    BY <2>2, <2>3, FocusDone
<1>4. CASE Search
  <2> DEFINE n == IF m.focus = 3 THEN 3 ELSE 1
  <2>1. n \in 0..3 /\ actions' = actions /\ UNCHANGED viewVars
    BY <1>4 DEF Search, Stay
  <2>2. m' = [m EXCEPT !.search = TRUE, !.focus = n]
    BY <1>4 DEF Search
  <2> HIDE DEF n
  <2>3. m' = [m EXCEPT !.focus = n, !.search = TRUE]
    BY <1>0, <2>2 DEF Fields
  <2> QED
    BY <2>1, <2>3, FocusDone
<1>5. CASE Move(-1) \/ Move(1)
  BY <1>5, MoveDone
<1>6. CASE UNCHANGED m /\ (Scroll(Page) \/ Scroll(-Page)) /\ Stay
  <2>1. Page \in Int /\ -Page \in Int
    BY <1>0
  <2> QED
    BY <1>6, <2>1, QuietDone DEF Quiet, Stay
<1>7. CASE UNCHANGED m /\ Look(target, logFilter) /\ Stay
  <2>1. Look(<<Selected, target[2]>>, logFilter)
    BY <1>0, <1>7
  <2> QED
    BY <1>0, <1>7, <2>1, QuietDone DEF Quiet, Stay
<1>8. CASE Len(k) = 1 /\ k[1] \in DOMAIN ActionOf /\ Act(ActionOf[k[1]])
  BY <1>8, ActDone
<1>9. CASE Ignore
  BY <1>9, QuietDone DEF Ignore, Quiet, Stay
<1> QED
  BY <1>1, <1>2, <1>3, <1>4, <1>5, <1>6, <1>7, <1>8, <1>9 DEF Command

\* A key that is whole does what it does, or ends the loop.
LEMMA KeyTaken ==
  ASSUME ModelInv, InputInv, FramingInv, HandleKey
  PROVE  LET k == NextKey(Input).key
             n == Len(handled)
         IN  /\ UNCHANGED <<storeVars, known, results>>
             /\ k = None => UNCHANGED <<m, actions, viewVars, handled>> /\ loop' = "render"
             /\ k # None =>
                  /\ KeyDone(k) /\ n \in Nat
                  /\ Len(handled') = n + 1 /\ handled'[n + 1].key = k
                  /\ \A i \in 1..n : handled'[i] = handled[i]
<1> DEFINE k == NextKey(Input).key
           n == Len(handled)
           taking == [key |-> k, at |-> framed]
<1>1. Input \in Seq(STRING) /\ framed \in Nat /\ DOMAIN m = Fields /\ m.focus \in 0..3
  BY InputIs DEF InputInv, ModelInv
<1>2. k \in KeyTypes
  BY <1>1, NextKeyIs
<1>3. /\ UNCHANGED <<storeVars, known, results>> /\ loop = "keys"
      /\ k = None => UNCHANGED <<m, actions, viewVars, handled>> /\ loop' = "render"
      /\ k # None => Key(k) /\ handled' = Append(handled, taking)
  BY DEF HandleKey, modelVars
<1>4. taking \in [key : KeyTypes, at : Nat] /\ taking.key = k
  BY <1>1, <1>2
<1>5. handled \in Seq([key : KeyTypes, at : Nat]) /\ n \in Nat
  BY DEF FramingInv
<1> HIDE DEF k, taking
<1>6. k # None => /\ Len(handled') = n + 1 /\ handled'[n + 1].key = k
                  /\ \A i \in 1..n : handled'[i] = handled[i]
  <2>1. k # None => handled' = Append(handled, taking)
    BY <1>3
  <2> QED
    BY <1>4, <1>5, <2>1, AppendIs
<1>7. ASSUME k # None
      PROVE  KeyDone(k)
  <2>1. CASE k = CtrlC
    <3>1. loop' = "worker" /\ UNCHANGED <<m, actions, viewVars>>
      BY <1>3, <1>7, <2>1 DEF Key
    <3>2. target' \in Panes /\ (PaneKey \/ UNCHANGED viewVars) /\ ShownSelected'
      BY <1>3, <3>1, PaneLeft
    <3> QED
      BY <1>1, <3>1, <3>2 DEF KeyDone
  <2>2. CASE k # CtrlC /\ m.confirm # None
    BY <1>3, <1>7, <2>2, AnswerDone DEF Key
  <2>3. CASE k # CtrlC /\ m.confirm = None /\ m.search
    BY <1>3, <1>7, <2>3, EditDone DEF Key
  <2>4. CASE k # CtrlC /\ m.confirm = None /\ ~m.search
    BY <1>2, <1>3, <1>7, <2>4, CommandDone DEF Key
  <2> QED
    BY <2>1, <2>2, <2>3, <2>4
<1> QED
  BY <1>3, <1>5, <1>6, <1>7 DEF k

\* A key keeps the invariant of the model, and starts what was asked for.
LEMMA KeyKeeps ==
  ASSUME ModelInv, InputInv, FramingInv, HandleKey
  PROVE  /\ ModelInv'
         /\ UNCHANGED storeVars /\ (PaneKey \/ UNCHANGED viewVars)
         /\ \A a \in actions' \ actions :
              LET n == Len(handled')
              IN  /\ a.id = Selected
                  /\ IF a.action = "kill"
                       THEN handled'[n - 1].key = <<"k">> /\ handled'[n].key = <<"y">>
                       ELSE a.action = ActionOf[handled'[n].key[1]]
<1> DEFINE k == NextKey(Input).key
           n == Len(handled)
<1>1. /\ UNCHANGED <<storeVars, known, results>> /\ loop = "keys"
      /\ k = None => UNCHANGED <<m, actions, viewVars, handled>> /\ loop' = "render"
      /\ k # None => /\ KeyDone(k) /\ n \in Nat
                     /\ Len(handled') = n + 1 /\ handled'[n + 1].key = k
                     /\ \A i \in 1..n : handled'[i] = handled[i]
  BY KeyTaken DEF HandleKey
<1> HIDE DEF k
<1>2. ~Leaving
  BY <1>1 DEF Leaving
<1>3. CASE k = None
  <2>1. /\ m' = m /\ actions' = actions /\ handled' = handled /\ results' = results
        /\ UNCHANGED viewVars /\ target' = target /\ known' = known
    BY <1>1, <1>3 DEF viewVars
  <2>2. ModelInv'
    BY <1>2, <2>1 DEF ModelInv, ShownSelected, Selected, OneAction, KillAsked
  <2> QED
    BY <1>1, <2>1, <2>2
<1>4. CASE k # None
  <2>1. /\ KeyDone(k) /\ n \in Nat /\ results' = results
        /\ Len(handled') = n + 1 /\ handled'[n + 1].key = k
        /\ \A i \in 1..n : handled'[i] = handled[i]
    BY <1>1, <1>4
  <2>2. IsFiniteSet(actions) /\ results \in 0..1 /\ Cardinality(actions) \in Nat /\ m.busy \in BOOLEAN
        /\ Cardinality(actions) + results = IF m.busy THEN 1 ELSE 0
    BY FS_CardinalityType DEF ModelInv, OneAction
  <2>3. CASE actions' = actions /\ m'.busy = m.busy
    <3>1. IsFiniteSet(actions') /\ OneAction' /\ results' \in 0..1 /\ m'.busy \in BOOLEAN
      BY <2>1, <2>2, <2>3 DEF OneAction
    <3>2. KillAsked'
      BY <2>1 DEF KeyDone, KillAsked, Leaving, Selected
    <3> QED
      BY <1>1, <2>1, <2>3, <3>1, <3>2 DEF KeyDone, ModelInv
  <2>4. CASE ~(actions' = actions /\ m'.busy = m.busy)
    <3>1. PICK a : ~m.busy /\ m'.busy = TRUE /\ actions' = actions \cup {a} /\ Starts(k, a)
      BY <2>1, <2>4 DEF KeyDone
    <3>2. Cardinality(actions) = 0 /\ results = 0
      BY <2>2, <3>1
    <3>3. actions = {} /\ actions' = {a}
      BY <2>2, <3>1, <3>2, FS_EmptySet
    <3>4. IsFiniteSet(actions') /\ Cardinality(actions') = 1
      BY <3>3, FS_Singleton
    <3>5. OneAction' /\ results' \in 0..1 /\ m'.busy \in BOOLEAN
      <4>1. results' = 0 /\ m'.busy = TRUE
        BY <2>1, <3>1, <3>2
      <4>2. Cardinality(actions') + results' = 1
        BY <3>4, <4>1
      <4>3. OneAction' /\ m'.busy \in BOOLEAN
        BY <4>1, <4>2, Zenon DEF OneAction
      <4> QED
        BY <4>1, <4>3
    <3>6. KillAsked'
      BY <2>1 DEF KeyDone, KillAsked, Leaving, Selected
    <3>7. ModelInv'
      BY <2>1, <3>4, <3>5, <3>6 DEF KeyDone, ModelInv
    <3>8. /\ a.id = Selected
          /\ IF a.action = "kill"
               THEN handled'[Len(handled') - 1].key = <<"k">> /\ handled'[Len(handled')].key = <<"y">>
               ELSE a.action = ActionOf[handled'[Len(handled')].key[1]]
      <4>1. handled'[Len(handled')].key = k
        BY <2>1
      <4>2. CASE a.action = "kill"
        <5>1. /\ k = <<"y">> /\ handled # <<>> /\ handled[n].key = <<"k">>
          BY <1>2, <3>1, <4>2 DEF Starts, ModelInv, KillAsked
        <5>2. n \in 1..n /\ Len(handled') - 1 = n
          <6>1. handled \in Seq([key : KeyTypes, at : Nat])
            BY DEF FramingInv
          <6> QED
            BY <2>1, <5>1, <6>1
        <5>3. handled'[Len(handled') - 1] = handled[n]
          BY <2>1, <5>2
        <5> QED
          BY <3>1, <4>1, <4>2, <5>1, <5>3 DEF Starts
      <4>3. CASE a.action # "kill"
        BY <3>1, <4>1, <4>3 DEF Starts
      <4> QED
        BY <4>2, <4>3
    <3> QED
      BY <1>1, <2>1, <3>3, <3>7, <3>8 DEF KeyDone
  <2> QED
    BY <2>3, <2>4
<1> QED
  BY <1>3, <1>4

-----------------------------------------------------------------------------
(* Every step *)

\* The loop and its goroutines; who has stopped stays so.
LoopInv ==
  /\ loop \in {"select", "keys", "render", "worker", "restore", "returned"}
  /\ worker \in {"collect", "send", "done"} /\ reader \in {"poll", "send", "done"}
  /\ loop \in {"restore", "returned"} => worker = "done"
  /\ LeftClean

TuiIInv == StoreInv /\ ViewInv /\ InputInv /\ FramingInv /\ LoopInv /\ ModelInv

\* The steps that leave the model, the pane and the keys handled alone.
Elsewhere ==
  \/ Leave \/ TakeKeys \/ Redraw \/ Return \/ WorkerStep \/ ReaderStep \/ HangUp \/ Cancel

LEMMA LoopKept ==
  ASSUME LoopInv, [TuiNext]_allVars
  PROVE  LoopInv' /\ (~Leaving' => ~Leaving)
<1> USE DEF LoopInv, LeftClean, Leaving
<1>1. CASE Elsewhere
  BY <1>1 DEF Elsewhere, Leave, TakeKeys, Redraw, Return, WorkerStep, ReaderStep, ReadChunk,
    SendChunk, ReaderStops, HangUp, Cancel, Others, workerVars, readerVars
<1>2. CASE TakeUpdate \/ TakeResult \/ Render \/ \E a \in actions : ActionEnds(a)
  BY <1>2 DEF TakeUpdate, TakeResult, Render, ActionEnds, workerVars, readerVars
<1>3. CASE LogEntry \/ UNCHANGED allVars
  BY <1>3 DEF LogEntry, allVars, tuiVars, workerVars, readerVars
<1>4. CASE HandleKey
  <2>1. loop = "keys" /\ worker' = worker /\ reader' = reader
    BY <1>4 DEF HandleKey, workerVars, readerVars
  <2>2. loop' \in {"render", "worker", "keys"}
    <3>1. CASE NextKey(Input).key = None
      BY <1>4, <3>1 DEF HandleKey
    <3>2. CASE NextKey(Input).key # None
      <4>1. Key(NextKey(Input).key) /\ loop = "keys"
        BY <1>4, <3>2 DEF HandleKey
      <4> DEFINE k == NextKey(Input).key
      <4> HIDE DEF k
      <4>2. ASSUME Answer(k) PROVE loop' \in {"worker", loop}
        BY <4>2 DEF Answer, Stay, StartAction
      <4>3. ASSUME EditFilter(k) PROVE loop' \in {"worker", loop}
        BY <4>3 DEF EditFilter, Stay
      <4>4. ASSUME Command(k) PROVE loop' \in {"worker", loop}
        BY <4>4 DEF Command, Ask, Focus, ShowLog, Search, Move, Act, Ignore, Stay, StartAction
      <4> QED
        BY <4>1, <4>2, <4>3, <4>4 DEF Key, k
    <3> QED
      BY <3>1, <3>2
  <2> QED
    BY <2>1, <2>2
<1> QED
  BY <1>1, <1>2, <1>3, <1>4 DEF TuiNext, Elsewhere

\* The bytes and the keys found in them.
LEMMA BytesKept ==
  ASSUME InputInv, FramingInv, [TuiNext]_allVars
  PROVE  InputInv' /\ FramingInv'
<1>1. CASE HandleKey
  BY <1>1, FramingKept
<1>2. CASE TakeKeys \/ ReadChunk \/ SendChunk
  <2>1. UNCHANGED <<typed, framed, handled>>
    BY <1>2 DEF TakeKeys, ReadChunk, SendChunk, Others, inputVars
  <2>2. FramingInv'
    BY <2>1 DEF FramingInv, KeysFramed, Malformed, FirstKey
  <2> QED
    BY <1>2, <2>2, InputKept
<1>3. CASE UNCHANGED <<typed, taken, keys, inputVars, handled>>
  BY <1>3 DEF InputInv, FramingInv, KeysFramed, Malformed, FirstKey, inputVars
<1>4. \/ HandleKey \/ TakeKeys \/ ReadChunk \/ SendChunk
      \/ UNCHANGED <<typed, taken, keys, inputVars, handled>>
  <2>1. CASE Leave \/ TakeUpdate \/ TakeResult \/ Redraw \/ Render \/ Return \/ WorkerStep \/ Cancel
    BY <2>1 DEF Leave, TakeUpdate, TakeResult, Redraw, Render, Return, WorkerStep, Cancel,
      readerVars, Others
  <2>2. CASE ReaderStops \/ HangUp
    BY <2>2 DEF ReaderStops, HangUp, Others
  <2>3. CASE LogEntry \/ UNCHANGED allVars \/ \E a \in actions : ActionEnds(a)
    BY <2>3 DEF LogEntry, allVars, tuiVars, ActionEnds, readerVars
  <2> QED
    BY <2>1, <2>2, <2>3 DEF TuiNext, ReaderStep
<1> QED
  BY <1>1, <1>2, <1>3, <1>4

\* What else changes the model: the first snapshot, and results of actions.
LEMMA ModelKept ==
  ASSUME ModelInv, InputInv, FramingInv, LoopInv, [TuiNext]_allVars
  PROVE  /\ ModelInv'
         /\ \/ UNCHANGED storeVars /\ (Draw \/ PaneKey \/ SnapshotTurns \/ UNCHANGED viewVars)
            \/ LogEntry
<1>0. ~Leaving' => ~Leaving
  BY LoopKept
<1>1. CASE HandleKey
  BY <1>1, KeyKeeps
<1>2. ASSUME UNCHANGED <<m, known, actions, results, handled, target>>
      PROVE  ModelInv'
  BY <1>0, <1>2 DEF ModelInv, ShownSelected, Selected, OneAction, KillAsked
<1>3. CASE \/ Leave \/ TakeKeys \/ Redraw \/ Return \/ WorkerStep \/ ReaderStep \/ HangUp \/ Cancel
           \/ UNCHANGED allVars
  <2>1. UNCHANGED <<m, known, actions, results, handled, storeVars, viewVars>>
    <3>1. CASE Leave \/ TakeKeys \/ Redraw \/ Return \/ Cancel
      BY <3>1 DEF Leave, TakeKeys, Redraw, Return, Cancel, modelVars
    <3>2. CASE WorkerStep \/ ReaderStep \/ HangUp
      BY <3>2 DEF WorkerStep, ReaderStep, ReadChunk, SendChunk, ReaderStops, HangUp, Others, modelVars
    <3>3. CASE UNCHANGED allVars
      BY <3>3 DEF allVars, tuiVars, modelVars
    <3> QED
      BY <1>3, <3>1, <3>2, <3>3
  <2>2. target' = target
    BY <2>1 DEF viewVars
  <2> QED
    BY <1>2, <2>1, <2>2
<1>4. CASE Render
  <2>1. Draw /\ UNCHANGED <<m, known, actions, results, handled, storeVars>>
    BY <1>4 DEF Render, modelVars
  <2>2. target' = target
    BY <2>1 DEF Draw
  <2> QED
    BY <1>2, <2>1, <2>2
<1>5. CASE LogEntry
  <2>1. UNCHANGED <<m, known, actions, results, handled, target>>
    BY <1>5 DEF LogEntry, tuiVars, viewVars, modelVars
  <2> QED
    BY <1>2, <1>5, <2>1
<1>6. CASE TakeUpdate
  <2> DEFINE shown    == Passing(m.filter)
             selected == IF Selected \in Range(shown) THEN Selected ELSE Reselected(shown)
             passing  == {id \in Range(Services) : Matches(id, m.filter)}
  <2>1. /\ UNCHANGED <<m, actions, results, handled, storeVars>> /\ known' = TRUE
        /\ IF Selected \in Range(shown) THEN UNCHANGED viewVars
           ELSE LookAlong(<<selected, target[2]>>)
    BY <1>6 DEF TakeUpdate
  <2>2. Range(shown) = passing /\ shown \in Seq(STRING)
    BY PassingIs
  <2>3. /\ IF passing = {} THEN selected = NoService ELSE selected \in passing
        /\ Selected \in passing => selected = Selected
    BY <2>2, ReselectedIs
  <2>4. /\ target = <<target[1], target[2]>> /\ target[2] \in {"logs", "events"}
        /\ Panes \subseteq Targets
    BY TuiAssumption DEF ModelInv, Panes
  <2>s. Selected \in Range(shown) => selected = Selected
    OBVIOUS
  <2> HIDE DEF selected, shown
  <2>5. selected \in Range(Services) \cup {NoService}
    BY <2>3
  <2>6. <<selected, target[2]>> \in Panes
    BY <2>4, <2>5 DEF Panes
  <2>7. target' = <<selected, target[2]>>
    BY <2>1, <2>4, <2>s DEF LookAlong, Turn, viewVars, Selected
  <2>8. Selected' = selected
    BY <2>7 DEF Selected
  <2>9. SnapshotTurns \/ UNCHANGED viewVars
    <3> SUFFICES ASSUME Selected \notin Range(shown) PROVE SnapshotTurns
      BY <2>1
    <3>1. Selected = NoService
      BY <2>2 DEF ModelInv, ShownSelected
    <3> QED
      BY <2>1, <2>4, <2>6, <3>1 DEF SnapshotTurns
  <2>10. ShownSelected'
    <3>1. {id \in Range(Services) : known' /\ Matches(id, m'.filter)} = passing
      BY <2>1
    <3> QED
      BY <2>3, <2>8, <3>1 DEF ShownSelected
  <2>11. KillAsked'
    <3> SUFFICES ASSUME ~Leaving, m.confirm # None, m.confirm.action = "kill"
                 PROVE  selected = Selected
      BY <1>0, <2>1, <2>8 DEF ModelInv, KillAsked
    <3>1. Selected # NoService
      BY DEF ModelInv, KillAsked
    <3>2. Selected \in passing
      BY <3>1 DEF ModelInv, ShownSelected
    <3> QED
      BY <2>3, <3>2
  <2>12. OneAction' /\ m' = m /\ actions' = actions /\ results' = results
    BY <2>1 DEF ModelInv, OneAction
  <2>13. ModelInv'
    BY <2>6, <2>7, <2>10, <2>11, <2>12 DEF ModelInv
  <2> QED
    BY <2>1, <2>9, <2>13
<1>7. CASE TakeResult
  <2>1. /\ results > 0 /\ results' = results - 1 /\ m' = [m EXCEPT !.busy = FALSE]
        /\ UNCHANGED <<known, actions, handled, storeVars, viewVars>>
    BY <1>7 DEF TakeResult
  <2>2. /\ DOMAIN m = Fields /\ results \in 0..1 /\ IsFiniteSet(actions)
        /\ Cardinality(actions) \in Nat
    BY FS_CardinalityType DEF ModelInv
  <2>3. /\ DOMAIN m' = Fields /\ m'.busy = FALSE /\ m'.focus = m.focus
        /\ m'.filter = m.filter /\ m'.confirm = m.confirm
    BY <2>1, <2>2 DEF Fields
  <2>4. Cardinality(actions) = 0 /\ results = 1 /\ results' = 0
    <3>1. Cardinality(actions) + results \in {0, 1}
      BY Zenon DEF ModelInv, OneAction
    <3> QED
      BY <2>1, <2>2, <3>1
  <2>5. Cardinality(actions') + results' = 0
    BY <2>1, <2>4
  <2>6. OneAction'
    BY <2>3, <2>5, Zenon DEF OneAction
  <2>7. target' = target /\ known' = known /\ actions' = actions /\ handled' = handled
    BY <2>1 DEF viewVars
  <2>8. ShownSelected' /\ KillAsked'
    BY <1>0, <2>3, <2>7 DEF ModelInv, ShownSelected, KillAsked, Selected
  <2>9. m'.busy \in BOOLEAN
    BY <2>3
  <2>10. ModelInv'
    BY <2>2, <2>3, <2>4, <2>6, <2>7, <2>8, <2>9 DEF ModelInv
  <2> QED
    BY <2>1, <2>10
<1>8. ASSUME NEW a \in actions, ActionEnds(a)
      PROVE  ModelInv' /\ UNCHANGED <<storeVars, viewVars>>
  <2>1. /\ results = 0 /\ actions' = actions \ {a} /\ results' = 1
        /\ UNCHANGED <<m, known, handled, storeVars, viewVars>>
    BY <1>8 DEF ActionEnds
  <2>2. IsFiniteSet(actions) /\ Cardinality(actions) \in Nat
    BY FS_CardinalityType DEF ModelInv
  <2>3. IsFiniteSet(actions') /\ Cardinality(actions') = Cardinality(actions) - 1
    BY <2>1, <2>2, FS_RemoveElement
  <2>4. Cardinality(actions') + results' = Cardinality(actions) + results
    BY <2>1, <2>2, <2>3
  <2>5. OneAction'
    BY <2>1, <2>4 DEF ModelInv, OneAction
  <2>6. target' = target
    BY <2>1 DEF viewVars
  <2>7. ShownSelected' /\ KillAsked'
    BY <1>0, <2>1, <2>6 DEF ModelInv, ShownSelected, KillAsked, Selected
  <2>8. ModelInv'
    BY <2>1, <2>3, <2>5, <2>6, <2>7 DEF ModelInv
  <2> QED
    BY <2>1, <2>8
<1> QED
  BY <1>1, <1>3, <1>4, <1>5, <1>6, <1>7, <1>8 DEF TuiNext

LEMMA TuiBegins ==
  ASSUME TuiInit
  PROVE  TuiIInv
<1>1. StoreInv
  BY StoreAssumption DEF TuiInit, StoreInit, StoreInv, StoreTypeOK, Numbered, LatestKept
<1>2. ViewInv /\ InputInv /\ FramingInv
  BY ViewBegins, InputBegins DEF TuiInit
<1>3. LoopInv
  BY DEF TuiInit, LoopInv, LeftClean
<1>4. ModelInv
  <2>1. /\ target = <<NoService, "logs">> /\ known = FALSE /\ actions = {} /\ results = 0
        /\ m.busy = FALSE /\ m.confirm = None /\ m.focus = 0 /\ DOMAIN m = Fields
    BY DEF TuiInit, Fields
  <2>2. target \in Panes /\ Selected = NoService
    BY <2>1 DEF Panes, Selected
  <2>3. ShownSelected
    BY <2>1, <2>2 DEF ShownSelected
  <2>4. IsFiniteSet(actions) /\ OneAction
    BY <2>1, FS_EmptySet DEF OneAction
  <2>5. KillAsked
    BY <2>1 DEF KillAsked
  <2>6. m.busy \in BOOLEAN
    BY <2>1, Zenon
  <2> QED
    BY <2>1, <2>2, <2>3, <2>4, <2>5, <2>6 DEF ModelInv
<1> QED
  BY <1>1, <1>2, <1>3, <1>4 DEF TuiIInv

LEMMA StepKeeps ==
  ASSUME TuiIInv, [TuiNext]_allVars
  PROVE  TuiIInv'
<1>1. InputInv' /\ FramingInv' /\ LoopInv'
  BY BytesKept, LoopKept DEF TuiIInv
<1>2. /\ ModelInv'
      /\ \/ UNCHANGED storeVars /\ (Draw \/ PaneKey \/ SnapshotTurns \/ UNCHANGED viewVars)
         \/ LogEntry
  BY ModelKept DEF TuiIInv
<1>3. CASE LogEntry
  <2>1. /\ seq \in Nat /\ seq < Len(Written) /\ Written \in Seq(Targets \X Texts)
        /\ Log(Written[seq + 1][1], Written[seq + 1][2]) /\ UNCHANGED viewVars
    BY <1>3, TuiAssumption DEF LogEntry, TuiIInv, StoreInv, StoreTypeOK
  <2>2. Written[seq + 1] \in Targets \X Texts
    BY <2>1
  <2>3. StoreInv'
    BY <2>1, <2>2, LogTypes, LogNumbers, LogKeepsLatest DEF TuiIInv, StoreInv
  <2>4. ViewInv'
    <3>1. \E t \in Targets, text \in Texts : Log(t, text)
      BY <2>1, <2>2
    <3> QED
      BY <2>1, <3>1, EntryKeeps DEF TuiIInv
  <2> QED
    BY <1>1, <1>2, <2>3, <2>4 DEF TuiIInv
<1>4. CASE UNCHANGED storeVars /\ (Draw \/ PaneKey \/ SnapshotTurns \/ UNCHANGED viewVars)
  <2>0. StoreInv /\ ViewInv /\ UNCHANGED storeVars
    BY <1>4 DEF TuiIInv
  <2>1. StoreInv'
    BY <2>0 DEF storeVars, StoreInv, StoreTypeOK, Numbered, LatestKept
  <2>2. ViewInv'
    <3>1. CASE Draw
      BY <2>0, <3>1, DrawKeeps
    <3>2. CASE PaneKey \/ SnapshotTurns
      BY <2>0, <3>2, PaneTurns
    <3>3. CASE UNCHANGED viewVars
      BY <2>0, <3>3, PaneStands
    <3> QED
      BY <1>4, <3>1, <3>2, <3>3
  <2> QED
    BY <1>1, <1>2, <2>1, <2>2 DEF TuiIInv
<1> QED
  BY <1>2, <1>3, <1>4

-----------------------------------------------------------------------------
(* The theorems *)

\* Of Run, its goroutines, the model, the pane and the store together: the invariant
\* that each step keeps, whatever is typed, however the reads cut it, whatever is logged.
THEOREM TuiInvariantHolds == TuiSpec => []TuiIInv
<1>1. TuiInit => TuiIInv
  BY TuiBegins
<1>2. TuiIInv /\ [TuiNext]_allVars => TuiIInv'
  BY StepKeeps
<1> QED
  BY <1>1, <1>2, PTL DEF TuiSpec

\* One action runs at a time and its result finds room; what is selected is shown; and
\* when Run gives the terminal back both its goroutines have ended.
THEOREM LoopKeepsItsWord == TuiSpec => []TuiInv
<1>1. TuiIInv => TuiInv
  <2> SUFFICES ASSUME TuiIInv PROVE TuiInv
    OBVIOUS
  <2>1. TuiTypeOK
    BY DEF TuiIInv, TuiTypeOK, ViewInv, LoopInv, InputInv, ModelInv
  <2> QED
    BY <2>1 DEF TuiIInv, TuiInv, LoopInv, ModelInv
<1> QED
  BY <1>1, TuiInvariantHolds, PTL

\* The keys that are handled are those in the bytes typed, wherever the reads cut them.
THEOREM KeysAreFramed == TuiSpec => []KeysFramed
<1>1. TuiIInv => KeysFramed
  BY DEF TuiIInv, FramingInv
<1> QED
  BY <1>1, TuiInvariantHolds, PTL

\* A frame shows matching entries of its target, in order, and leaves out none between
\* those it shows.
THEOREM FramesAreWhole == TuiSpec => []ShownInOrder
<1>1. TuiIInv => ShownInOrder
  BY DEF TuiIInv, ViewInv
<1> QED
  BY <1>1, TuiInvariantHolds, PTL

\* An action is started by its key alone, a kill by the y that answers k, and for the
\* service that is selected.
THEOREM OnlyActionsAsked == TuiSpec => ActionsAsked
<1> DEFINE Asked ==
             \A a \in actions' \ actions :
               LET n == Len(handled')
               IN  /\ a.id = Selected
                   /\ IF a.action = "kill"
                        THEN handled'[n - 1].key = <<"k">> /\ handled'[n].key = <<"y">>
                        ELSE a.action = ActionOf[handled'[n].key[1]]
<1>1. TuiIInv /\ [TuiNext]_allVars => [Asked]_allVars
  <2> SUFFICES ASSUME TuiIInv, TuiNext PROVE Asked
    BY Zenon
  <2>1. CASE HandleKey
    BY <2>1, KeyKeeps DEF TuiIInv
  <2>2. CASE ~HandleKey
    <3>1. actions' \subseteq actions
      <4>1. CASE Leave \/ TakeUpdate \/ TakeResult \/ TakeKeys \/ Redraw \/ Render \/ Return \/ Cancel
        BY <4>1 DEF Leave, TakeUpdate, TakeResult, TakeKeys, Redraw, Render, Return, Cancel, modelVars
      <4>2. CASE WorkerStep \/ ReaderStep \/ HangUp
        BY <4>2 DEF WorkerStep, ReaderStep, ReadChunk, SendChunk, ReaderStops, HangUp, Others, modelVars
      <4>3. CASE LogEntry \/ \E a \in actions : ActionEnds(a)
        BY <4>3 DEF LogEntry, ActionEnds, tuiVars, modelVars
      <4> QED
        BY <2>2, <4>1, <4>2, <4>3 DEF TuiNext
    <3> QED
      BY <3>1
  <2> QED
    BY <2>1, <2>2
<1>2. TuiSpec => [][Asked]_allVars
  BY <1>1, TuiInvariantHolds, PTL DEF TuiSpec
<1> QED
  BY <1>2 DEF ActionsAsked

\* While a service is selected and no key is pressed a paused frame ends where it ended,
\* or at the oldest entry there still is.
THEOREM PausedFramesStay == TuiSpec => PausedStays
<1> DEFINE Stays == Unpressed /\ Rows # <<>> /\ Selected # NoService => PauseKept
<1>1. TuiIInv /\ [TuiNext]_allVars => [Stays]_<<storeVars, viewVars>>
  <2> SUFFICES ASSUME TuiIInv, [TuiNext]_allVars, Unpressed, Rows # <<>>, Selected # NoService
               PROVE  PauseKept
    BY Zenon
  <2>1. since = "none" /\ since' \in {"none", "snapshot"} /\ offset > 0
    BY DEF Unpressed
  <2>2. \/ UNCHANGED storeVars /\ (Draw \/ PaneKey \/ SnapshotTurns \/ UNCHANGED viewVars)
        \/ LogEntry
    BY ModelKept DEF TuiIInv
  <2>3. CASE LogEntry \/ UNCHANGED viewVars
    BY <2>3 DEF LogEntry, PauseKept
  <2>4. CASE Draw
    BY <2>1, <2>4, DrawStays DEF TuiIInv
  <2>5. CASE UNCHANGED storeVars /\ (PaneKey \/ SnapshotTurns)
    BY <2>1, <2>5, PaneTurns DEF TuiIInv, SnapshotTurns
  <2> QED
    BY <2>2, <2>3, <2>4, <2>5
<1>2. TuiSpec => [][Stays]_<<storeVars, viewVars>>
  BY <1>1, TuiInvariantHolds, PTL DEF TuiSpec
<1> QED
  BY <1>2 DEF PausedStays

=============================================================================
