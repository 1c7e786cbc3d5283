------------------------------ MODULE StoreProofs ------------------------------
(***************************************************************************)
(* Proofs about Store.tla, for any targets, texts and capacity: a log      *)
(* keeps the latest entries of its target, numbered in order.              *)
(***************************************************************************)
EXTENDS Store, TLAPS

\* Whoever reads a number finds one entry by it.
LEMMA RoomIsLess ==
  ASSUME NEW entries \in Seq(Entries), Len(entries) <= Capacity
  PROVE  /\ Room(entries) \in Seq(Entries) /\ Len(Room(entries)) < Capacity
         /\ Len(Room(entries)) = IF Len(entries) = Capacity THEN Capacity - 1 ELSE Len(entries)
         /\ \A i \in 1..Len(Room(entries)) :
              Room(entries)[i] = entries[Len(entries) - Len(Room(entries)) + i]
<1>0. Capacity \in Nat /\ Capacity >= 1 /\ Len(entries) \in Nat
  BY StoreAssumption
<1>1. CASE Len(entries) = Capacity
  <2>1. entries # <<>>
    BY <1>0, <1>1
  <2>2. Tail(entries) \in Seq(Entries) /\ Len(Tail(entries)) = Len(entries) - 1
    BY <2>1
  <2>3. \A i \in 1..Len(Tail(entries)) : Tail(entries)[i] = entries[i + 1]
    BY <2>1, <2>2
  <2>4. Room(entries) = Tail(entries)
    BY <1>1 DEF Room
  <2>5. Len(entries) - Len(Tail(entries)) = 1
    BY <1>0, <2>2
  <2>6. \A i \in Int : 1 + i = i + 1
    OBVIOUS
  <2> QED
    BY <1>0, <1>1, <2>2, <2>3, <2>4, <2>5, <2>6
<1>2. CASE Len(entries) # Capacity
  <2>1. Room(entries) = entries
    BY <1>2 DEF Room
  <2>2. \A i \in 1..Len(entries) : Len(entries) - Len(entries) + i = i
    BY <1>0
  <2> QED
    BY <1>0, <1>2, <2>1, <2>2
<1> QED
  BY <1>1, <1>2

\* An entry is appended: the types.
LEMMA LogTypes ==
  ASSUME StoreInv, NEW t \in Targets, NEW text \in Texts, Log(t, text)
  PROVE  StoreTypeOK'
<1> DEFINE entry == [seq |-> seq + 1, text |-> text]
<1>1. entry \in Entries /\ seq' \in Nat
  BY DEF StoreInv, StoreTypeOK, Entries, Log
<1>2. Room(kept[t]) \in Seq(Entries) /\ logged[t] \in Seq(Entries)
  BY RoomIsLess DEF StoreInv, StoreTypeOK, LatestKept
<1>3. Append(Room(kept[t]), entry) \in Seq(Entries) /\ Append(logged[t], entry) \in Seq(Entries)
  BY <1>1, <1>2
<1>4. /\ kept' = [kept EXCEPT ![t] = Append(Room(kept[t]), entry)]
      /\ logged' = [logged EXCEPT ![t] = Append(logged[t], entry)]
  BY DEF Log, StoreInv, StoreTypeOK
<1> HIDE DEF entry
<1> QED
  BY <1>1, <1>3, <1>4 DEF StoreInv, StoreTypeOK

\* What the logs are after an entry.
LEMMA LogEffect ==
  ASSUME StoreInv, NEW t \in Targets, NEW text \in Texts, Log(t, text)
  PROVE  /\ seq' = seq + 1
         /\ \A u \in Targets : u # t => kept'[u] = kept[u] /\ logged'[u] = logged[u]
         /\ logged'[t] = Append(logged[t], [seq |-> seq + 1, text |-> text])
         /\ kept'[t] = Append(Room(kept[t]), [seq |-> seq + 1, text |-> text])
  BY DEF Log, StoreInv, StoreTypeOK

\* The new entry has a number above all others.
LEMMA LogNumbers ==
  ASSUME StoreInv, NEW t \in Targets, NEW text \in Texts, Log(t, text)
  PROVE  Numbered'
<1> DEFINE entry == [seq |-> seq + 1, text |-> text]
<1>0. seq \in Nat /\ \A u \in Targets : logged[u] \in Seq(Entries)
  BY DEF StoreInv, StoreTypeOK
<1>1. /\ seq' = seq + 1 /\ entry.seq = seq + 1
      /\ \A u \in Targets : u # t => logged'[u] = logged[u]
      /\ logged'[t] = Append(logged[t], entry)
  BY LogEffect
<1> HIDE DEF entry
<1>2. /\ DOMAIN logged'[t] = 1..Len(logged[t]) + 1
      /\ \A i \in DOMAIN logged[t] : logged'[t][i] = logged[t][i]
      /\ logged'[t][Len(logged[t]) + 1] = entry
      /\ DOMAIN logged[t] = 1..Len(logged[t]) /\ Len(logged[t]) \in Nat
  BY <1>0, <1>1
<1>3. ASSUME NEW u \in Targets, NEW i \in DOMAIN logged'[u]
      PROVE  \/ i \in DOMAIN logged[u] /\ logged'[u][i] = logged[u][i]
                  /\ logged[u][i].seq <= seq /\ logged[u][i].seq \in Nat
             \/ u = t /\ i = Len(logged[t]) + 1 /\ logged'[u][i].seq = seq + 1
  <2>1. i \in DOMAIN logged[u] => logged[u][i].seq <= seq /\ logged[u][i].seq \in Nat
    <3>1. i \in DOMAIN logged[u] => logged[u][i] \in Entries
      BY <1>0
    <3> QED
      BY <3>1 DEF StoreInv, Numbered, Entries
  <2>2. CASE u = t
    BY <1>1, <1>2, <2>1, <2>2, SMTT(30)
  <2>3. CASE u # t
    BY <1>1, <2>1, <2>3
  <2> QED
    BY <2>2, <2>3
<1>4. ASSUME NEW u \in Targets, NEW i \in DOMAIN logged'[u], NEW j \in DOMAIN logged'[u]
      PROVE  /\ logged'[u][i].seq <= seq'
             /\ i < j => logged'[u][i].seq < logged'[u][j].seq
  BY <1>0, <1>1, <1>2, <1>3, <1>4, SMTT(30) DEF StoreInv, Numbered
<1>5. ASSUME NEW u \in Targets, NEW v \in Targets,
             NEW i \in DOMAIN logged'[u], NEW j \in DOMAIN logged'[v],
             logged'[u][i].seq = logged'[v][j].seq
      PROVE  u = v /\ i = j
  BY <1>0, <1>3, <1>5, SMTT(30) DEF StoreInv, Numbered
<1> QED
  BY <1>4, <1>5 DEF Numbered

\* The log of a target remains the end of all it has logged.
LEMMA LogKeepsLatest ==
  ASSUME StoreInv, NEW t \in Targets, NEW text \in Texts, Log(t, text)
  PROVE  LatestKept'
<1> DEFINE entry == [seq |-> seq + 1, text |-> text]
           room  == Room(kept[t])
<1>0. /\ kept[t] \in Seq(Entries) /\ logged[t] \in Seq(Entries) /\ Capacity \in Nat \ {0}
      /\ Len(kept[t]) <= Capacity /\ Len(kept[t]) <= Len(logged[t])
      /\ Len(kept[t]) < Len(logged[t]) => Len(kept[t]) = Capacity
      /\ \A i \in 1..Len(kept[t]) : kept[t][i] = logged[t][Len(logged[t]) - Len(kept[t]) + i]
  BY StoreAssumption DEF StoreInv, StoreTypeOK, LatestKept
<1>1. /\ room \in Seq(Entries) /\ Len(room) < Capacity
      /\ Len(room) = IF Len(kept[t]) = Capacity THEN Capacity - 1 ELSE Len(kept[t])
      /\ \A i \in 1..Len(room) : room[i] = kept[t][Len(kept[t]) - Len(room) + i]
  BY <1>0, RoomIsLess
<1>2. /\ \A u \in Targets : u # t => kept'[u] = kept[u] /\ logged'[u] = logged[u]
      /\ logged'[t] = Append(logged[t], entry) /\ kept'[t] = Append(room, entry)
  BY LogEffect
<1>a. entry \in Entries
  BY DEF Entries, StoreInv, StoreTypeOK
<1> HIDE DEF entry, room
<1>3. /\ Len(kept'[t]) = Len(room) + 1 /\ Len(logged'[t]) = Len(logged[t]) + 1
      /\ Len(room) \in Nat /\ Len(kept[t]) \in Nat /\ Len(logged[t]) \in Nat
  BY <1>0, <1>1, <1>2, <1>a
<1>b. /\ \A i \in 1..Len(room) : kept'[t][i] = room[i]
      /\ kept'[t][Len(room) + 1] = entry
      /\ \A i \in 1..Len(logged[t]) : logged'[t][i] = logged[t][i]
      /\ logged'[t][Len(logged[t]) + 1] = entry
  BY <1>0, <1>1, <1>2, <1>a
<1>c. /\ Len(kept[t]) - Len(room) \in {0, 1} /\ Len(room) < Capacity
      /\ Len(room) <= Len(kept[t]) /\ Len(kept[t]) <= Len(logged[t])
      /\ Len(kept[t]) # Len(room) => Len(kept[t]) = Capacity
  <2>1. CASE Len(kept[t]) = Capacity
    BY <1>0, <1>1, <1>3, <2>1
  <2>2. CASE Len(kept[t]) # Capacity
    BY <1>0, <1>1, <1>3, <2>2
  <2> QED
    BY <2>1, <2>2
<1>4. ASSUME NEW i \in 1..Len(kept'[t])
      PROVE  kept'[t][i] = logged'[t][Len(logged'[t]) - Len(kept'[t]) + i]
  <2>1. CASE i = Len(room) + 1
    <3>0. \A m, n \in Int : (m + 1) - (n + 1) + (n + 1) = m + 1
      OBVIOUS
    <3>1. Len(logged'[t]) - Len(kept'[t]) + i = Len(logged[t]) + 1
      <4>1. Len(room) \in Int /\ Len(logged[t]) \in Int
        BY <1>3
      <4>2. (Len(logged[t]) + 1) - (Len(room) + 1) + (Len(room) + 1) = Len(logged[t]) + 1
        BY <3>0, <4>1, Zenon
      <4> QED
        BY <1>3, <2>1, <4>2, Zenon
    <3>2. kept'[t][i] = entry
      BY <1>b, <2>1
    <3>3. logged'[t][Len(logged'[t]) - Len(kept'[t]) + i] = entry
      BY <1>b, <3>1
    <3> QED
      BY <3>2, <3>3
  <2>2. CASE i \in 1..Len(room)
    <3>1. kept'[t][i] = room[i]
      BY <1>b, <2>2
    <3>i. i \in Nat /\ 1 <= i /\ i <= Len(room)
      BY <1>3, <2>2
    <3>2. Len(kept[t]) - Len(room) + i \in 1..Len(kept[t])
      BY <1>3, <1>c, <3>i
    <3>c. \A m, n, k, j \in Int : m - n + (n - k + j) = m - k + j
      OBVIOUS
    <3>a. Len(logged[t]) - Len(kept[t]) + (Len(kept[t]) - Len(room) + i)
            = Len(logged[t]) - Len(room) + i
      <4>1. /\ Len(room) \in Int /\ Len(logged[t]) \in Int /\ Len(kept[t]) \in Int
            /\ i \in Int
        BY <1>3, <3>i
      <4>2. \A k, j \in Int : Len(logged[t]) - Len(kept[t]) + (Len(kept[t]) - k + j)
                                = Len(logged[t]) - k + j
        BY <3>c, <4>1, Zenon
      <4> QED
        BY <4>1, <4>2, Zenon
    <3>b. /\ room[i] = kept[t][Len(kept[t]) - Len(room) + i]
          /\ kept[t][Len(kept[t]) - Len(room) + i]
               = logged[t][Len(logged[t]) - Len(kept[t]) + (Len(kept[t]) - Len(room) + i)]
      BY <1>0, <1>1, <2>2, <3>2
    <3>3. room[i] = logged[t][Len(logged[t]) - Len(room) + i]
      BY <3>a, <3>b
    <3>4. Len(logged[t]) - Len(room) + i \in 1..Len(logged[t])
      <4>1. Len(logged[t]) - Len(room) >= 0
        BY <1>3, <1>c
      <4> QED
        BY <1>3, <3>i, <4>1
    <3>5. logged'[t][Len(logged[t]) - Len(room) + i] = logged[t][Len(logged[t]) - Len(room) + i]
      BY <1>b, <3>4
    <3>6. Len(logged'[t]) - Len(kept'[t]) + i = Len(logged[t]) - Len(room) + i
      BY <1>3, <2>2
    <3> QED
      BY <3>1, <3>3, <3>5, <3>6
  <2> QED
    BY <1>3, <2>1, <2>2
<1>5. ASSUME NEW u \in Targets
      PROVE  /\ Len(kept'[u]) <= Capacity /\ Len(kept'[u]) <= Len(logged'[u])
             /\ Len(kept'[u]) < Len(logged'[u]) => Len(kept'[u]) = Capacity
             /\ \A i \in 1..Len(kept'[u]) :
                  kept'[u][i] = logged'[u][Len(logged'[u]) - Len(kept'[u]) + i]
  <2>1. CASE u = t
    <3>1. /\ Len(kept'[t]) <= Capacity /\ Len(kept'[t]) <= Len(logged'[t])
          /\ Len(kept'[t]) < Len(logged'[t]) => Len(kept'[t]) = Capacity
      BY <1>0, <1>3, <1>c
    <3> QED
      BY <1>4, <2>1, <3>1
  <2>2. CASE u # t
    BY <1>2, <2>2 DEF StoreInv, LatestKept
  <2> QED
    BY <2>1, <2>2
<1> QED
  BY <1>5 DEF LatestKept

\* Every log keeps the latest entries of its target, as many as there is room for, and
\* numbers are in order and never used twice.
THEOREM LogsAreRight == StoreSpec => []StoreInv
<1>1. StoreInit => StoreInv
  BY StoreAssumption DEF StoreInit, StoreInv, StoreTypeOK, Numbered, LatestKept
<1>2. StoreInv /\ [StoreNext]_storeVars => StoreInv'
  <2> SUFFICES ASSUME StoreInv, [StoreNext]_storeVars PROVE StoreInv'
    OBVIOUS
  <2>1. ASSUME NEW t \in Targets, NEW text \in Texts, Log(t, text)
        PROVE  StoreInv'
    BY <2>1, LogTypes, LogNumbers, LogKeepsLatest DEF StoreInv
  <2>2. CASE UNCHANGED storeVars
    BY <2>2 DEF storeVars, StoreInv, StoreTypeOK, Numbered, LatestKept
  <2> QED
    BY <2>1, <2>2 DEF StoreNext
<1> QED
  BY <1>1, <1>2, PTL DEF StoreSpec

=============================================================================
