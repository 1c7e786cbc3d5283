-------------------------------- MODULE Store ---------------------------------
(***************************************************************************)
(* internal/observe/store.go: what heron and its commands have logged, the *)
(* latest entries of each target, which is a service's output or events.   *)
(***************************************************************************)
EXTENDS Integers, Sequences

CONSTANTS
  Targets,      \* a service with one of the maps logs and events
  Texts,
  Capacity

ASSUME StoreAssumption == Capacity \in Nat \ {0}

VARIABLES
  seq,
  kept,         \* the entries of logs and events
  logged        \* history: all there ever were

storeVars == <<seq, kept, logged>>

Entries == [seq : Nat \ {0}, text : Texts]

StoreInit ==
  /\ seq = 0
  /\ kept = [t \in Targets |-> <<>>] /\ logged = [t \in Targets |-> <<>>]

\* Mutant: the newest entry makes room.
NewestDropped(entries) ==
  IF Len(entries) = Capacity THEN SubSeq(entries, 1, Capacity - 1) ELSE entries

\* The oldest entry makes room.
Room(entries) == IF Len(entries) = Capacity THEN Tail(entries) ELSE entries

\* append, for a record whose attributes say target t
Log(t, text) ==
  LET entry == [seq |-> seq + 1, text |-> text]
  IN  /\ seq' = seq + 1
      /\ kept' = [kept EXCEPT ![t] = Append(Room(@), entry)]
      /\ logged' = [logged EXCEPT ![t] = Append(@, entry)]

StoreNext == \E t \in Targets, text \in Texts : Log(t, text)

StoreSpec == StoreInit /\ [][StoreNext]_storeVars

-----------------------------------------------------------------------------
(* Properties *)

StoreTypeOK ==
  /\ seq \in Nat
  /\ kept \in [Targets -> Seq(Entries)] /\ logged \in [Targets -> Seq(Entries)]

\* Entries of a target are numbered in the order in which they came; numbers are never
\* used twice, not for two targets either (Store.seq is shared by all).
Numbered ==
  /\ \A t \in Targets : \A i, j \in DOMAIN logged[t] :
       /\ logged[t][i].seq <= seq
       /\ i < j => logged[t][i].seq < logged[t][j].seq
  /\ \A t, u \in Targets : \A i \in DOMAIN logged[t], j \in DOMAIN logged[u] :
       logged[t][i].seq = logged[u][j].seq => t = u /\ i = j

\* Each target keeps its latest entries, as many as there is room for, whatever the
\* other targets log ("bounded, concurrent log/event snapshots", store.go:1).
LatestKept ==
  \A t \in Targets :
    LET n == Len(kept[t])
        m == Len(logged[t])
    IN  /\ n <= Capacity /\ n <= m /\ (n < m => n = Capacity)
        /\ \A i \in 1..n : kept[t][i] = logged[t][m - n + i]

StoreInv == StoreTypeOK /\ Numbered /\ LatestKept

=============================================================================
