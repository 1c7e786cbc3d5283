---------------------------- MODULE LazyService ----------------------------
(***************************************************************************)
(* What a lazily started service promises to the proxy and to the          *)
(* operator, without locks, channels, timers, goroutines or errors.        *)
(* Supervisor.tla is shown to implement it.                                *)
(***************************************************************************)
CONSTANTS Clients, Processes

VARIABLES
  phase,       \* "down", "coming" (build and start), "up", or "going"
  leases,      \* clients the service must stay up for
  live,        \* processes running on behalf of the service
  inhibited    \* "no", "manual" (stopped by the operator) or "final"

lazyVars == <<phase, leases, live, inhibited>>

LazyTypeOK ==
  /\ phase \in {"down", "coming", "up", "going"}
  /\ leases \subseteq Clients
  /\ live \subseteq Processes
  /\ inhibited \in {"no", "manual", "final"}

LazyInit ==
  /\ phase = "down" /\ leases = {} /\ live = {} /\ inhibited = "no"

\* Traffic starts a service that is down, unless that is inhibited.
Demand ==
  /\ phase = "down" /\ inhibited = "no"
  /\ phase' = "coming"
  /\ UNCHANGED <<leases, live, inhibited>>

\* One process at a time, and none for a service that is up or down.
Spawn(p) ==
  /\ phase \in {"coming", "going"} /\ live = {}
  /\ live' = {p}
  /\ UNCHANGED <<phase, leases, inhibited>>

Rise ==
  /\ phase = "coming"
  /\ phase' = "up"
  /\ UNCHANGED <<leases, live, inhibited>>

Die(p) ==
  /\ p \in live
  /\ live' = live \ {p}
  /\ UNCHANGED <<phase, leases, inhibited>>

\* A service fails only with its process.
Fall ==
  /\ phase \in {"coming", "up"} /\ live = {}
  /\ phase' = "down"
  /\ UNCHANGED <<leases, live, inhibited>>

Grant(c) ==
  /\ phase = "up" /\ inhibited = "no"
  /\ leases' = leases \cup {c}
  /\ UNCHANGED <<phase, live, inhibited>>

Return(c) ==
  /\ c \in leases
  /\ leases' = leases \ {c}
  /\ UNCHANGED <<phase, live, inhibited>>

\* A stop is either for lack of use or ordered by whoever inhibits the service.
Retire ==
  /\ phase = "up" /\ leases = {}
  /\ phase' = "going"
  /\ UNCHANGED <<leases, live, inhibited>>

Order ==
  /\ phase # "going" /\ inhibited # "no"
  /\ phase' = "going"
  /\ UNCHANGED <<leases, live, inhibited>>

Gone ==
  /\ phase = "going" /\ live = {}
  /\ phase' = "down"
  /\ UNCHANGED <<leases, live, inhibited>>

\* The operator inhibits, killing the process at once if asked.
Inhibit ==
  /\ inhibited' = IF inhibited = "final" THEN "final" ELSE "manual"
  /\ live' \in SUBSET live
  /\ UNCHANGED <<phase, leases>>

Permit ==
  /\ inhibited = "manual"
  /\ inhibited' = "no"
  /\ UNCHANGED <<phase, leases, live>>

Finalize ==
  /\ inhibited' = "final"
  /\ UNCHANGED <<phase, leases, live>>

LazyNext ==
  \/ Demand \/ Rise \/ Fall \/ Retire \/ Order \/ Gone
  \/ Inhibit \/ Permit \/ Finalize
  \/ \E p \in Processes : Spawn(p) \/ Die(p)
  \/ \E c \in Clients : Grant(c) \/ Return(c)

LazySpec == LazyInit /\ [][LazyNext]_lazyVars

=============================================================================
