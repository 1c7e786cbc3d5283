---------------------------- MODULE MCSupervisor ----------------------------
EXTENDS SupervisorInvariant, TLC

Symmetry == Permutations(Requests) \cup Permutations(Attempts) \cup Permutations(Stops)
=============================================================================
