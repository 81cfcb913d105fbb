------------------------------ MODULE MCRepCtl ------------------------------
EXTENDS RepCtl, TLC
Symmetry == Permutations(Pids) \cup Permutations(Slots)

\* Bound: what follows an abandoned script is not explored; there the
\* properties hold by their first disjunct.
NotAbandoned == ~abandoned
=============================================================================
