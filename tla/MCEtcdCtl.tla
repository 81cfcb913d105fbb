----------------------------- MODULE MCEtcdCtl -----------------------------
EXTENDS EtcdCtl, TLC

Symmetry == Permutations(Nodes)

\* Bound: what follows a fault is not explored; there the properties hold by
\* their last disjunct or for want of their premise.
NoFault == faults = {}

\* Every address is found in its own entries only.
Distinct == [n \in Nodes |-> {n}]
=============================================================================
