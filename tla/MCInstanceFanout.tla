-------------------------- MODULE MCInstanceFanout --------------------------
EXTENDS InstanceFanout, TLC

CONSTANTS i1, i2, c1, c2, x1, x2

\* Instances, clients and items are interchangeable.
Symmetry == Permutations(Instances) \cup Permutations(Clients) \cup Permutations(Items)
=============================================================================
