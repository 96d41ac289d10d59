--------------------------- MODULE MCRuntimeCache ---------------------------
\* Instances of RuntimeCache for TLC.
EXTENDS RuntimeCache, TLC

Symmetry == Permutations(Proc)
============================================================================
