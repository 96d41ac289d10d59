-------------------------- MODULE MCArtifactCache --------------------------
\* Instances of ArtifactCache for TLC, and the mistakes its properties catch.
EXTENDS ArtifactCache, TLC

Symmetry == Permutations(Proc)
============================================================================
