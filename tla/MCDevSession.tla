---------------------------- MODULE MCDevSession ----------------------------
\* Instances of DevSession for TLC.
EXTENDS DevSession, TLC

Symmetry == Permutations(Session) \union Permutations(Port)
=============================================================================
