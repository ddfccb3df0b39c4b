--------------------------- MODULE MCInstanceClaim ---------------------------
EXTENDS InstanceClaim, TLC

\* Controllers differ in nothing but their name.
Symmetry == Permutations(Controllers)
=============================================================================
