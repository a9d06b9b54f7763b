--------------------------- MODULE MCProvisioning ---------------------------
EXTENDS Provisioning, TLC

Symmetry == Permutations(Tasks)
=============================================================================
