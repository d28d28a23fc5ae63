--------------------------- MODULE MCSessionLife ---------------------------
EXTENDS SessionLife, TLC

Symmetry == Permutations(Requests)
=============================================================================
