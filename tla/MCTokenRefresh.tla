--------------------------- MODULE MCTokenRefresh ---------------------------
EXTENDS TokenRefresh, TLC

Symmetry == Permutations(Requests)
=============================================================================
