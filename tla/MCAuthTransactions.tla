------------------------- MODULE MCAuthTransactions -------------------------
EXTENDS AuthTransactions, TLC

Symmetry ==
    Permutations(Transactions) \cup Permutations(Browsers) \cup Permutations(Callbacks)
        \cup Permutations(Clients)
=============================================================================
