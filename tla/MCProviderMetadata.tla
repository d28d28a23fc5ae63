------------------------ MODULE MCProviderMetadata -------------------------
EXTENDS ProviderMetadata, TLC

Symmetry == Permutations(Readers) \cup Permutations(Callbacks)
=============================================================================
