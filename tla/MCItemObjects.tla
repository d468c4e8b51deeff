--------------------------- MODULE MCItemObjects ---------------------------
EXTENDS ItemObjects, TLC

Symmetry == Permutations(Call) \cup Permutations(CredentialID)
=============================================================================
