-------------------------- MODULE MCSecretService --------------------------
EXTENDS SecretService, TLC

Symmetry ==
    Permutations(Thread) \cup Permutations(Prompt) \cup Permutations(Item) \cup Permutations(ApprovalID)
=============================================================================
