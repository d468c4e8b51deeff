-------------------------- MODULE MCApprovalFlow ---------------------------
EXTENDS ApprovalFlow, TLC

Symmetry ==
    Permutations(Handler) \cup Permutations(UserID) \cup Permutations(SessionID) \cup Permutations(ApprovalID)
=============================================================================
