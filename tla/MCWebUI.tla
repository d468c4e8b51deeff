------------------------------ MODULE MCWebUI ------------------------------
EXTENDS WebUI, TLC

Symmetry == Permutations(Task) \cup Permutations(SessionID) \cup Permutations(ApprovalID)
=============================================================================
