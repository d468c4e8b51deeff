-------------------------- MODULE MCCredentialFlow --------------------------
(* CredentialFlow, for TLC: callers, users and uuids are interchangeable. *)
EXTENDS CredentialFlow, TLC

Symmetry == Permutations(Caller) \cup Permutations(UserID) \cup Permutations(CredentialID)
=============================================================================
