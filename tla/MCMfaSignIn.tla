---------------------------- MODULE MCMfaSignIn ----------------------------
(* Instances of MfaSignIn for TLC. *)
EXTENDS MfaSignIn, TLC

Symmetry == Permutations(Requests) \cup Permutations(PendingSignIns)
=============================================================================
