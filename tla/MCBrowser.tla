----------------------------- MODULE MCBrowser -----------------------------
(* Instances of Browser for TLC. *)
EXTENDS Browser, TLC

Symmetry == Permutations(Tabs) \cup Permutations(SignIns)
=============================================================================
