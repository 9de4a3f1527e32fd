---------------------------- MODULE MCAssistant ----------------------------
(* Instances of Assistant for TLC: one person and two case managers, who   *)
(* may ask too.                                                            *)
EXTENDS Assistant, TLC

CONSTANTS ann, bob, cat

Everybody    == {ann, bob, cat}
CaseManagers == {bob, cat}
Symmetry     == Permutations(Exchanges) \cup Permutations(CaseManagers)
=============================================================================
