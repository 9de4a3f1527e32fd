----------------------------- MODULE MCEvalRuns -----------------------------
(* Instances of EvalRuns for TLC. *)
EXTENDS EvalRuns, TLC

Symmetry == Permutations(Starts) \cup Permutations(Marks)
=============================================================================
