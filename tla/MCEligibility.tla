--------------------------- MODULE MCEligibility ---------------------------
(* Instances of Eligibility for TLC. *)
EXTENDS Eligibility, TLC

\* A phone, an address, and an income on either side of the threshold.
SomeChanges == {[phone |-> TRUE], [address |-> TRUE, annualIncome |-> 20000],
                [annualIncome |-> 19999, hasDocumentedHardship |-> TRUE]}

Symmetry == Permutations(Requests)
=============================================================================
