--------------------------- MODULE MCStaffAccess ---------------------------
(***************************************************************************)
(* Instances of StaffAccess for TLC.  u1 and u2 are on both lists, so that *)
(* two listed people can race for a bootstrap; u3 is on neither.           *)
(***************************************************************************)
EXTENDS StaffAccess, TLC

CONSTANTS u1, u2, u3

AllUsers  == {u1, u2, u3}
Listed    == {u1, u2}

\* Bound: a start goes on only in a database without u3, who is on neither list.
StartsAmongListed == roles[u3] # NoAccount => \A s \in Starts : starting[s] = "staff?"

\* The two listed people are interchangeable, and so are the requests.
Symmetry == Permutations(Listed) \cup Permutations(Requests)
=============================================================================
