--------------------------- MODULE MCPolicyCache ---------------------------
(* Instances of PolicyCache for TLC. *)
EXTENDS PolicyCache

CONSTANTS p1, p2, limited, off

\* The route is closed to the caller, a rule is switched off, the route is open again.
MCCalls == {[on |-> {limited}, off |-> {},        process |-> p1],
            [on |-> {off},     off |-> {},        process |-> p2],
            [on |-> {},        off |-> {limited}, process |-> p2]}
=============================================================================
