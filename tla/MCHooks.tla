------------------------------ MODULE MCHooks ------------------------------
EXTENDS Hooks

CONSTANTS p1, p2, p3

MCOrder == <<p1, p2, p3>>

\* The last plugin requires the first.
MCRequires == [p \in {p1, p2, p3} |-> IF p = p3 THEN {p1} ELSE {}]

\* No signal, one with no action, and contradictory ones.
MCSignals == {{}, {"custom"}, {"passthrough", "terminate"}}

=============================================================================
