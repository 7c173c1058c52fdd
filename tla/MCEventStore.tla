---------------------------- MODULE MCEventStore ----------------------------
(* Two trade ids and two concurrent store callers; ids and callers are *)
(* interchangeable, so both sets are symmetry sets.                   *)
EXTENDS EventStore, TLC

CONSTANTS i1, i2, c1, c2

MCIds == {i1, i2}
MCCallers == {c1, c2}
MCSymmetry == Permutations(MCIds) \cup Permutations(MCCallers)

=============================================================================
