----------------------------- MODULE MCModeCheck -----------------------------
(* Model values for TLC: bodies on an `init` parameter and on a `take`     *)
(* parameter of a linear type, each with two fields.                       *)
EXTENDS ModeCheck, TLC

CONSTANTS x, y, f, g

FieldSymmetry == Permutations({f, g})
=============================================================================
