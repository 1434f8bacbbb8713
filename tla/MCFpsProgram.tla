---------------------------- MODULE MCFpsProgram ----------------------------
(* Instances of FpsProgram for TLC: the values are in the .cfg files.       *)
EXTENDS FpsProgram
=============================================================================
