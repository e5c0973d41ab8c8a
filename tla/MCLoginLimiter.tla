-------------------------- MODULE MCLoginLimiter --------------------------
(***************************************************************************)
(* Instances of LoginLimiter for TLC.                                      *)
(***************************************************************************)
EXTENDS LoginLimiter, TLC

Symmetry == Permutations(Slot)
=============================================================================
