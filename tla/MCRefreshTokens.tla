-------------------------- MODULE MCRefreshTokens --------------------------
(***************************************************************************)
(* Instances of RefreshTokens for TLC.                                     *)
(***************************************************************************)
EXTENDS RefreshTokens, TLC

EveryOperation == Operation
NoSingleLogout == Operation \ {"logout"}

\* Token ids and request slots are interchangeable.
Symmetry == Permutations(Jti) \cup Permutations(Slot)
JtiSymmetry == Permutations(Jti)
=============================================================================
