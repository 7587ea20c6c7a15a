------------------------------ MODULE MCBridge ------------------------------
(* Bridge on small instances: the payloads of the shots. *)
EXTENDS Bridge, TLC

CONSTANTS b0, b1, c0, c1, k1, k2

FewBalls == 0 :> b0 @@ 1 :> b1
FewClubs == 0 :> c0 @@ 1 :> c1

\* The clubs are interchangeable: the program starts with any of them.
ClubSymmetry == Permutations({k1, k2})
=============================================================================
