----------------------------- MODULE MCSession ------------------------------
(* Session on small instances: the payloads of the shots. *)
EXTENDS Session, TLC

CONSTANTS b0, b1, b2, c0, c1

\* Shot 0 is the one the device retains from before.  Every shot's ball
\* notification differs.
Balls == 0 :> b0 @@ 1 :> b1 @@ 2 :> b2

\* Shots 1 and 2 are byte-identical in their ball notification, as two equal
\* putts are.
TwoTwinBalls == 0 :> b0 @@ 1 :> b1 @@ 2 :> b1

\* Shots 0 and 1 have the same club notification (an untracked shot's sentinels).
TwoClubs == 0 :> c0 @@ 1 :> c0 @@ 2 :> c1

FewBalls == 0 :> b0 @@ 1 :> b1
FewClubs == 0 :> c0 @@ 1 :> c1
=============================================================================
