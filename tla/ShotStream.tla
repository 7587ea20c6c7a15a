----------------------------- MODULE ShotStream -----------------------------
(***************************************************************************)
(* What the client promises about shots, with no connection in sight: the  *)
(* player takes shots one after another, and the caller is handed some of  *)
(* them, in the order taken, each once, with the ball and club metrics of  *)
(* one and the same shot.  Shots may be skipped: one taken while nobody    *)
(* was connected, or overtaken by the next before its club data came.      *)
(***************************************************************************)
EXTENDS Integers, Sequences

CONSTANTS MaxShots, BallBytes, ClubBytes

VARIABLES taken,     \* shots taken
          delivered  \* shots handed out, as [shot, ball, club]

Init == taken = 0 /\ delivered = <<>>

Take == /\ taken < MaxShots
        /\ taken' = taken + 1
        /\ UNCHANGED delivered

Deliver(n) ==
    /\ \A i \in DOMAIN delivered : delivered[i].shot < n
    /\ delivered' = Append(delivered,
                           [shot |-> n, ball |-> BallBytes[n], club |-> ClubBytes[n]])
    /\ UNCHANGED taken

Next == Take \/ \E n \in 1..taken : Deliver(n)

Spec == Init /\ [][Next]_<<taken, delivered>>
=============================================================================
