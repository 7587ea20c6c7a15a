-------------------------------- MODULE Link --------------------------------
(***************************************************************************)
(* What lies between the client and the launch monitor: notifications that *)
(* the device has sent and `Client::poll` has not read (`evt`), commands   *)
(* written and not yet answered (`cmd`), and the state of the connection.  *)
(* The client's side is the `Transport` trait (src/src/client.rs:22-53):   *)
(* notifications arrive in order, one per `read`; a closed transport still *)
(* hands out what it had queued.  The payloads are abstract: a frame is a  *)
(* kind and a number, and BallBytes/ClubBytes give the bytes of a shot, so *)
(* that two shots may well be byte-identical: neither family carries the   *)
(* message counter (docs/WIRE.md 6.2, 6.6).  An ack does carry it, which   *)
(* is left out: an ack that repeats the state changes nothing either way.  *)
(***************************************************************************)
EXTENDS Integers, Sequences, Options

CONSTANTS MaxShots,    \* bound: shots taken in a behaviour (shot 0 is one taken before)
          BallBytes,   \* BallBytes[n]: the payload of the ball notification of shot n
          ClubBytes,   \* ClubBytes[n]: the payload of the club notification of shot n
          DevStates    \* DeviceState bytes the device reports in heartbeat acks

Shots == 0..MaxShots

ASSUME ShotsAssumption ==
    /\ MaxShots \in Nat
    /\ DOMAIN BallBytes = Shots
    /\ DOMAIN ClubBytes = Shots
    /\ \A n \in Shots : BallBytes[n] # None
    /\ DevStates \subseteq Nat
    /\ DevStates # {}
    /\ None \notin DevStates

VARIABLES evt,   \* sequence of frames: sent by the device, not yet read
          cmd,   \* sequence of [type, age]: received by the device, not yet answered
          link   \* "up"; "silent": lost, nobody told; "closed": lost, reads say so

linkVars == <<evt, cmd, link>>

(***************************************************************************)
(* Notifications.  "ball" and "club" carry a shot number, "ack" a state    *)
(* byte; "note" is any family the client passes on unchanged (sensor,      *)
(* battery, clock, alignment), "quiet" one it swallows (query response, or *)
(* a frame the parser rejects) and "empty" the zero-length teardown.       *)
(***************************************************************************)
Kinds == {"ball", "club", "ack", "note", "quiet", "empty"}

Frame == [kind : Kinds, arg : Nat]

WellFormed(f) ==
    /\ f.kind \in {"ball", "club"} => f.arg \in Shots
    /\ f.kind = "ack" => f.arg \in DevStates

Bytes(f) == <<f.kind, IF f.kind = "ball" THEN BallBytes[f.arg]
                      ELSE IF f.kind = "club" THEN ClubBytes[f.arg]
                      ELSE f.arg>>

BallData == {BallBytes[n] : n \in Shots}
ClubData == {ClubBytes[n] : n \in Shots}

Payload == ({"ball"} \X BallData) \cup ({"club"} \X ClubData)
    \cup ({"ack"} \X DevStates) \cup ({"note", "quiet", "empty"} \X Nat)

NoBytes == <<>>                      \* `Vec::new()`: the client's first `last_rx`

\* Commands that the device answers (docs/WIRE.md section 5).
Answerable == {"query", "heartbeat", "request"}

Command == [type : Answerable, age : Nat]

LinkTypeOK ==
    /\ evt \in Seq(Frame)
    /\ \A i \in DOMAIN evt : WellFormed(evt[i])
    /\ cmd \in Seq(Command)
    /\ link \in {"up", "silent", "closed"}

LinkInit == evt = <<>> /\ cmd = <<>> /\ link = "up"
=============================================================================
