-------------------------------- MODULE Omni --------------------------------
(***************************************************************************)
(* The launch monitor, as the client's code and tests rely on it           *)
(* (docs/SEQUENCE.md sections 4-7, docs/WIRE.md sections 5 and 10).  It is *)
(* not part of the repository: these actions are the environment of        *)
(* Client.                                                                 *)
(*                                                                         *)
(* Every notification is sent twice, byte-identical and back to back.  A   *)
(* command is answered in the order in which it was written; a request for *)
(* club metrics is answered with those of the last shot taken, which the   *)
(* device keeps across connections and may also send unasked.              *)
(***************************************************************************)
EXTENDS Link

CONSTANTS MaxNotes,   \* bound: pass-through notifications sent in a behaviour
          MaxBacklog, \* bound: notifications sent and not read
          Latency     \* a command is answered before it is more than Latency ticks old

ASSUME OmniAssumption == MaxNotes \in Nat /\ MaxBacklog \in Nat /\ Latency \in Nat

VARIABLES taken,    \* shots taken so far, the device keeping the last
          notes,    \* pass-through notifications sent
          devState  \* its state machine, as its acks report it

omniVars == <<taken, notes, devState>>

OmniTypeOK == /\ taken \in Shots
              /\ notes \in 0..MaxNotes
              /\ devState \in DevStates

OmniInit == taken = 0 /\ notes = 0 /\ devState \in DevStates

Frm(kind, arg) == [kind |-> kind, arg |-> arg]

Twice(f) == evt \o <<f, f>>

CanEmit == link = "up" /\ Len(evt) + 2 <= MaxBacklog

Hit ==
    /\ taken < MaxShots
    /\ taken' = taken + 1
    /\ IF link = "up"
       THEN CanEmit /\ evt' = Twice(Frm("ball", taken + 1))
       ELSE UNCHANGED evt
    /\ UNCHANGED <<cmd, link, notes, devState>>

AnswerTo(type) == CASE type = "query" -> Frm("quiet", 0)
                    [] type = "heartbeat" -> Frm("ack", devState)
                    [] type = "request" -> Frm("club", taken)

Answer ==
    /\ CanEmit
    /\ cmd # <<>>
    /\ evt' = Twice(AnswerTo(Head(cmd).type))
    /\ cmd' = Tail(cmd)
    /\ UNCHANGED <<link, omniVars>>

ServeRetained ==
    /\ CanEmit
    /\ evt' = Twice(Frm("club", taken))
    /\ UNCHANGED <<cmd, link, omniVars>>

\* Pass-through notifications differ from one to the next (a clock, a battery).
Notify ==
    /\ CanEmit
    /\ notes < MaxNotes
    /\ notes' = notes + 1
    /\ evt' = Twice(Frm("note", notes'))
    /\ UNCHANGED <<cmd, link, taken, devState>>

\* Its state changes; it may say so unasked (docs/SEQUENCE.md section 6).
ChangeState ==
    /\ devState' \in DevStates \ {devState}
    /\ \/ UNCHANGED evt
       \/ CanEmit /\ evt' = Twice(Frm("ack", devState'))
    /\ UNCHANGED <<cmd, link, taken, notes>>

\* The device takes the connection down and says so.
Teardown ==
    /\ link = "up"
    /\ evt' = Append(evt, Frm("empty", 0))
    /\ cmd' = <<>>
    /\ link' = "closed"
    /\ UNCHANGED omniVars

\* The connection is lost; of what was under way only a prefix arrives.
LinkLost ==
    /\ link = "up"
    /\ link' \in {"silent", "closed"}
    /\ \E k \in 0..Len(evt) : evt' = SubSeq(evt, 1, k)
    /\ cmd' = <<>>
    /\ UNCHANGED omniVars

DeviceNext == Hit \/ Answer \/ ServeRetained \/ Notify \/ ChangeState
OmniNext == DeviceNext \/ Teardown \/ LinkLost
=============================================================================
