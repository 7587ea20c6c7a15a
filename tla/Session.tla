------------------------------ MODULE Session ------------------------------
(***************************************************************************)
(* The client and the device over a connection, with time: Client and Omni *)
(* composed over the variables of Link, a clock, and callers that connect  *)
(* again with a fresh Client when one connection has ended.                *)
(***************************************************************************)
EXTENDS Client, Omni

CONSTANT MaxSessions  \* bound: connections in a behaviour

VARIABLES sessions,   \* connections so far
          base,       \* shots taken before the current one
          hits        \* history: hits[n] is the client's active club at shot n

sessionVars == <<sessions, base, hits>>
vars == <<linkVars, clientVars, omniVars, sessionVars>>

(***************************************************************************)
(* Timing assumption: either the device answers within a heartbeat         *)
(* interval, whatever the caller does, or the caller polls in every tick   *)
(* and the device answers before the rest of LINK_TIMEOUT is over, less    *)
(* the one tick by which such a caller may send a heartbeat late.          *)
(***************************************************************************)
ASSUME TimingAssumption ==
    /\ MaxSessions \in Nat
    /\ \/ Latency < HeartbeatInterval
       \/ Prompt /\ Latency + HeartbeatInterval + 1 < LINK_TIMEOUT

Init == /\ LinkInit
        /\ ClientInit
        /\ OmniInit
        /\ sessions = 1
        /\ base = 0
        /\ hits = <<>>

Older(age, limit) == IF age < limit THEN age + 1 ELSE age

(* One tick passes.  No tick overtakes an answer that is due. *)
Tick ==
    /\ link = "up" => \A i \in DOMAIN cmd : cmd[i].age < Latency
    /\ Prompt /\ status = "open" => polled
    /\ cmd' = [i \in DOMAIN cmd |-> [cmd[i] EXCEPT !.age = Older(@, Latency)]]
    /\ last_heartbeat' = Older(last_heartbeat, HeartbeatInterval)
    /\ last_data' = Older(last_data, LINK_TIMEOUT)
    /\ polled' = ~Prompt
    /\ UNCHANGED <<evt, link, phase, last_rx, unanswered, state, shotVars,
                   active_club, pc, status, faults, noted, omniVars, sessionVars>>

(* A new connection and a new Client over it; what the old one held is gone. *)
Reopen ==
    /\ status # "open"
    /\ sessions < MaxSessions
    /\ sessions' = sessions + 1
    /\ base' = taken
    /\ seen' = taken
    /\ evt' = <<>>
    /\ cmd' = <<>>
    /\ link' = "up"
    /\ New
    /\ polled' = TRUE
    /\ UNCHANGED <<faults, surfaced, requests, noted, omniVars, hits>>

ClientStep == ClientNext /\ UNCHANGED <<omniVars, sessionVars>>

DeviceStep ==
    /\ OmniNext
    /\ hits' = IF taken' # taken THEN Append(hits, active_club) ELSE hits
    /\ UNCHANGED <<clientVars, sessions, base>>

Next == ClientStep \/ DeviceStep \/ Tick \/ Reopen

Spec == Init /\ [][Next]_vars

-----------------------------------------------------------------------------
(* Safety. *)

\* Every variable of the client, the device and the connection has its type.
TypeOK == /\ LinkTypeOK
          /\ ClientTypeOK
          /\ OmniTypeOK
          /\ sessions \in Nat
          /\ base \in 0..taken
          /\ hits \in Seq(Clubs \cup {None})

\* Every Event::Shot carries the ball and the club metrics of the same shot,
\* never a stale club packet (client.rs handle, docs/WIRE.md section 10).
ShotPairing ==
    \A i \in DOMAIN surfaced :
        /\ surfaced[i].ball = BallBytes[surfaced[i].shot]
        /\ surfaced[i].club = ClubBytes[surfaced[i].shot]

\* No shot is returned twice, across reconnections too, and none after a later
\* one (client.rs poll's dedup and handle's `pending_shot.take()`).
ShotsInOrder ==
    \A i, j \in DOMAIN surfaced : i < j => surfaced[i].shot < surfaced[j].shot

\* The doubled notifications act once: a shot is asked about at most once, and
\* no pass-through event outnumbers the notifications (client.rs poll, dedup).
OncePerNotification ==
    /\ \A i, j \in DOMAIN requests : i < j => requests[i] < requests[j]
    /\ noted <= notes

\* The watchdog never fires on a connection that is up, however long the caller
\* paused (client.rs LINK_TIMEOUT and UNANSWERED_HEARTBEATS).
NoFalseDisconnect == status = "tripped" => link # "up"

\* A caller that polls in every tick never sees a poll come back empty-handed
\* once nothing has arrived for LINK_TIMEOUT: it is told (client.rs poll, docs).
SilenceBounded ==
    Prompt /\ status = "open" /\ phase = "Active" /\ pc = "idle" /\ polled
        => last_data < LINK_TIMEOUT

\* The vertical impact of a Shot is offset for the club the shot was hit with
\* (protocol.rs, doc of ClubMetrics::impact_vertical).
OffsetOfClubHit ==
    \A i \in DOMAIN surfaced : hits[surfaced[i].shot] \in Clubs =>
        surfaced[i].offset = hits[surfaced[i].shot]

(* Refinement: the shots surfaced are a ShotStream. *)
Stream == INSTANCE ShotStream WITH
    delivered <- [i \in DOMAIN surfaced |-> [shot |-> surfaced[i].shot,
                                            ball |-> surfaced[i].ball,
                                            club |-> surfaced[i].club]]

\* The session implements the abstract stream of shots.
ImplementsShotStream == Stream!Spec

-----------------------------------------------------------------------------
(***************************************************************************)
(* Why ShotPairing holds although the client never compares shot and club  *)
(* packet: what is on the way, in the order in which it will be read.      *)
(***************************************************************************)
IsBall(i) == evt[i].kind = "ball"
IsClub(i) == evt[i].kind = "club"

\* Balls on the way are of different shots, in order, but for the double.
BallsOrdered ==
    \A i, j \in DOMAIN evt : i < j /\ IsBall(i) /\ IsBall(j) =>
        \/ evt[i].arg < evt[j].arg
        \/ evt[i].arg = evt[j].arg /\ j = i + 1

\* A club packet follows the balls of every earlier shot, and precedes none
\* of its own shot: that one was read, or is on the way ahead of it.
ClubsOrdered ==
    \A j \in DOMAIN evt : IsClub(j) =>
        /\ seen <= evt[j].arg
        /\ \A i \in DOMAIN evt : i < j /\ IsBall(i) => evt[i].arg <= evt[j].arg
        /\ seen < evt[j].arg =>
              \E i \in DOMAIN evt : i < j /\ IsBall(i) /\ evt[i].arg = evt[j].arg

\* A ball that was read can only be on the way again as the double of the last
\* frame read, which the dedup will drop.
Replayed ==
    \A i \in DOMAIN evt : IsBall(i) /\ evt[i].arg <= seen =>
        i = 1 /\ evt[i].arg = seen /\ last_rx = Bytes(evt[i])

\* What is on the way was taken; on a connection that is up, the last shot
\* taken was read or is on the way.
Announced ==
    /\ seen <= taken
    /\ \A i \in DOMAIN evt : IsBall(i) => evt[i].arg \in 1..taken
    /\ \A i \in DOMAIN evt : IsClub(i) => evt[i].arg <= taken
    /\ link = "up" /\ seen < taken =>
          \E i \in DOMAIN evt : IsBall(i) /\ evt[i].arg = taken

\* The pending shot is the last one read, and has not been returned yet.
PendingIsSeen ==
    /\ pending_shot # None => /\ seen > 0
                              /\ pending_shot = BallBytes[seen]
                              /\ \A i \in DOMAIN surfaced : surfaced[i].shot < seen
    /\ \A n \in Shots : last_rx = <<"ball", BallBytes[n]>> => pending_shot = BallBytes[n]
    /\ \A i \in DOMAIN surfaced : surfaced[i].shot \in 1..seen

\* The inductive invariant behind ShotPairing, ShotsInOrder and the refinement.
ShotInv == /\ BallsOrdered
           /\ ClubsOrdered
           /\ Replayed
           /\ Announced
           /\ PendingIsSeen
           /\ ShotPairing
           /\ ShotsInOrder

(***************************************************************************)
(* Why NoFalseDisconnect holds when the device answers within a heartbeat  *)
(* interval: every heartbeat that counts as unanswered is still with the   *)
(* device, and young, or its answer is on the way.  The inductive          *)
(* invariant behind it.                                                    *)
(***************************************************************************)
WatchdogInv ==
    /\ link = "up" => \A i \in DOMAIN cmd : cmd[i].age <= Latency
    /\ link = "up" /\ phase = "Active" /\ status = "open" /\ evt = <<>> =>
          /\ unanswered < UNANSWERED_HEARTBEATS
          /\ unanswered > 0 =>
                \E i \in DOMAIN cmd :
                    cmd[i].type = "heartbeat" /\ cmd[i].age >= last_heartbeat
    /\ phase = "Connecting" => pc = "idle"
    /\ NoFalseDisconnect

-----------------------------------------------------------------------------
(***************************************************************************)
(* Fairness: time passes; the caller's loop keeps calling `poll`; and the  *)
(* device answers what it was asked, though it may be busy sending other   *)
(* notifications in between (hence strong fairness).                       *)
(***************************************************************************)
Fairness == /\ WF_vars(Tick)
            /\ WF_vars(Poll /\ UNCHANGED <<omniVars, sessionVars>>)
            /\ SF_vars(Answer /\ UNCHANGED <<clientVars, sessionVars>>)

FairSpec == Spec /\ Fairness

\* A lost connection is reported to a polling caller, even if the transport
\* never says so (client.rs poll).
DeadLinkSurfaces == link # "up" ~> status # "open"

\* A shot whose ball notification was read is returned, or overtaken by a later
\* one that is, unless the connection ends first (client.rs handle).
PendingResolves ==
    \A n \in 1..MaxShots :
        (seen = n /\ pending_shot # None) ~>
            \/ \E i \in DOMAIN surfaced : surfaced[i].shot >= n
            \/ link # "up"
            \/ status # "open"

\* If the device stays in one state, the client comes to report that state:
\* neither dedup may hide the change (client.rs poll, handle HeartbeatAck).
StateConverges ==
    \A s \in DevStates :
        <>[](link = "up" /\ status = "open" /\ devState = s) => <>[](state = s)
=============================================================================
