------------------------------- MODULE Client -------------------------------
(***************************************************************************)
(* `Client<T: Transport>` of src/src/client.rs: the poll-based client over *)
(* one connection.  `poll` is split where other parties may act between    *)
(* its two transport calls: the heartbeat it sends when one is due, then   *)
(* the single notification it reads.  Every other call is one action.      *)
(*                                                                         *)
(* `Instant`s are modelled as ages in ticks (`Instant::now()` is age 0),   *)
(* saturating at the only threshold they are compared with.                *)
(***************************************************************************)
EXTENDS Link

CONSTANTS HeartbeatInterval, \* HEARTBEAT_SECS, in ticks
          MaxUnanswered,     \* bound: where `unanswered` saturates (u32::MAX)
          Clubs,             \* the clubs a caller arms
          Faults,            \* faults a connection that is up may still show
          MaxFaults,         \* bound: how many of them in a behaviour
          AfterError,        \* what a caller does after an `Err` that is not
                             \* `Disconnected`: goes on ("open"), gives up ("closed")
          Prompt             \* TRUE: the caller polls at least once a tick

UNANSWERED_HEARTBEATS == 2
LINK_TIMEOUT == 3 * HeartbeatInterval

ASSUME ClientAssumption ==
    /\ HeartbeatInterval \in Nat \ {0}
    /\ MaxUnanswered \in Nat
    /\ UNANSWERED_HEARTBEATS <= MaxUnanswered
    /\ None \notin Clubs
    /\ Faults \subseteq {"refused", "timed_out", "read", "identity"}
    /\ MaxFaults \in Nat
    /\ AfterError \subseteq {"open", "closed"}
    /\ AfterError # {}
    /\ Prompt \in BOOLEAN

VARIABLES phase,          \* "Connecting" or "Active"
          last_rx,        \* bytes of the last frame that was not a duplicate
          last_heartbeat, \* age of the last heartbeat
          last_data,      \* age of the last frame read
          unanswered,     \* heartbeats sent since
          state,          \* last DeviceState seen, or None
          pending_shot,   \* ball bytes awaiting their club packet, or None
          awaiting_club,
          active_club,
          pc,             \* "idle", or "read": inside `poll`, before its read
          status,         \* "open"; "tripped": the watchdog; "closed": any other end
          polled,         \* a `poll` has returned in this tick
          faults          \* faults spent

(* History: what the client did, for the properties to speak of. *)
VARIABLES seen,     \* shot of the last ball notification read
          surfaced, \* the Event::Shots returned by `poll`
          requests, \* the shots for which RequestClubMetrics was written
          noted     \* pass-through events returned

watchdogVars == <<last_heartbeat, last_data, unanswered>>
shotVars     == <<pending_shot, awaiting_club, seen, surfaced, requests>>
callVars     == <<pc, status, polled, faults>>
clientVars   == <<phase, last_rx, watchdogVars, state, shotVars, active_club,
                  callVars, noted>>

ShotEvent == [shot : Shots, ball : BallData, club : ClubData, offset : Clubs \cup {None}]

ClientTypeOK ==
    /\ phase \in {"Connecting", "Active"}
    /\ last_rx \in {NoBytes} \cup Payload
    /\ last_heartbeat \in 0..HeartbeatInterval
    /\ last_data \in 0..LINK_TIMEOUT
    /\ unanswered \in 0..MaxUnanswered
    /\ state \in DevStates \cup {None}
    /\ pending_shot \in BallData \cup {None}
    /\ awaiting_club \in BOOLEAN
    /\ active_club \in Clubs \cup {None}
    /\ pc \in {"idle", "read"}
    /\ status \in {"open", "closed", "tripped"}
    /\ polled \in BOOLEAN
    /\ faults \in 0..MaxFaults
    /\ seen \in Shots
    /\ surfaced \in Seq(ShotEvent)
    /\ requests \in Seq(Shots)
    /\ noted \in Nat

-----------------------------------------------------------------------------
(* Client::new, and `New` for a Client that replaces another. *)
ClientInit == /\ phase = "Connecting"
              /\ last_rx = NoBytes
              /\ last_heartbeat = 0
              /\ last_data = 0
              /\ unanswered = 0
              /\ state = None
              /\ pending_shot = None
              /\ awaiting_club = FALSE
              /\ active_club = None
              /\ pc = "idle"
              /\ status = "open"
              /\ polled = TRUE
              /\ faults = 0
              /\ seen = 0
              /\ surfaced = <<>>
              /\ requests = <<>>
              /\ noted = 0

\* Mutant of New: the shot in progress survives into the next connection.
NewKeepsShot ==
    /\ phase' = "Connecting"
    /\ last_rx' = NoBytes
    /\ last_heartbeat' = 0
    /\ last_data' = 0
    /\ unanswered' = 0
    /\ state' = None
    /\ active_club' = None
    /\ pc' = "idle"
    /\ status' = "open"
    /\ UNCHANGED <<pending_shot, awaiting_club>>

New ==
    /\ phase' = "Connecting"
    /\ last_rx' = NoBytes
    /\ last_heartbeat' = 0
    /\ last_data' = 0
    /\ unanswered' = 0
    /\ state' = None
    /\ pending_shot' = None
    /\ awaiting_club' = FALSE
    /\ active_club' = None
    /\ pc' = "idle"
    /\ status' = "open"

-----------------------------------------------------------------------------
(***************************************************************************)
(* Transport calls.  A write that times out has reached the device, yet    *)
(* the caller sees an error.  On a connection that is lost anything may be *)
(* reported, and nothing arrives.                                          *)
(***************************************************************************)
CanFail(fault) == link # "up" \/ (fault \in Faults /\ faults < MaxFaults)

WriteOutcomes == {"ok"} \cup {o \in {"refused", "timed_out"} : CanFail(o)}

Spend(failed) == faults' = IF failed /\ link = "up" THEN faults + 1 ELSE faults

\* The device's inbox q after a command of this type was written.
Sent(q, type, outcome) ==
    IF link = "up" /\ outcome # "refused"
    THEN Append(q, [type |-> type, age |-> 0])
    ELSE q

\* How a call returns: Ok, an Err the caller may survive, or Disconnected.
Returns(ok) ==
    /\ pc' = "idle"
    /\ polled' = TRUE
    /\ IF ok THEN status' = status ELSE status' \in AfterError
    /\ Spend(~ok)

Disconnected(why) ==
    /\ pc' = "idle"
    /\ polled' = TRUE
    /\ status' = why
    /\ UNCHANGED faults

CanCall == status = "open" /\ pc = "idle"

-----------------------------------------------------------------------------
(* poll in phase Connecting: read_identity. *)
IdentityFails ==
    /\ CanCall
    /\ phase = "Connecting"
    /\ CanFail("identity")
    /\ Returns(FALSE)
    /\ UNCHANGED <<linkVars, phase, last_rx, watchdogVars, state, shotVars,
                   active_club, noted>>

\* The identity was read, one of the two commands that follow was not written.
GreetingFails ==
    /\ CanCall
    /\ phase = "Connecting"
    /\ \E o \in WriteOutcomes \ {"ok"} :
         \/ /\ cmd' = Sent(cmd, "query", o)
            /\ UNCHANGED last_heartbeat
         \/ /\ cmd' = Sent(Sent(cmd, "query", "ok"), "heartbeat", o)
            /\ last_heartbeat' = 0
    /\ Returns(FALSE)
    /\ UNCHANGED <<evt, link, phase, last_rx, last_data, unanswered, state,
                   shotVars, active_club, noted>>

Connect ==
    /\ CanCall
    /\ phase = "Connecting"
    /\ cmd' = Sent(Sent(cmd, "query", "ok"), "heartbeat", "ok")
    /\ phase' = "Active"
    /\ last_heartbeat' = 0
    /\ last_data' = 0
    /\ unanswered' = 1
    /\ Returns(TRUE)
    /\ UNCHANGED <<evt, link, last_rx, state, shotVars, active_club, noted>>

-----------------------------------------------------------------------------
(* poll in phase Active, first half: the heartbeat, when due. *)
Due == last_heartbeat >= HeartbeatInterval

PollNotDue ==
    /\ CanCall
    /\ phase = "Active"
    /\ ~Due
    /\ pc' = "read"
    /\ UNCHANGED <<linkVars, phase, last_rx, watchdogVars, state, shotVars,
                   active_club, status, polled, faults, noted>>

\* Mutants of SendHeartbeat: the count overflows; the heartbeat is not counted.
SendHeartbeatUnsaturated ==
    /\ CanCall
    /\ phase = "Active"
    /\ Due
    /\ cmd' = Sent(cmd, "heartbeat", "ok")
    /\ last_heartbeat' = 0
    /\ unanswered' = unanswered + 1
    /\ pc' = "read"
    /\ UNCHANGED <<evt, link, phase, last_rx, last_data, state, shotVars,
                   active_club, status, polled, faults, noted>>

SendHeartbeatUncounted ==
    /\ CanCall
    /\ phase = "Active"
    /\ Due
    /\ cmd' = Sent(cmd, "heartbeat", "ok")
    /\ last_heartbeat' = 0
    /\ pc' = "read"
    /\ UNCHANGED <<evt, link, phase, last_rx, last_data, unanswered, state,
                   shotVars, active_club, status, polled, faults, noted>>

SendHeartbeat ==
    /\ CanCall
    /\ phase = "Active"
    /\ Due
    /\ cmd' = Sent(cmd, "heartbeat", "ok")
    /\ last_heartbeat' = 0
    /\ unanswered' = IF unanswered < MaxUnanswered THEN unanswered + 1 ELSE unanswered
    /\ pc' = "read"
    /\ UNCHANGED <<evt, link, phase, last_rx, last_data, state, shotVars,
                   active_club, status, polled, faults, noted>>

HeartbeatFails ==
    /\ CanCall
    /\ phase = "Active"
    /\ Due
    /\ \E o \in WriteOutcomes \ {"ok"} : cmd' = Sent(cmd, "heartbeat", o)
    /\ Returns(FALSE)
    /\ UNCHANGED <<evt, link, phase, last_rx, watchdogVars, state, shotVars,
                   active_club, noted>>

-----------------------------------------------------------------------------
(* poll in phase Active, second half: at most one notification. *)
Reading == status = "open" /\ pc = "read"

ReadClosed ==
    /\ Reading
    /\ evt = <<>>
    /\ link = "closed"
    /\ Disconnected("closed")
    /\ UNCHANGED <<linkVars, phase, last_rx, watchdogVars, state, shotVars,
                   active_club, noted>>

ReadTeardown ==
    /\ Reading
    /\ evt # <<>>
    /\ Head(evt).kind = "empty"
    /\ evt' = Tail(evt)
    /\ Disconnected("closed")
    /\ UNCHANGED <<cmd, link, phase, last_rx, watchdogVars, state, shotVars,
                   active_club, noted>>

ReadFails ==
    /\ Reading
    /\ CanFail("read")
    /\ Returns(FALSE)
    /\ UNCHANGED <<linkVars, phase, last_rx, watchdogVars, state, shotVars,
                   active_club, noted>>

\* Mutants of PresumedDead: heartbeats alone; one heartbeat late.
HeartbeatsAlone == unanswered >= UNANSWERED_HEARTBEATS
OneHeartbeatLate ==
    /\ unanswered > UNANSWERED_HEARTBEATS
    /\ last_data >= LINK_TIMEOUT

\* The read would block: the watchdog decides.
PresumedDead ==
    /\ unanswered >= UNANSWERED_HEARTBEATS
    /\ last_data >= LINK_TIMEOUT

ReadNothing ==
    /\ Reading
    /\ evt = <<>>
    /\ link # "closed"
    /\ IF PresumedDead THEN Disconnected("tripped") ELSE Returns(TRUE)
    /\ UNCHANGED <<linkVars, phase, last_rx, watchdogVars, state, shotVars,
                   active_club, noted>>

\* Mutant of TakeFrame: a frame does not settle the heartbeats before it.
TakeFrameKeepsCount ==
    /\ Reading
    /\ evt # <<>>
    /\ Head(evt).kind # "empty"
    /\ evt' = Tail(evt)
    /\ last_data' = 0
    /\ seen' = IF Head(evt).kind = "ball" THEN Head(evt).arg ELSE seen
    /\ UNCHANGED <<link, phase, last_heartbeat, unanswered, active_club>>

\* What every frame does, duplicates included.
TakeFrame ==
    /\ Reading
    /\ evt # <<>>
    /\ Head(evt).kind # "empty"
    /\ evt' = Tail(evt)
    /\ last_data' = 0
    /\ unanswered' = 0
    /\ seen' = IF Head(evt).kind = "ball" THEN Head(evt).arg ELSE seen
    /\ UNCHANGED <<link, phase, last_heartbeat, active_club>>

\* Mutants of IsDuplicate: no dedup; dedup by the kind of notification.
NeverDuplicate(f) == FALSE
SameKind(f) == last_rx # NoBytes /\ f.kind = last_rx[1]

IsDuplicate(f) == Bytes(f) = last_rx

ReadDuplicate ==
    /\ TakeFrame
    /\ IsDuplicate(Head(evt))
    /\ Returns(TRUE)
    /\ UNCHANGED <<cmd, last_rx, state, pending_shot, awaiting_club, surfaced,
                   requests, noted>>

Accept(kind) ==
    /\ TakeFrame
    /\ Head(evt).kind = kind
    /\ ~IsDuplicate(Head(evt))
    /\ last_rx' = Bytes(Head(evt))

\* Mutants of ReadBall: an older pending ball stays; the metrics are not asked for.
ReadBallKeepsOlder ==
    /\ Accept("ball")
    /\ pending_shot' = IF pending_shot = None THEN BallBytes[Head(evt).arg]
                                              ELSE pending_shot
    /\ awaiting_club' = TRUE
    /\ \E o \in WriteOutcomes :
         /\ cmd' = Sent(cmd, "request", o)
         /\ requests' = IF o = "refused" THEN requests
                        ELSE Append(requests, Head(evt).arg)
         /\ Returns(o = "ok")
    /\ UNCHANGED <<state, surfaced, noted>>

ReadBallUnasked ==
    /\ Accept("ball")
    /\ pending_shot' = BallBytes[Head(evt).arg]
    /\ awaiting_club' = TRUE
    /\ Returns(TRUE)
    /\ UNCHANGED <<cmd, state, surfaced, requests, noted>>

\* handle(Notification::Ball): hold the ball, ask for the club metrics.
ReadBall ==
    /\ Accept("ball")
    /\ pending_shot' = BallBytes[Head(evt).arg]
    /\ awaiting_club' = TRUE
    /\ \E o \in WriteOutcomes :
         /\ cmd' = Sent(cmd, "request", o)
         /\ requests' = IF o = "refused" THEN requests
                        ELSE Append(requests, Head(evt).arg)
         /\ Returns(o = "ok")
    /\ UNCHANGED <<state, surfaced, noted>>

\* Mutant of ReadClub: the shot is returned and stays pending.
ReadClubKeepsPending ==
    /\ Accept("club")
    /\ surfaced' = IF ~awaiting_club \/ pending_shot = None THEN surfaced
                   ELSE Append(surfaced,
                          [shot |-> Head(evt).arg, ball |-> pending_shot,
                           club |-> ClubBytes[Head(evt).arg], offset |-> active_club])
    /\ Returns(TRUE)
    /\ UNCHANGED <<cmd, state, pending_shot, awaiting_club, requests, noted>>

\* handle(Notification::Club): complete the pending shot, if there is one.
ReadClub ==
    /\ Accept("club")
    /\ awaiting_club' = FALSE
    /\ IF awaiting_club
       THEN /\ pending_shot' = None
            /\ surfaced' = IF pending_shot = None THEN surfaced
                           ELSE Append(surfaced,
                                  [shot |-> Head(evt).arg, ball |-> pending_shot,
                                   club |-> ClubBytes[Head(evt).arg],
                                   offset |-> active_club])
       ELSE UNCHANGED <<pending_shot, surfaced>>
    /\ Returns(TRUE)
    /\ UNCHANGED <<cmd, state, requests, noted>>

\* handle(Notification::HeartbeatAck): StateChanged is returned iff state changes.
ReadAck ==
    /\ Accept("ack")
    /\ state' = Head(evt).arg
    /\ Returns(TRUE)
    /\ UNCHANGED <<cmd, pending_shot, awaiting_club, surfaced, requests, noted>>

\* handle(Sensor, Battery, Clock, Alignment): passed on as they are.
ReadNote ==
    /\ Accept("note")
    /\ noted' = noted + 1
    /\ Returns(TRUE)
    /\ UNCHANGED <<cmd, state, pending_shot, awaiting_club, surfaced, requests>>

\* A query response, or a frame that `parse` rejects: remembered, not reported.
ReadQuiet ==
    /\ Accept("quiet")
    /\ Returns(TRUE)
    /\ UNCHANGED <<cmd, state, pending_shot, awaiting_club, surfaced, requests, noted>>

Poll ==
    \/ IdentityFails \/ GreetingFails \/ Connect
    \/ PollNotDue \/ SendHeartbeat \/ HeartbeatFails
    \/ ReadClosed \/ ReadTeardown \/ ReadFails \/ ReadNothing
    \/ ReadDuplicate \/ ReadBall \/ ReadClub \/ ReadAck \/ ReadNote \/ ReadQuiet

-----------------------------------------------------------------------------
(***************************************************************************)
(* Calls that write commands the device does not answer.  They may be made *)
(* in either phase; they do not touch the watchdog.                        *)
(***************************************************************************)
CallReturns(ok) ==
    /\ IF ok THEN status' = status ELSE status' \in AfterError \cup {"open"}
    /\ Spend(~ok)
    /\ UNCHANGED <<linkVars, phase, last_rx, watchdogVars, state, shotVars,
                   pc, polled, noted>>

SelectClub(c, o) ==
    /\ CanCall
    /\ active_club' = IF o = "ok" THEN c ELSE active_club
    /\ CallReturns(o = "ok")

\* SelectClub, then DetectBall: the second write may fail after the first.
Arm(c, first, second) ==
    /\ CanCall
    /\ active_club' = IF first = "ok" THEN c ELSE active_club
    /\ CallReturns(first = "ok" /\ second = "ok")

\* disarm, set_units, set_green_speed, set_carry_adjustment.
Configure(o) ==
    /\ CanCall
    /\ CallReturns(o = "ok")
    /\ UNCHANGED active_club

Call == \E o \in WriteOutcomes :
            \/ Configure(o)
            \/ \E c \in Clubs : SelectClub(c, o) \/ \E first \in WriteOutcomes : Arm(c, first, o)

ClientNext == Poll \/ Call
=============================================================================
