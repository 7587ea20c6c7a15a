---------------------------- MODULE BridgeProofs ----------------------------
(***************************************************************************)
(* The program allsquare-frp, for every value of its constants: it uses    *)
(* the client and the adapter as their own specifications say they may be  *)
(* used, so that what is proved of them holds in it; and what only shows   *)
(* where the two meet.                                                     *)
(***************************************************************************)
EXTENDS Bridge, ShotProofs, FrpProofs

-----------------------------------------------------------------------------
(* The shapes of a step of `poll`. *)

\* Nothing that the program looks at has changed but, perhaps, for the phase.
Unsurfaced == UNCHANGED <<surfaced, state, noted>>

PollEffect ==
    /\ UNCHANGED <<active_club, link>>
    /\ faults' \in Nat /\ faults' >= faults
    /\ \/ /\ Unsurfaced
          /\ phase' = phase \/ (pc' = "idle" /\ status' = "open")
       \/ /\ UNCHANGED <<phase, state, noted>>
          /\ pc' = "idle" /\ status' = "open"
          /\ \E e : surfaced' = Append(surfaced, e)
       \/ /\ UNCHANGED <<phase, surfaced, noted>>
          /\ pc' = "idle" /\ status' = "open"
       \/ /\ UNCHANGED <<phase, surfaced, state>>
          /\ pc' = "idle" /\ status' = "open"

LEMMA PollEffects ==
    ASSUME faults \in Nat, Poll
    PROVE  PollEffect
  <1>1. CASE IdentityFails
    BY <1>1 DEF IdentityFails, PollEffect, Unsurfaced, Returns, Spend, linkVars, shotVars
  <1>2. CASE GreetingFails
    BY <1>2 DEF GreetingFails, PollEffect, Unsurfaced, Returns, Spend, linkVars, shotVars
  <1>3. CASE Connect
    BY <1>3 DEF Connect, CanCall, PollEffect, Unsurfaced, Returns, Spend, linkVars, shotVars
  <1>4. CASE PollNotDue \/ SendHeartbeat
    BY <1>4 DEF PollNotDue, SendHeartbeat, PollEffect, Unsurfaced, linkVars, shotVars
  <1>5. CASE HeartbeatFails
    BY <1>5 DEF HeartbeatFails, PollEffect, Unsurfaced, Returns, Spend, linkVars, shotVars
  <1>6. CASE ReadClosed \/ ReadTeardown
    BY <1>6 DEF ReadClosed, ReadTeardown, Disconnected, PollEffect, Unsurfaced, linkVars, shotVars
  <1>7. CASE ReadFails
    BY <1>7 DEF ReadFails, Returns, Spend, PollEffect, Unsurfaced, linkVars, shotVars
  <1>8. CASE ReadNothing
    BY <1>8 DEF ReadNothing, Returns, Spend, Disconnected, PollEffect, Unsurfaced, linkVars,
                shotVars
  <1>9. CASE ReadDuplicate
    BY <1>9 DEF ReadDuplicate, TakeFrame, Reading, Returns, Spend, PollEffect, Unsurfaced
  <1>10. CASE ReadBall
    BY <1>10 DEF ReadBall, Accept, TakeFrame, Reading, Returns, Spend, PollEffect, Unsurfaced
  <1>11. CASE ReadClub
    <2>1. /\ UNCHANGED <<phase, state, noted, active_club, link>>
          /\ pc' = "idle" /\ status' = "open" /\ faults' = faults
      BY <1>11 DEF ReadClub, Accept, TakeFrame, Reading, Returns, Spend
    <2>2. UNCHANGED surfaced \/ \E e : surfaced' = Append(surfaced, e)
      BY <1>11 DEF ReadClub
    <2> QED
      BY <2>1, <2>2 DEF PollEffect, Unsurfaced
  <1>12. CASE ReadAck
    BY <1>12 DEF ReadAck, Accept, TakeFrame, Reading, Returns, Spend, PollEffect
  <1>13. CASE ReadNote
    BY <1>13 DEF ReadNote, Accept, TakeFrame, Reading, Returns, Spend, PollEffect
  <1>14. CASE ReadQuiet
    BY <1>14 DEF ReadQuiet, Accept, TakeFrame, Reading, Returns, Spend, PollEffect, Unsurfaced
  <1> QED
    BY <1>1, <1>2, <1>3, <1>4, <1>5, <1>6, <1>7, <1>8, <1>9, <1>10, <1>11, <1>12, <1>13, <1>14
       DEF Poll

-----------------------------------------------------------------------------
(* Refinement: the program's steps are steps of the client's specification. *)

ClubKnown == club \in Clubs

LEMMA ClubStep == ClubKnown /\ [BridgeNext]_allVars => ClubKnown'
  <1> USE DEF ClubKnown
  <1> SUFFICES ASSUME club \in Clubs, [BridgeNext]_allVars
               PROVE  club' \in Clubs
    OBVIOUS
  <1>1. CASE Listen
    BY <1>1 DEF Listen
  <1>2. CASE MainLoop /\ ~Listen
    BY <1>2 DEF MainLoop, PollClient, Greet, Forward, Adopt, ListenQuiet
  <1>3. CASE Surroundings \/ UNCHANGED allVars
    BY <1>3 DEF Surroundings, bridgeVars, allVars
  <1> QED BY <1>1, <1>2, <1>3 DEF BridgeNext

\* A club is selected by the controller, or armed, only as `Call` allows.
LEMMA StepsOfSession ==
    ClubKnown /\ ClubKnown' /\ [BridgeNext]_allVars => [Next]_vars
  <1> SUFFICES ASSUME club \in Clubs, club' \in Clubs, [BridgeNext]_allVars
               PROVE  [Next]_vars
    BY DEF ClubKnown
  <1>1. CASE PollClient
    BY <1>1 DEF PollClient, Next, ClientStep, ClientNext
  <1>2. CASE Greet
    <2>1. PICK first, second \in WriteOutcomes : Arm(club, first, second)
      BY <1>2 DEF Greet
    <2>2. Call /\ UNCHANGED <<omniVars, sessionVars>>
      BY <1>2, <2>1 DEF Greet, Call
    <2> QED BY <2>2 DEF Next, ClientStep, ClientNext
  <1>3. CASE Forward \/ Adopt \/ ListenQuiet
    BY <1>3 DEF Forward, Adopt, ListenQuiet
  <1>4. CASE Listen
    <2>1. CASE UNCHANGED vars
      BY <2>1
    <2>2. CASE ~UNCHANGED vars
      <3>1. PICK o \in WriteOutcomes : SelectClub(club', o)
        BY <1>4, <2>2 DEF Listen
      <3>2. UNCHANGED <<omniVars, sessionVars>>
        BY <1>4, <2>2 DEF Listen
      <3>3. Call
        BY <3>1 DEF Call
      <3> QED BY <3>2, <3>3 DEF Next, ClientStep, ClientNext
    <2> QED BY <2>1, <2>2
  <1>5. CASE Surroundings
    BY <1>5 DEF Surroundings, Next
  <1>6. CASE UNCHANGED allVars
    BY <1>6 DEF allVars
  <1> QED BY <1>1, <1>2, <1>3, <1>4, <1>5, <1>6 DEF BridgeNext, MainLoop

LEMMA ClubAlways == BridgeSpec => []ClubKnown
  <1>1. BridgeInit => ClubKnown
    BY DEF BridgeInit, ClubKnown
  <1> QED BY <1>1, ClubStep, PTL DEF BridgeSpec

\* The program uses the client as the client's specification allows: whatever
\* is proved of Session holds in the program (allsquare-frp.rs, main).
THEOREM ImplementsSession == BridgeSpec => Spec
  <1>1. BridgeInit => Init
    BY DEF BridgeInit
  <1> QED BY <1>1, StepsOfSession, ClubAlways, PTL DEF BridgeSpec, Spec

\* The program passes on a ball and the club data of one shot: ShotPairing, in
\* the program.
THEOREM ProgramPairs == BridgeSpec => []ShotPairing
  BY ImplementsSession, PairingCorrect

-----------------------------------------------------------------------------
(* Refinement: they are steps of the adapter's specification. *)

LEMMA StepsOfAdapter == [BridgeNext]_allVars => [FrpNext]_frpVars
  <1> SUFFICES ASSUME [BridgeNext]_allVars
               PROVE  [FrpNext]_frpVars
    OBVIOUS
  <1>1. CASE PollClient \/ Listen
    BY <1>1 DEF PollClient, Listen
  <1>2. CASE Greet
    BY <1>2 DEF Greet, FrpNext, Adapter
  <1>3. CASE Forward
    <2>1. (state = READY) \in BOOLEAN
      OBVIOUS
    <2> QED BY <1>3, <2>1 DEF Forward, FrpNext, Adapter
  <1>4. CASE Adopt \/ ListenQuiet
    BY <1>4 DEF Adopt, ListenQuiet, FrpNext, Adapter
  <1>5. CASE Surroundings
    BY <1>5 DEF Surroundings, FrpNext
  <1>6. CASE UNCHANGED allVars
    BY <1>6 DEF allVars
  <1> QED BY <1>1, <1>2, <1>3, <1>4, <1>5, <1>6 DEF BridgeNext, MainLoop

\* The program calls the adapter as the adapter's specification allows: whatever
\* is proved of FrpDevice holds in the program (allsquare-frp.rs, main).
THEOREM ImplementsAdapter == BridgeSpec => FrpSpec
  <1>1. BridgeInit => FrpInit
    BY DEF BridgeInit
  <1> QED BY <1>1, StepsOfAdapter, PTL DEF BridgeSpec, FrpSpec

-----------------------------------------------------------------------------
(* The types. *)

LoopTypes == /\ at \in {"poll", "adopt", "listen", "exit"} \cup Events
             /\ armed \in BOOLEAN

LEMMA LoopStep == LoopTypes /\ [BridgeNext]_allVars => LoopTypes'
  <1> SUFFICES ASSUME LoopTypes, [BridgeNext]_allVars
               PROVE  LoopTypes'
    OBVIOUS
  <1> USE DEF LoopTypes, Events
  <1>1. CASE PollClient
    <2>1. Returned \in Events \cup {"adopt"}
      BY DEF Returned
    <2> QED BY <1>1, <2>1 DEF PollClient
  <1>2. CASE Greet
    BY <1>2 DEF Greet
  <1>3. CASE Forward \/ Adopt \/ ListenQuiet
    BY <1>3 DEF Forward, Adopt, ListenQuiet
  <1>4. CASE Listen
    BY <1>4 DEF Listen
  <1>5. CASE Surroundings \/ UNCHANGED allVars
    BY <1>5 DEF Surroundings, allVars, bridgeVars
  <1> QED BY <1>1, <1>2, <1>3, <1>4, <1>5 DEF BridgeNext, MainLoop

\* BridgeTypeOK holds: the loop is where it can be, with a club it knows.
THEOREM BridgeTypeCorrect == BridgeSpec => []BridgeTypeOK
  <1>1. BridgeInit => LoopTypes
    BY DEF BridgeInit, LoopTypes
  <1>2. BridgeSpec => []LoopTypes
    BY <1>1, LoopStep, PTL DEF BridgeSpec
  <1>3. FrpTypeOK /\ LoopTypes /\ ClubKnown => BridgeTypeOK
    BY DEF BridgeTypeOK, LoopTypes, ClubKnown
  <1> QED BY <1>2, <1>3, ClubAlways, ImplementsAdapter, FrpTypeCorrect, PTL

-----------------------------------------------------------------------------
(* What only shows where client and adapter meet. *)

\* The readiness the adapter remembers is the state the client last saw.
LEMMA SendTelemetryReady ==
    ASSUME NEW ready \in BOOLEAN \cup {None}, NEW percent, SendTelemetry(ready, percent)
    PROVE  last_ready' = IF ready = None THEN last_ready ELSE ready
  <1>1. CASE SaysNothingNew(ready, percent)
    BY <1>1 DEF SendTelemetry, SaysNothingNew
  <1>2. CASE ~SaysNothingNew(ready, percent)
    BY <1>2 DEF SendTelemetry, ReadyNow
  <1> QED BY <1>1, <1>2

LEMMA NotFalselyStep ==
    faults \in Nat /\ NeverFalselyReady /\ [BridgeNext]_allVars => NeverFalselyReady'
  <1> SUFFICES ASSUME faults \in Nat, NeverFalselyReady, [BridgeNext]_allVars,
                      at' \notin {"state", "shot"}, last_ready' = TRUE
               PROVE  state' = READY
    BY DEF NeverFalselyReady
  <1> USE FrpAssumption DEF NeverFalselyReady
  <1>1. CASE PollClient
    <2>1. PollEffect
      BY <1>1, PollEffects DEF PollClient
    <2>2. UNCHANGED last_ready /\ at = "poll"
      BY <1>1 DEF PollClient, frpVars, adapterVars
    <2>3. state' = state
      BY <1>1, <2>1 DEF PollClient, PollEffect, Unsurfaced, Returned
    <2> QED BY <2>2, <2>3
  <1>2. CASE Greet
    <2>1. UNCHANGED last_ready
      BY <1>2, SendTelemetryReady DEF Greet, SendDeviceInfo
    <2>2. UNCHANGED state
      BY <1>2 DEF Greet, Arm, CallReturns
    <2> QED BY <1>2, <2>1, <2>2 DEF Greet
  <1>3. CASE Forward
    <2>1. UNCHANGED state
      BY <1>3 DEF Forward, vars, clientVars
    <2>2. CASE at = "shot" /\ \E detail \in Details : HandleShot(detail)
      BY <2>2 DEF HandleShot
    <2>3. CASE at = "state" /\ HandleState(state = READY)
      <3>1. (state = READY) \in BOOLEAN
        OBVIOUS
      <3>2. last_ready' = (state = READY)
        BY <2>3, <3>1, SendTelemetryReady DEF HandleState
      <3> QED BY <2>1, <3>2
    <2>4. CASE at = "note" /\ \E percent \in Percents : HandleBattery(percent)
      BY <2>1, <2>4, SendTelemetryReady DEF HandleBattery
    <2>5. CASE at = "note" /\ UNCHANGED frpVars
      BY <2>1, <2>5 DEF frpVars, adapterVars
    <2> QED BY <1>3, <2>2, <2>3, <2>4, <2>5 DEF Forward
  <1>4. CASE Adopt \/ ListenQuiet
    <2>1. UNCHANGED <<state, last_ready>> /\ at \notin {"state", "shot"}
      BY <1>4 DEF Adopt, ListenQuiet, PollConnection, LoseController, vars, clientVars,
                  frpVars, adapterVars
    <2> QED BY <2>1
  <1>5. CASE Listen
    <2>1. UNCHANGED last_ready /\ at = "listen"
      BY <1>5 DEF Listen, frpVars, adapterVars
    <2>2. UNCHANGED state
      BY <1>5 DEF Listen, SelectClub, CallReturns, vars, clientVars
    <2> QED BY <2>1, <2>2
  <1>6. CASE Surroundings \/ UNCHANGED allVars
    <2>1. UNCHANGED <<at, last_ready, state>>
      BY <1>6 DEF Surroundings, DeviceStep, Tick, Acceptor, TakeRequest, Establish, Hangup,
                  allVars, bridgeVars, frpVars, adapterVars, vars, clientVars
    <2> QED BY <2>1
  <1> QED BY <1>1, <1>2, <1>3, <1>4, <1>5, <1>6 DEF BridgeNext, MainLoop

\* NeverFalselyReady holds: no controller is told of a readiness that a later
\* state took back (mod.rs handle_event).
THEOREM NotFalselyReady == BridgeSpec => []NeverFalselyReady
  <1>1. BridgeInit => NeverFalselyReady
    BY FrpAssumption DEF BridgeInit, FrpInit, NeverFalselyReady
  <1>2. TypeOK => faults \in Nat
    BY ClientAssumption DEF TypeOK, ClientTypeOK, ClientAssumption
  <1> QED BY <1>1, <1>2, NotFalselyStep, ImplementsSession, TypeCorrect, PTL DEF BridgeSpec

-----------------------------------------------------------------------------
(* The numbers of the shots. *)

\* A failure, once recorded, stays recorded.
LEMMA FailuresStay == [FrpNext]_frpVars => failed \subseteq failed'
  <1> SUFFICES ASSUME [FrpNext]_frpVars
               PROVE  failed \subseteq failed'
    OBVIOUS
  <1> USE DEF Unsent, Transmit, Handed, historyVars
  <1>1. CASE PollConnection
    BY <1>1 DEF PollConnection
  <1>2. CASE LoseController \/ Acceptor \/ Hangup \/ UNCHANGED frpVars
    BY <1>2 DEF LoseController, Acceptor, TakeRequest, Establish, Hangup, frpVars
  <1>3. ASSUME NEW ready, NEW percent, SendTelemetry(ready, percent)
        PROVE  failed \subseteq failed'
    BY <1>3 DEF SendTelemetry
  <1>4. ASSUME NEW detail, HandleShot(detail)
        PROVE  failed \subseteq failed'
    BY <1>4 DEF HandleShot
  <1> QED BY <1>1, <1>2, <1>3, <1>4
             DEF FrpNext, Adapter, SendDeviceInfo, HandleState, HandleBattery

\* A shot whose sending did not fail has used up one number.
LEMMA ShotNumbered ==
    ASSUME NEW detail, conn \in Conns \cup {None}, HandleShot(detail), failed' = {}
    PROVE  shot_number' = shot_number + 1
  <1> DEFINE news == IF SaysNothingNew(FALSE, None) THEN <<>> ELSE <<Telemetry(FALSE, None)>>
             messages == ShotMessages(shot_number + 1, detail)
  <1>1. CASE conn = None
    BY <1>1 DEF HandleShot
  <1>2. CASE conn # None
    <2>1. PICK o \in Outcomes(conn, news, messages) :
            /\ Transmit(news, messages, o)
            /\ shot_number' = IF o.end = "failed" /\ o.sent < Len(news)
                              THEN shot_number ELSE shot_number + 1
      BY <1>2 DEF HandleShot
    <2>2. o.end # "failed"
      BY <2>1 DEF Transmit, Handed
    <2> QED BY <2>1, <2>2
  <1> QED BY <1>1, <1>2

NumberTypes == FrpTypeOK /\ TypeOK

LEMMA NumbersStep ==
    NumberTypes /\ NumbersFollowShots /\ [BridgeNext]_allVars => NumbersFollowShots'
  <1> SUFFICES ASSUME NumberTypes, NumbersFollowShots, [BridgeNext]_allVars, failed' = {}
               PROVE  Len(surfaced') = shot_number' + (IF at' = "shot" THEN 1 ELSE 0)
    BY DEF NumbersFollowShots
  <1>1. Len(surfaced) = shot_number + (IF at = "shot" THEN 1 ELSE 0)
    BY StepsOfAdapter, FailuresStay DEF NumbersFollowShots
  <1>2. /\ shot_number \in Nat /\ conn \in Conns \cup {None}
        /\ surfaced \in Seq(ShotEvent) /\ faults \in Nat
    BY FrpAssumption, ClientAssumption
       DEF NumberTypes, FrpTypeOK, TypeOK, ClientTypeOK, ClientAssumption
  <1>3. CASE PollClient
    <2>1. PollEffect /\ at = "poll" /\ shot_number' = shot_number
      BY <1>2, <1>3, PollEffects DEF PollClient, frpVars, adapterVars
    <2>2. CASE UNCHANGED surfaced
      <3>1. at' # "shot"
        BY <1>3, <2>2 DEF PollClient, Returned
      <3> QED BY <1>1, <1>2, <2>1, <2>2, <3>1
    <2>3. CASE ~UNCHANGED surfaced
      <3>1. /\ UNCHANGED phase /\ pc' = "idle" /\ status' = "open"
            /\ \E e : surfaced' = Append(surfaced, e)
        BY <2>1, <2>3 DEF PollEffect, Unsurfaced
      <3>2. at' = "shot"
        BY <1>3, <2>3, <3>1 DEF PollClient, Returned
      <3>3. Len(surfaced') = Len(surfaced) + 1
        BY <1>2, <3>1
      <3> QED BY <1>1, <1>2, <2>1, <3>2, <3>3
    <2> QED BY <2>2, <2>3
  <1>4. CASE Greet
    <2>1. /\ shot_number' = shot_number /\ surfaced' = surfaced
          /\ at # "shot" /\ at' # "shot"
      BY <1>4 DEF Greet, SendDeviceInfo, SendTelemetry, Arm, CallReturns, shotVars
    <2> QED BY <1>1, <2>1
  <1>5. CASE Forward
    <2>1. surfaced' = surfaced /\ at' = "poll"
      BY <1>5 DEF Forward, vars, clientVars, shotVars
    <2>2. CASE at = "shot"
      <3>1. shot_number' = shot_number + 1
        BY <1>2, <1>5, <2>2, ShotNumbered DEF Forward
      <3> QED BY <1>1, <1>2, <2>1, <2>2, <3>1
    <2>3. CASE at # "shot"
      <3>1. shot_number' = shot_number
        BY <1>5, <2>3 DEF Forward, HandleState, HandleBattery, SendTelemetry, frpVars,
                          adapterVars
      <3> QED BY <1>1, <2>1, <2>3, <3>1
    <2> QED BY <2>2, <2>3
  <1>6. CASE Adopt \/ ListenQuiet
    <2>1. /\ shot_number' = shot_number /\ surfaced' = surfaced
          /\ at # "shot" /\ at' # "shot"
      BY <1>6 DEF Adopt, ListenQuiet, PollConnection, LoseController, vars, clientVars,
                  shotVars, frpVars, adapterVars
    <2> QED BY <1>1, <2>1
  <1>7. CASE Listen
    <2>1. shot_number' = shot_number /\ at # "shot" /\ at' # "shot"
      BY <1>7 DEF Listen, frpVars, adapterVars
    <2>2. surfaced' = surfaced
      BY <1>7 DEF Listen, SelectClub, CallReturns, vars, clientVars, shotVars
    <2> QED BY <1>1, <2>1, <2>2
  <1>8. CASE Surroundings \/ UNCHANGED allVars
    <2>1. UNCHANGED <<at, shot_number, surfaced>>
      BY <1>8 DEF Surroundings, DeviceStep, Tick, Acceptor, TakeRequest, Establish, Hangup,
                  allVars, bridgeVars, frpVars, adapterVars, vars, clientVars, shotVars
    <2> QED BY <1>1, <2>1
  <1> QED BY <1>3, <1>4, <1>5, <1>6, <1>7, <1>8 DEF BridgeNext, MainLoop

\* NumbersFollowShots holds: every shot the client returns gets the next number
\* (mod.rs shot_number, allsquare-frp.rs main).
THEOREM NumbersRight == BridgeSpec => []NumbersFollowShots
  <1>1. BridgeInit => NumbersFollowShots
    BY DEF BridgeInit, FrpInit, Init, ClientInit, NumbersFollowShots
  <1>2. BridgeSpec => []NumberTypes
    <2>1. FrpTypeOK /\ TypeOK => NumberTypes
      BY DEF NumberTypes
    <2> QED BY <2>1, ImplementsSession, ImplementsAdapter, TypeCorrect, FrpTypeCorrect, PTL
  <1> QED BY <1>1, <1>2, NumbersStep, PTL DEF BridgeSpec

-----------------------------------------------------------------------------
(* The club the device was told of. *)

LEMMA ClubFollowedStep ==
    faults \in Nat /\ ClubFollowed /\ [BridgeNext]_allVars => ClubFollowed'
  <1> SUFFICES ASSUME faults \in Nat, ClubFollowed, [BridgeNext]_allVars,
                      armed', faults' = 0, link' = "up"
               PROVE  active_club' = club'
    BY DEF ClubFollowed
  <1> USE DEF ClubFollowed
  <1>1. CASE PollClient
    <2>1. PollEffect
      BY <1>1, PollEffects DEF PollClient
    <2>2. faults = 0 /\ UNCHANGED <<active_club, link>>
      BY <2>1 DEF PollEffect
    <2> QED BY <1>1, <2>2 DEF PollClient
  <1>2. CASE Greet
    <2>1. PICK first, second \in WriteOutcomes :
            /\ Arm(club, first, second)
            /\ IF first = "ok" /\ second = "ok"
               THEN armed' = TRUE /\ at' = "poll"
               ELSE status' = "closed" /\ at' = "exit" /\ UNCHANGED armed
      BY <1>2 DEF Greet
    <2>2. club' = club /\ UNCHANGED link
      BY <1>2, <2>1 DEF Greet, Arm, CallReturns, linkVars
    <2>3. CASE first = "ok"
      BY <2>1, <2>2, <2>3 DEF Arm
    <2>4. CASE first # "ok"
      BY <2>1, <2>2, <2>4 DEF Arm, CallReturns, Spend
    <2> QED BY <2>3, <2>4
  <1>3. CASE Forward \/ Adopt \/ ListenQuiet
    BY <1>3 DEF Forward, Adopt, ListenQuiet, vars, clientVars, callVars, linkVars
  <1>4. CASE Listen
    <2>1. CASE UNCHANGED vars /\ club' = club
      BY <1>4, <2>1 DEF Listen, vars, clientVars, callVars, linkVars
    <2>2. CASE ~(UNCHANGED vars /\ club' = club)
      <3>1. PICK o \in WriteOutcomes : SelectClub(club', o)
        BY <1>4, <2>2 DEF Listen
      <3>2. CASE o = "ok"
        BY <3>1, <3>2 DEF SelectClub
      <3>3. CASE o # "ok"
        BY <3>1, <3>3 DEF SelectClub, CallReturns, Spend, linkVars
      <3> QED BY <3>2, <3>3
    <2> QED BY <2>1, <2>2
  <1>5. CASE Surroundings \/ UNCHANGED allVars
    <2>1. UNCHANGED <<club, armed, active_club, faults>>
      BY <1>5 DEF Surroundings, DeviceStep, Tick, Acceptor, TakeRequest, Establish, Hangup,
                  allVars, bridgeVars, vars, clientVars, callVars
    <2>2. link = "up"
      BY <1>5 DEF Surroundings, DeviceStep, OmniNext, DeviceNext, Hit, Answer, ServeRetained,
                  Notify, ChangeState, Teardown, LinkLost, Tick, Acceptor, Hangup, allVars, vars,
                  linkVars
    <2> QED BY <2>1, <2>2
  <1> QED BY <1>1, <1>2, <1>3, <1>4, <1>5 DEF BridgeNext, MainLoop

\* ClubFollowed holds: while no call fails, the device is told of every club that is
\* asked for (allsquare-frp.rs main, apply_controller_command).
THEOREM ClubsFollowed == BridgeSpec => []ClubFollowed
  <1>1. BridgeInit => ClubFollowed
    BY DEF BridgeInit, ClubFollowed
  <1>2. TypeOK => faults \in Nat
    BY ClientAssumption DEF TypeOK, ClientTypeOK, ClientAssumption
  <1> QED BY <1>1, <1>2, ClubFollowedStep, ImplementsSession, TypeCorrect, PTL DEF BridgeSpec
=============================================================================
