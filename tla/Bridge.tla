------------------------------- MODULE Bridge -------------------------------
(***************************************************************************)
(* The program allsquare-frp (src/src/bin/allsquare-frp.rs): one thread    *)
(* that polls the client of Session and hands its events to the adapter of *)
(* FrpDevice, and the controller's wishes back to the client.  It serves   *)
(* controllers only when a poll returned no event, and it ends when a poll *)
(* or the arming fails.  Device, clock, acceptor thread and controllers    *)
(* act between any two of its steps.                                       *)
(***************************************************************************)
EXTENDS Session, FrpDevice

READY == 4  \* DeviceState::Ready

\* The program gives up on any error of `poll`; it is given a club to arm.
ASSUME BridgeAssumption == AfterError = {"closed"} /\ Clubs # {}

VARIABLES at,    \* where the loop is: "poll", an event returned, "adopt", "listen", "exit"
          club,  \* the club in play, as argument and controller set it
          armed

bridgeVars == <<at, club, armed>>
allVars == <<vars, frpVars, bridgeVars>>

Events == {"connected", "shot", "state", "note"}

BridgeTypeOK ==
    /\ FrpTypeOK
    /\ at \in {"poll", "adopt", "listen", "exit"} \cup Events
    /\ club \in Clubs
    /\ armed \in BOOLEAN

BridgeInit ==
    /\ Init
    /\ FrpInit
    /\ at = "poll"
    /\ club \in Clubs
    /\ armed = FALSE

-----------------------------------------------------------------------------
\* The event that a step of `poll` returns, as the step shows.
Returned ==
    IF phase' # phase THEN "connected"
    ELSE IF surfaced' # surfaced THEN "shot"
    ELSE IF state' # state THEN "state"
    ELSE IF noted' # noted THEN "note"
    ELSE "adopt"

PollClient ==
    /\ at = "poll"
    /\ Poll
    /\ at' = IF pc' = "read" THEN "poll"
             ELSE IF status' # "open" THEN "exit"
             ELSE Returned
    /\ UNCHANGED <<omniVars, sessionVars, frpVars, club, armed>>

\* Event::Connected: the device info is sent, the device armed.
Greet ==
    /\ at = "connected"
    /\ SendDeviceInfo
    /\ \E first, second \in WriteOutcomes :
         /\ Arm(club, first, second)
         /\ IF first = "ok" /\ second = "ok"
            THEN armed' = TRUE /\ at' = "poll"
            ELSE status' = "closed" /\ at' = "exit" /\ UNCHANGED armed
    /\ UNCHANGED <<omniVars, sessionVars, club>>

\* Of the events passed on unchanged only a battery's becomes telemetry.
Forward ==
    /\ \/ at = "shot" /\ \E detail \in Details : HandleShot(detail)
       \/ at = "state" /\ HandleState(state = READY)
       \/ at = "note" /\ \E percent \in Percents : HandleBattery(percent)
       \/ at = "note" /\ UNCHANGED frpVars
    /\ at' = "poll"
    /\ UNCHANGED <<vars, club, armed>>

Adopt ==
    /\ at = "adopt"
    /\ \/ PollConnection
       \/ (conn # None \/ incoming = <<>>) /\ UNCHANGED frpVars
    /\ at' = "listen"
    /\ UNCHANGED <<vars, club, armed>>

\* check_controller finds nothing, or that the controller is gone.
ListenQuiet ==
    /\ at = "listen"
    /\ LoseController \/ UNCHANGED frpVars
    /\ at' = "poll"
    /\ UNCHANGED <<vars, club, armed>>

\* Mutant of Listen: the old club is selected.
ListenTooLate ==
    /\ at = "listen"
    /\ conn # None
    /\ club' \in Clubs
    /\ IF armed
       THEN /\ \E o \in WriteOutcomes : SelectClub(club, o)
            /\ status' = "open"
            /\ UNCHANGED <<omniVars, sessionVars>>
       ELSE UNCHANGED vars
    /\ at' = "poll"
    /\ UNCHANGED <<frpVars, armed>>

\* apply_controller_command: club, hand or both (None: absent, or unknown here).
\* Before the device is armed they would be kept for the arming; but a connecting poll
\* arms the device or ends the program, so that no command is read before.
Listen ==
    /\ at = "listen"
    /\ conn # None
    /\ \E requested \in Clubs \cup {None}, named \in BOOLEAN :
         /\ club' = IF requested = None THEN club ELSE requested
         /\ requested # None => named
         /\ IF armed /\ named
            THEN /\ \E o \in WriteOutcomes : SelectClub(club', o)
                 /\ status' = "open"
                 /\ UNCHANGED <<omniVars, sessionVars>>
            ELSE UNCHANGED vars
    /\ at' = "poll"
    /\ UNCHANGED <<frpVars, armed>>

MainLoop == PollClient \/ Greet \/ Forward \/ Adopt \/ ListenQuiet \/ Listen

Surroundings ==
    \/ (DeviceStep \/ Tick) /\ UNCHANGED <<frpVars, bridgeVars>>
    \/ (Acceptor \/ Hangup) /\ UNCHANGED <<vars, bridgeVars>>

BridgeNext == MainLoop \/ Surroundings

BridgeSpec == BridgeInit /\ [][BridgeNext]_allVars

-----------------------------------------------------------------------------
\* No controller is told that the device is ready when the last state heard from
\* it was another one (allsquare-frp.rs main, mod.rs handle_event).
NeverFalselyReady ==
    at \notin {"state", "shot"} /\ last_ready = TRUE => state = READY

\* While no send fails, every shot the client returns gets the next number,
\* whether or not a controller is there to see it (mod.rs shot_number).
NumbersFollowShots ==
    failed = {} => Len(surfaced) = shot_number + (IF at = "shot" THEN 1 ELSE 0)

\* While no call fails, the club that the client last named to the device is the one
\* that was last asked for, by argument or controller (allsquare-frp.rs main,
\* apply_controller_command).
ClubFollowed == armed /\ faults = 0 /\ link = "up" => active_club = club
=============================================================================
