------------------------------ MODULE Metrics ------------------------------
(***************************************************************************)
(* The way of a measurement from the device to a controller: the bytes of  *)
(* a ball and a club notification, `parse`, the client's offset and its    *)
(* test for an empty answer (src/src/client.rs:425-474), and the           *)
(* conversions of src/src/frp/convert.rs.  When which notification is read *)
(* is the subject of Session; here they come in their order, and the club  *)
(* is selected before the ball is hit.                                     *)
(***************************************************************************)
EXTENDS Protocol

CONSTANTS BallSamples,  \* balls the device measures: fields as in Ball, without kind
          ClubSamples,  \* club answers: valid fields, raw words, length of the frame
          OtherFrames,  \* notifications of the other families, well-formed and not
          Calibrations  \* tables of offsets that the caller sets up

ClubMeasurement == [valid : SUBSET Fields, raw : [Fields -> Word], len : 0..19]

BallMeasurement ==
    [shot_type : Byte, speed : Word, launch_angle : Word, direction : Word,
     total_spin : Word, spin_axis : Word, back_spin : Word, side_spin : Word]

\* The fields that FRP's ClubData has.
ClubFields == Fields \ {ImpactHorizontal, ImpactVertical}

OptInt == Int \cup {None}

OptDouble == [num : Int, den : {1, 100}] \cup {None}

ClubMetrics == [kind : {"club"}, mask : SUBSET Fields, field : [Fields -> OptDouble]]
Impacts == [lateral : OptDouble, vertical : OptDouble]

\* None is neither a number nor a measurement.
ASSUME MetricsAssumption ==
    /\ BallSamples \subseteq BallMeasurement
    /\ ClubSamples \subseteq ClubMeasurement
    /\ OtherFrames \subseteq Seq(Byte)
    /\ \A f \in OtherFrames : Parse(f).kind \notin {"ball", "club"}
    /\ Calibrations \subseteq [Club -> OptInt]
    /\ None \notin Int
    /\ None \notin [num : Int, den : {1, 100}]
    /\ None \notin BallSamples
    /\ None \notin ClubSamples
    /\ None \notin ClubMetrics
    /\ None \notin [ClubFields -> OptDouble]
    /\ None \notin Impacts

VARIABLES active_club,  \* the client's, or None
          understood,   \* the club that the device took from the last SelectClub
          calibration,  \* the client's ImpactCalibration: an offset or None for each club
          ball,         \* what the device measured of the last ball
          hit,          \* ... and of the club, once it has sent that
          note,         \* what parse made of the last notification
          pending_shot,
          shot,         \* the last Event::Shot, until it is forwarded
          out           \* what the controller got of the last shot

metricsVars ==
    <<active_club, understood, calibration, ball, hit, note, pending_shot, shot, out>>

-----------------------------------------------------------------------------
(* Face impact calibration, in hundredths of a millimeter; that the sum of *)
(* a reading and its offset is rounded to a double is left out.            *)
Irons == {"Iron3", "Iron4", "Iron5", "Iron6", "Iron7", "Iron8", "Iron9"}

Default ==
    [c \in Club |-> CASE c = "Driver" -> 1500
                      [] c \in {"Wood3", "Wood5", "Wood7"} -> 900
                      [] c \in {"Hybrid3", "Hybrid4", "Hybrid5"} -> 800
                      [] c \in Irons \cup {"PitchingWedge"} -> 1900
                      [] c \in {"GapWedge", "SandWedge"} -> 2100
                      [] c = "LobWedge" -> 2400
                      [] OTHER -> None]

Empty == [c \in Club |-> None]

SetOffset(table, club, mm) == [table EXCEPT ![club] = mm]

OffsetFor(club) == IF club = None THEN None ELSE calibration[club]

Above(value, offset) == Double(value.num + offset, value.den)

\* Mutant of ApplyOffset: without an offset the reading is left as it is.
ApplyOffsetIfKnown(club, offset) ==
    IF RawFaceImpact THEN club
    ELSE [club EXCEPT !.field[ImpactVertical] =
              IF @ = None \/ offset = None THEN @ ELSE Above(@, offset)]

\* With raw-face-impact it is not compiled in.
ApplyOffset(club, offset) ==
    IF RawFaceImpact THEN club
    ELSE [club EXCEPT !.field[ImpactVertical] =
              IF @ = None \/ offset = None THEN None ELSE Above(@, offset)]

IsEmpty(club) == \A i \in {ClubSpeed, Path, FaceAngle} : club.field[i] = None

-----------------------------------------------------------------------------
(* Conversions to FRP. *)
Opposite(v) == Double(-v.num, v.den)

\* lateral_sign, applied to a reading if there is one.
Lateral(v) == IF v = None \/ RawFaceImpact THEN v ELSE Opposite(v)

BallFlight(b) ==
    [launch_speed     |-> b.speed,
     launch_azimuth   |-> b.direction,
     launch_elevation |-> b.launch_angle,
     backspin_rpm     |-> b.back_spin,
     sidespin_rpm     |-> -b.side_spin,
     total_spin_rpm   |-> IF b.total_spin > 0 THEN b.total_spin ELSE None,
     spin_axis        |-> IF b.total_spin > 0 THEN Opposite(b.spin_axis) ELSE None]

ClubData(c) == [i \in ClubFields |-> c.field[i]]

\* Mutant of FaceImpact: both coordinates are needed.
FaceImpactBoth(c) ==
    IF c.field[ImpactHorizontal] = None \/ c.field[ImpactVertical] = None THEN None
    ELSE [lateral  |-> Lateral(c.field[ImpactHorizontal]),
          vertical |-> c.field[ImpactVertical]]

FaceImpact(c) ==
    IF c.field[ImpactHorizontal] = None /\ c.field[ImpactVertical] = None THEN None
    ELSE [lateral  |-> Lateral(c.field[ImpactHorizontal]),
          vertical |-> c.field[ImpactVertical]]

-----------------------------------------------------------------------------
(* The device, external: its frames as docs/WIRE.md 6.2 and 6.6 lay them   *)
(* out.  The Omni's club frames have all 19 bytes, the Home's may be bare. *)
BallFrame(b) ==
    <<\h11, \h02, b.shot_type>>
    \o LeBytes(b.speed) \o LeBytes(b.launch_angle) \o LeBytes(b.direction)
    \o LeBytes(b.total_spin) \o LeBytes(b.spin_axis) \o LeBytes(b.back_spin)
    \o LeBytes(b.side_spin)

ClubFrame(m) ==
    [k \in 1..m.len |-> IF k <= 3 THEN <<\h11, \h07, MaskByte[m.valid]>>[k]
                        ELSE FieldBytes(m.raw)[k - 3]]

-----------------------------------------------------------------------------
MetricsInit ==
    /\ active_club = None
    /\ understood = None
    /\ calibration = Default
    /\ ball = None
    /\ hit = None
    /\ note = None
    /\ pending_shot = None
    /\ shot = None
    /\ out = None

Unhit == ball = None

\* Client::select_club, and the device reading the command.
Select(club, handed, seq) ==
    /\ Unhit
    /\ active_club' = club
    /\ LET frame == Encode(SelectClub(club, handed), seq)
       IN  understood' = FromCode(At(frame, 3), At(frame, 4))
    /\ UNCHANGED <<calibration, ball, hit, note, pending_shot, shot, out>>

\* Client::set_impact_calibration.
Calibrate(table) ==
    /\ Unhit
    /\ calibration' = table
    /\ UNCHANGED <<active_club, understood, ball, hit, note, pending_shot, shot, out>>

\* A ball that is still pending is superseded.
ReadBall(b) ==
    /\ shot = None
    /\ ball' = b
    /\ hit' = None
    /\ out' = None
    /\ note' = Parse(BallFrame(b))
    /\ pending_shot' = note'
    /\ UNCHANGED <<active_club, understood, calibration, shot>>

\* A frame that parse rejects is swallowed by poll: the ball stays pending.
ReadClub(m) ==
    /\ pending_shot # None
    /\ hit' = m
    /\ note' = Parse(ClubFrame(m))
    /\ IF note'.kind = "club"
       THEN /\ pending_shot' = None
            /\ LET club == ApplyOffset(note', OffsetFor(active_club))
               IN  shot' = [ball |-> pending_shot, club |-> IF IsEmpty(club) THEN None ELSE club]
       ELSE UNCHANGED <<pending_shot, shot>>
    /\ UNCHANGED <<active_club, understood, calibration, ball, out>>

ReadOther(frame) ==
    /\ Unhit
    /\ note' = Parse(frame)
    /\ UNCHANGED <<active_club, understood, calibration, ball, hit, pending_shot, shot, out>>

\* FrpDevice::handle_event(Event::Shot): the contents of the envelopes.
Forward ==
    /\ shot # None
    /\ out' = [flight |-> BallFlight(shot.ball),
               club   |-> IF shot.club = None THEN None ELSE ClubData(shot.club),
               impact |-> IF shot.club = None THEN None ELSE FaceImpact(shot.club)]
    /\ shot' = None
    /\ UNCHANGED <<active_club, understood, calibration, ball, hit, note, pending_shot>>

MetricsNext ==
    \/ \E c \in Club, h \in {"Right", "Left"}, seq \in {0, 255} : Select(c, h, seq)
    \/ \E table \in Calibrations : Calibrate(table)
    \/ \E b \in BallSamples : ReadBall(b)
    \/ \E m \in ClubSamples : ReadClub(m)
    \/ \E f \in OtherFrames : ReadOther(f)
    \/ Forward

MetricsSpec == MetricsInit /\ [][MetricsNext]_metricsVars

-----------------------------------------------------------------------------
Hundredth == [num : Word, den : {100}]

BallMetrics ==
    [kind : {"ball"}, shot_type : Byte, speed : Hundredth, launch_angle : Hundredth,
     direction : Hundredth, total_spin : Word, spin_axis : Hundredth, back_spin : Word,
     side_spin : Word]

Flights ==
    [launch_speed : Hundredth, launch_azimuth : Hundredth, launch_elevation : Hundredth,
     backspin_rpm : Word, sidespin_rpm : Int, total_spin_rpm : OptInt, spin_axis : OptDouble]

\* Types: what is parsed is in the range of an i16, or hundredths of that, what is
\* forwarded is a number or absent.
MetricsTypeOK ==
    /\ active_club \in Club \cup {None}
    /\ understood \in Club \cup {None}
    /\ calibration \in [Club -> OptInt]
    /\ ball \in BallSamples \cup {None}
    /\ hit \in ClubSamples \cup {None}
    /\ pending_shot # None => pending_shot \in BallMetrics
    /\ shot # None => /\ shot.ball \in BallMetrics
                      /\ shot.club # None => shot.club \in ClubMetrics
    /\ out # None => /\ out.flight \in Flights
                     /\ out.club # None => out.club \in [ClubFields -> Hundredth \cup {None}]

\* The field i of the club answer m is there to be read: its mask bit is set, the
\* frame holds both of its bytes, and it is not the value that means "not measured".
Readable(m, i) == i \in m.valid /\ m.len >= 5 + 2 * i /\ m.raw[i] # CLUB_SENTINEL

\* What the word at a place of the club answer means: hundredths, except that the two
\* places of the impact are taken as they are with raw-face-impact (docs/WIRE.md 6.6).
Meant(m, i) == Double(m.raw[i], IF RawFaceImpact /\ i \in {4, 5} THEN 1 ELSE 100)

\* However short the frame, whatever its mask and values: a parsed field is what the
\* device measured at that very place, and it is missing exactly if it was not valid,
\* not whole or equal to the sentinel (protocol.rs club_field, parse_11).
FieldsInPlace ==
    (note # None /\ note.kind = "club") =>
        \A i \in Fields : note.field[i] = IF Readable(hit, i) THEN Meant(hit, i) ELSE None

\* Vertical impact is told from the center of the face, if it is known where that is;
\* with raw-face-impact, from where the device has its zero.
VerticalKnown == RawFaceImpact \/ OffsetFor(active_club) # None

\* What a controller is told is what the device measured, from bytes to envelopes:
\* nothing is told that was not measured, no field in the place of another, the signs
\* FRP asks for, at the ends of the range too, and a vertical impact only from the
\* center of a face whose offset is known (convert.rs, client.rs
\* apply_impact_vertical_offset).
ToldAsMeasured ==
    out # None =>
        /\ out.flight.launch_speed = Double(ball.speed, 100)
        /\ out.flight.launch_azimuth = Double(ball.direction, 100)
        /\ out.flight.launch_elevation = Double(ball.launch_angle, 100)
        /\ out.flight.backspin_rpm = ball.back_spin
        /\ out.flight.sidespin_rpm + ball.side_spin = 0
        /\ out.flight.total_spin_rpm \in {ball.total_spin, None}
        /\ out.flight.spin_axis \in {Double(-ball.spin_axis, 100), None}
        /\ out.club # None =>
              \A i \in ClubFields : out.club[i] # None =>
                  Readable(hit, i) /\ out.club[i] = Double(hit.raw[i], 100)
        /\ out.impact # None =>
              /\ out.impact.lateral # None =>
                    /\ Readable(hit, ImpactHorizontal)
                    /\ out.impact.lateral =
                          LET x == hit.raw[ImpactHorizontal]
                          IN  IF RawFaceImpact THEN Double(x, 1) ELSE Double(-x, 100)
              /\ out.impact.vertical # None =>
                    /\ Readable(hit, ImpactVertical)
                    /\ VerticalKnown
                    /\ out.impact.vertical =
                          LET y == hit.raw[ImpactVertical]
                          IN  IF RawFaceImpact THEN Double(y, 1)
                              ELSE Double(y + OffsetFor(active_club), 100)

\* What is_empty requires before any club data is passed on.
Tracked(m) == \E i \in {ClubSpeed, Path, FaceAngle} : Readable(m, i)

\* Nothing that was measured is lost on the way, with these exceptions: a shot without
\* speed, path and face loses all of its club data (see ClubDataKept), a vertical
\* impact without an offset is left out, and so is the spin axis of a ball without
\* total spin (client.rs handle, convert.rs).
NothingLost ==
    out # None =>
        /\ ball.total_spin > 0 => out.flight.total_spin_rpm # None /\ out.flight.spin_axis # None
        /\ Tracked(hit) =>
              /\ out.club # None
              /\ \A i \in ClubFields : Readable(hit, i) => out.club[i] # None
              /\ Readable(hit, ImpactHorizontal) =>
                    out.impact # None /\ out.impact.lateral # None
              /\ Readable(hit, ImpactVertical) /\ VerticalKnown =>
                    out.impact # None /\ out.impact.vertical # None

\* "`club` is present once the pull-based club metrics arrive; it is `None` if the
\* device had nothing to report" (client.rs:113-114): a shot that is forwarded without
\* club data is one whose club answer has no field of FRP's club data to read.
ClubDataKept ==
    (out # None /\ out.club = None) => \A i \in ClubFields : ~Readable(hit, i)

\* "Every function here is the inverse of the matching parse branch for any value the
\* device can send" (testing.rs): what was parsed is encoded to a frame that parses
\* to the same, though the double nearest to a hundredth, times 100, may fall short of
\* the word it was read from (testing.rs wire).
Reencodes ==
    note # None =>
        /\ note.kind = "ball"  => Parse(ball_notification(note)) = note
        /\ note.kind = "club"  => Parse(club_notification(note)) = note
        /\ note.kind = "ack"   => Parse(heartbeat_ack(note.state)) = note
        /\ note.kind = "query" => Parse(query_response(note.payload)) = note

\* The device takes the club that the client believes to be active, and whose offset
\* it uses, from the two bytes of the command (club.rs code, from_code).
ClubUnderstood == understood = active_club
=============================================================================
