------------------------------ MODULE Protocol ------------------------------
(***************************************************************************)
(* The wire format of src/src/protocol.rs and src/src/club.rs, and the     *)
(* notification encoders of src/src/testing.rs.  A frame is a sequence of  *)
(* bytes; offsets count from 0, as in the code.  A set of bits stands for  *)
(* the validity mask, a name (with the raw byte, if it has none) for a     *)
(* state, its bytes for the clock's 64-bit value, and a fraction for the   *)
(* f64 that is nearest to it.                                              *)
(***************************************************************************)
EXTENDS Integers, Sequences, Options

CONSTANT RawFaceImpact     \* the cargo feature raw-face-impact

ASSUME FeatureAssumption == RawFaceImpact \in BOOLEAN

Byte == 0..255
Word == {v \in Int : -32768 <= v /\ v <= 32767}              \* i16

At(data, off) == data[off + 1]

I16(u) == IF u < 32768 THEN u ELSE u - 65536

i16_at(data, off) == I16(At(data, off) + 256 * At(data, off + 1))

i32_at(data, off) ==
    At(data, off) + 256 * At(data, off + 1) + 65536 * i16_at(data, off + 2)

\* i16::to_le_bytes, in two's complement.
LeBytes(v) == <<v % 256, (v \div 256) % 256>>

Fields == 0..7

\* Position and mask bit of the fields of the club metrics.
Path == 0
FaceAngle == 1
AttackAngle == 2
DynamicLoft == 3
ImpactHorizontal == 4
ImpactVertical == 5
ClubSpeed == 6
SmashFactor == 7

Weight == <<1, 2, 4, 8, 16, 32, 64, 128>>                  \* 1 << bit, for every bit

Bits(byte) == {i \in Fields : (byte \div Weight[i + 1]) % 2 = 1}

\* The byte with these bits.
MaskByte == [bits \in SUBSET Fields |-> CHOOSE byte \in Byte : Bits(byte) = bits]

-----------------------------------------------------------------------------
(* Physical values. *)
Double(num, den) == [num |-> num, den |-> den]

NaN == Double(0, 0)

CLUB_SCALE == 100
IMPACT_SCALE == IF RawFaceImpact THEN 1 ELSE CLUB_SCALE

FieldScale(i) == IF i \in {ImpactHorizontal, ImpactVertical} THEN IMPACT_SCALE ELSE CLUB_SCALE

\* On which side of num the double lies that the double nearest to num / 100, times
\* 100.0, is rounded to: -1 if it is closer to 0, 1 if it is farther, 0 if it is num.
\* With n = |num| 2^s in 51200..102399 the quotient has units of 2^-43, of which it is
\* e / 25 off; times 100 that is e 2^-41, and the unit of the product is 2^-37 below
\* 65536 and 2^-36 above.  (2^20 % 25 = 1.)
Deviation(num) ==
    LET a == IF num < 0 THEN -num ELSE num
        s == CHOOSE s \in 0..16 : 51200 <= a * 2^s /\ a * 2^s < 102400
        n == a * 2^s
        r == ((a % 25) * (2^((41 + s) % 20) % 25)) % 25
        e == IF r <= 12 THEN -r ELSE 25 - r
    IN  CASE num # 0 /\ n < 65536 /\ e > 8 -> 1
          [] num # 0 /\ n <= 65536 /\ e < -8 -> -1
          [] OTHER -> 0

\* value * scale: a fraction, and the side of it on which the double lies.
Scaled(value, scale) ==
    [num |-> value.num * scale, den |-> value.den,
     off |-> IF value.den = 100 /\ scale = 100 THEN Deviation(value.num) ELSE 0]

WithSign(num, magnitude) == IF num < 0 THEN -magnitude ELSE magnitude

\* The whole number that is nearest, halves away from 0 (f64::round).
Rounded(p) ==
    LET twice == 2 * WithSign(p.num, p.num) - (IF p.off < 0 THEN 1 ELSE 0)
    IN  WithSign(p.num, (twice + p.den) \div (2 * p.den))

\* The whole number next to it on the side of 0, as a cast takes it.
Truncated(p) ==
    LET magnitude == WithSign(p.num, p.num) - (IF p.off < 0 THEN 1 ELSE 0)
    IN  WithSign(p.num, magnitude \div p.den)

Clamped(v) == IF v < -32768 THEN -32768 ELSE IF v > 32767 THEN 32767 ELSE v

-----------------------------------------------------------------------------
(* Club codes. *)
DriverOnly == 0
WoodHybrid == 1
IronWedge  == 2
PutterOnly == 3

Code ==
    [Driver  |-> <<1, DriverOnly>>,  Wood3   |-> <<3, WoodHybrid>>,
     Wood5   |-> <<5, WoodHybrid>>,  Wood7   |-> <<7, WoodHybrid>>,
     Hybrid3 |-> <<13, WoodHybrid>>, Hybrid4 |-> <<14, WoodHybrid>>,
     Hybrid5 |-> <<15, WoodHybrid>>, Iron3   |-> <<3, IronWedge>>,
     Iron4   |-> <<4, IronWedge>>,   Iron5   |-> <<5, IronWedge>>,
     Iron6   |-> <<6, IronWedge>>,   Iron7   |-> <<7, IronWedge>>,
     Iron8   |-> <<8, IronWedge>>,   Iron9   |-> <<9, IronWedge>>,
     PitchingWedge |-> <<10, IronWedge>>, GapWedge |-> <<11, IronWedge>>,
     SandWedge     |-> <<12, IronWedge>>, LobWedge |-> <<13, IronWedge>>,
     Putter  |-> <<1, PutterOnly>>]

Club == DOMAIN Code

WithCode(code) == {c \in Club : Code[c] = code}

FromCode(number, category) ==
    LET hits == WithCode(<<number, category>>)
    IN  IF hits = {} THEN None ELSE CHOOSE c \in hits : TRUE

HandedCode == [Right |-> 0, Left |-> 1]

-----------------------------------------------------------------------------
(* Commands: [type, params], params being the bytes after the sequence     *)
(* number up to the last one that is set.  Of the commands with parameters *)
(* the selection of a club is the one that other state depends on.         *)
TypeByte ==
    [DetectBall |-> \h81, SelectClub |-> \h82, Heartbeat |-> \h83, Query |-> \h86,
     RequestClubMetrics |-> \h87, SetUnits |-> \h88, SetGreenSpeed |-> \h89,
     SetCarryAdjustment |-> \h8A]

\* Mutant of SelectClub: the two bytes of the code are swapped.
SelectClubSwapped(club, handed) ==
    [type |-> "SelectClub", params |-> <<Code[club][2], Code[club][1], HandedCode[handed]>>]

SelectClub(club, handed) ==
    [type |-> "SelectClub", params |-> Code[club] \o <<HandedCode[handed]>>]

COMMAND_LEN == 9

Encode(cmd, seq) ==
    LET head == <<0, TypeByte[cmd.type], seq>> \o cmd.params
    IN  [i \in 1..COMMAND_LEN |-> IF i <= Len(head) THEN head[i] ELSE 0]

-----------------------------------------------------------------------------
(* Decoding of notifications. *)
StateNames == <<"None", "Idle", "Init", "Detect", "Ready", "Shot", "Done">>

DeviceState(v) == IF v < 7 THEN <<StateNames[v + 1]>> ELSE <<"Unknown", v>>

ChargingNames == <<"NotCharging", "Discharging", "Charging", "Full", "NoBattery">>

ChargingState(v) == IF v < 5 THEN ChargingNames[v + 1] ELSE "Unknown"

CLUB_SENTINEL == -1

\* Mutant of club_field: a field whose mask bit is clear is taken for measured.
club_field_unmasked(raw, mask, bit, scale) ==
    IF raw = CLUB_SENTINEL THEN None ELSE Double(raw, scale)

club_field(raw, mask, bit, scale) ==
    IF raw = CLUB_SENTINEL \/ bit \notin mask THEN None ELSE Double(raw, scale)

Failed(error) == [kind |-> "error", error |-> error]

\* Mutant of Need: a frame of the very length that is needed is refused.
NeedMore(data, n, note) == IF Len(data) <= n THEN Failed("truncated") ELSE note

Need(data, n, note) == IF Len(data) < n THEN Failed("truncated") ELSE note

Battery(data) ==
    [kind |-> "battery", percent |-> At(data, 1), state |-> ChargingState(At(data, 2))]

Clock(data) == [kind |-> "clock", value |-> SubSeq(data, 2, 9)]

Sensor(data) ==
    [kind     |-> "sensor",
     ready    |-> At(data, 3) \in {1, 2},
     detected |-> At(data, 4) = 1,
     position |-> <<i32_at(data, 5), i32_at(data, 9), i32_at(data, 13)>>]

Ball(data) ==
    [kind         |-> "ball",
     shot_type    |-> At(data, 2),
     speed        |-> Double(i16_at(data, 3), 100),
     launch_angle |-> Double(i16_at(data, 5), 100),
     direction    |-> Double(i16_at(data, 7), 100),
     total_spin   |-> i16_at(data, 9),
     spin_axis    |-> Double(i16_at(data, 11), 100),
     back_spin    |-> i16_at(data, 13),
     side_spin    |-> i16_at(data, 15)]

\* A field that is not whole in the frame is None, as in the Home's bare answer.
ClubNote(data) ==
    LET mask == Bits(At(data, 2))
    IN  [kind |-> "club",
         mask |-> mask,
         field |-> [i \in Fields |->
             IF Len(data) - 3 < (i + 1) * 2 THEN None
             ELSE club_field(i16_at(data, 3 + 2 * i), mask, i, FieldScale(i))]]

Parse11(data) ==
    Need(data, 2,
        CASE At(data, 1) = 1 -> Need(data, 17, Sensor(data))
          [] At(data, 1) = 2 -> Need(data, 17, Ball(data))
          [] At(data, 1) = 3 -> Need(data, 4, [kind |-> "ack", state |-> DeviceState(At(data, 3))])
          [] At(data, 1) = 4 ->
                Need(data, 7, [kind |-> "alignment", angle |-> Double(i16_at(data, 5), 100)])
          [] At(data, 1) = 6 -> [kind |-> "query", payload |-> SubSeq(data, 3, Len(data))]
          [] At(data, 1) = 7 -> Need(data, 3, ClubNote(data))
          [] OTHER -> Failed("unknown_notification"))

Parse(data) ==
    CASE data = <<>> -> Failed("disconnected")
      [] data # <<>> /\ At(data, 0) = \h91 -> Need(data, 3, Battery(data))
      [] data # <<>> /\ At(data, 0) = \h71 -> Need(data, 9, Clock(data))
      [] data # <<>> /\ At(data, 0) = \h11 -> Parse11(data)
      [] OTHER -> Failed("unknown_family")

-----------------------------------------------------------------------------
(* The encoders of the testing feature. *)

\* Mutant of Wire: the cast alone, without rounding first.
WireTruncated(value, scale) ==
    IF value = NaN THEN 0 ELSE Clamped(Truncated(Scaled(value, scale)))

Wire(value, scale) == IF value = NaN THEN 0 ELSE Clamped(Rounded(Scaled(value, scale)))

ball_notification(ball) ==
    <<\h11, \h02, ball.shot_type>>
    \o LeBytes(Wire(ball.speed, 100)) \o LeBytes(Wire(ball.launch_angle, 100))
    \o LeBytes(Wire(ball.direction, 100)) \o LeBytes(ball.total_spin)
    \o LeBytes(Wire(ball.spin_axis, 100)) \o LeBytes(ball.back_spin)
    \o LeBytes(ball.side_spin)

\* The bytes of eight words, field by field.
FieldBytes(raw) == [k \in 1..16 |-> LeBytes(raw[(k - 1) \div 2])[1 + ((k - 1) % 2)]]

club_notification(club) ==
    LET measured == {i \in Fields : club.field[i] # None}
        raw == [i \in Fields |-> IF i \in measured THEN Wire(club.field[i], FieldScale(i))
                                 ELSE CLUB_SENTINEL]
    IN  <<\h11, \h07, MaskByte[club.mask \cup measured]>> \o FieldBytes(raw)

state_byte(state) ==
    IF state[1] = "Unknown" THEN state[2]
    ELSE CHOOSE v \in 0..6 : StateNames[v + 1] = state[1]

heartbeat_ack(state) == <<\h11, \h03, \h85, state_byte(state), 4, 3, 0, 0, 0>>

query_response(payload) == <<\h11, \h06>> \o payload
=============================================================================
