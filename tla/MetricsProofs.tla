--------------------------- MODULE MetricsProofs ---------------------------
(***************************************************************************)
(* The way of a measurement, for every value that fits in the bytes, every *)
(* mask, every length of a club frame and every calibration: what is       *)
(* encoded parses to the same, field by field, and what reaches a          *)
(* controller is what was measured.  The other way round, the encoders of  *)
(* testing.rs give back the frame that was parsed; with it come the types  *)
(* of all that is kept.                                                    *)
(***************************************************************************)
EXTENDS Metrics, SequenceTheorems, TLAPS

\* The two bytes of a word, read back in the order of the wire, are the word.
LEMMA WordRoundTrip ==
    ASSUME NEW v \in Word
    PROVE  /\ v % 256 \in Byte
           /\ (v \div 256) % 256 \in Byte
           /\ I16((v % 256) + 256 * ((v \div 256) % 256)) = v
  <1>0. v \in Int /\ -32768 <= v /\ v <= 32767
    BY SMT DEF Word
  <1> DEFINE low == v % 256
             high == (v \div 256) % 256
  <1>1. low \in Byte /\ high \in Byte
    BY <1>0, SMT DEF Byte
  <1>2. low + 256 * high = IF v < 0 THEN v + 65536 ELSE v
    BY <1>0, SMT
  <1>3. I16(low + 256 * high) = v
    <2> HIDE DEF low, high
    <2> QED BY <1>0, <1>1, <1>2, SMT DEF I16, Byte
  <1> QED
    BY <1>1, <1>3

\* The mask byte of a set of bits has these bits.
LEMMA MaskRoundTrip ==
    ASSUME NEW S \in SUBSET Fields
    PROVE  MaskByte[S] \in Byte /\ Bits(MaskByte[S]) = S
  <1> DEFINE W(i, w) == IF i \in S THEN w ELSE 0
             b == W(0, 1) + W(1, 2) + W(2, 4) + W(3, 8) + W(4, 16) + W(5, 32) + W(6, 64) + W(7, 128)
  <1>1. b \in Byte
    BY SMT DEF Byte
  <1>2. \A i \in Fields : ((b \div Weight[i + 1]) % 2 = 1) <=> i \in S
    <2>0. ((b \div 1) % 2 = 1) <=> 0 \in S  BY SMT
    <2>1. ((b \div 2) % 2 = 1) <=> 1 \in S  BY SMT
    <2>2. ((b \div 4) % 2 = 1) <=> 2 \in S  BY SMT
    <2>3. ((b \div 8) % 2 = 1) <=> 3 \in S  BY SMT
    <2>4. ((b \div 16) % 2 = 1) <=> 4 \in S  BY SMT
    <2>5. ((b \div 32) % 2 = 1) <=> 5 \in S  BY SMT
    <2>6. ((b \div 64) % 2 = 1) <=> 6 \in S  BY SMT
    <2>7. ((b \div 128) % 2 = 1) <=> 7 \in S  BY SMT
    <2> HIDE DEF b
    <2> SUFFICES ASSUME NEW i \in Fields
                 PROVE  ((b \div Weight[i + 1]) % 2 = 1) <=> i \in S
      OBVIOUS
    <2>8. i \in {0, 1, 2, 3, 4, 5, 6, 7}
      BY SMT DEF Fields
    <2>9. /\ Weight[0 + 1] = 1 /\ Weight[1 + 1] = 2 /\ Weight[2 + 1] = 4 /\ Weight[3 + 1] = 8
          /\ Weight[4 + 1] = 16 /\ Weight[5 + 1] = 32 /\ Weight[6 + 1] = 64 /\ Weight[7 + 1] = 128
      BY SMT DEF Weight
    <2> QED
      BY <2>0, <2>1, <2>2, <2>3, <2>4, <2>5, <2>6, <2>7, <2>8, <2>9
  <1>3. Bits(b) = S
    <2> HIDE DEF b
    <2> QED BY <1>2 DEF Bits
  <1>4. MaskByte[S] = CHOOSE byte \in Byte : Bits(byte) = S
    BY DEF MaskByte
  <1> HIDE DEF b
  <1> QED
    BY <1>1, <1>3, <1>4

-----------------------------------------------------------------------------
BallOf(b) ==
    [kind         |-> "ball",
     shot_type    |-> b.shot_type,
     speed        |-> Double(b.speed, 100),
     launch_angle |-> Double(b.launch_angle, 100),
     direction    |-> Double(b.direction, 100),
     total_spin   |-> b.total_spin,
     spin_axis    |-> Double(b.spin_axis, 100),
     back_spin    |-> b.back_spin,
     side_spin    |-> b.side_spin]

ClubOf(m) ==
    [kind  |-> "club",
     mask  |-> m.valid,
     field |-> [i \in Fields |-> IF Readable(m, i) THEN Meant(m, i) ELSE None]]

\* The scale of a field is what its word means.
LEMMA ScaleOfField ==
    ASSUME NEW i \in Fields
    PROVE  /\ FieldScale(i) = IF RawFaceImpact /\ i \in {4, 5} THEN 1 ELSE 100
           /\ FieldScale(i) \in {1, 100}
  BY DEF FieldScale, IMPACT_SCALE, CLUB_SCALE, ImpactHorizontal, ImpactVertical

\* A word that stands at an offset of a frame is read from there.
LEMMA WordAt ==
    ASSUME NEW v \in Word, NEW data, NEW off \in Nat,
           data[off + 1] = LeBytes(v)[1], data[off + 2] = LeBytes(v)[2]
    PROVE  i16_at(data, off) = v
  <1>1. At(data, off) = v % 256 /\ At(data, off + 1) = (v \div 256) % 256
    BY DEF At, LeBytes
  <1> QED
    BY <1>1, WordRoundTrip DEF i16_at

\* A ball frame parses to what was measured.
LEMMA BallParses ==
    ASSUME NEW b \in BallMeasurement
    PROVE  Parse(BallFrame(b)) = BallOf(b)
  <1> DEFINE F == BallFrame(b)
  <1>1. /\ b.speed \in Word /\ b.launch_angle \in Word /\ b.direction \in Word
        /\ b.total_spin \in Word /\ b.spin_axis \in Word /\ b.back_spin \in Word
        /\ b.side_spin \in Word
    BY DEF BallMeasurement
  <1>2. /\ Len(F) = 17
        /\ F[1] = \h11 /\ F[2] = \h02 /\ F[3] = b.shot_type
        /\ F[4] = LeBytes(b.speed)[1] /\ F[5] = LeBytes(b.speed)[2]
        /\ F[6] = LeBytes(b.launch_angle)[1] /\ F[7] = LeBytes(b.launch_angle)[2]
        /\ F[8] = LeBytes(b.direction)[1] /\ F[9] = LeBytes(b.direction)[2]
        /\ F[10] = LeBytes(b.total_spin)[1] /\ F[11] = LeBytes(b.total_spin)[2]
        /\ F[12] = LeBytes(b.spin_axis)[1] /\ F[13] = LeBytes(b.spin_axis)[2]
        /\ F[14] = LeBytes(b.back_spin)[1] /\ F[15] = LeBytes(b.back_spin)[2]
        /\ F[16] = LeBytes(b.side_spin)[1] /\ F[17] = LeBytes(b.side_spin)[2]
    BY DEF BallFrame, LeBytes
  <1> HIDE DEF F
  <1>3. /\ i16_at(F, 3) = b.speed /\ i16_at(F, 5) = b.launch_angle
        /\ i16_at(F, 7) = b.direction /\ i16_at(F, 9) = b.total_spin
        /\ i16_at(F, 11) = b.spin_axis /\ i16_at(F, 13) = b.back_spin
        /\ i16_at(F, 15) = b.side_spin
    BY <1>1, <1>2, WordAt
  <1>4. Ball(F) = BallOf(b)
    BY <1>2, <1>3 DEF Ball, BallOf, At
  <1>5. Parse11(F) = Ball(F)
    BY <1>2 DEF Parse11, Need, At
  <1>6. F # <<>>
    <2>1. Len(F) # Len(<<>>)
      BY <1>2
    <2> QED
      BY <2>1, Zenon
  <1>7. Parse(F) = Parse11(F)
    BY <1>2, <1>6 DEF Parse, At
  <1> QED
    BY <1>4, <1>5, <1>7 DEF F

\* A club frame, cut anywhere, parses to the fields that are readable in it, if its
\* head is whole.
LEMMA ClubParses ==
    ASSUME NEW m \in ClubMeasurement
    PROVE  IF m.len >= 3 THEN Parse(ClubFrame(m)) = ClubOf(m)
                         ELSE Parse(ClubFrame(m)).kind = "error"
  <1> DEFINE F == ClubFrame(m)
  <1>1. m.valid \in SUBSET Fields /\ m.raw \in [Fields -> Word] /\ m.len \in 0..19
    BY DEF ClubMeasurement
  <1>2. F \in Seq(Byte) /\ Len(F) = m.len
    <2>1. \A k \in 1..m.len : F[k] \in Byte
      <3> SUFFICES ASSUME NEW k \in 1..m.len PROVE F[k] \in Byte
        OBVIOUS
      <3>1. CASE k <= 3
        <4>1. F[k] = <<\h11, \h07, MaskByte[m.valid]>>[k]
          BY <3>1 DEF ClubFrame
        <4> QED
          BY <1>1, <3>1, <4>1, MaskRoundTrip DEF Byte
      <3>2. CASE k > 3
        <4>1. F[k] = FieldBytes(m.raw)[k - 3]
          BY <1>1, <3>2 DEF ClubFrame
        <4>2. (k - 4) \div 2 \in Fields /\ (k - 4) % 2 \in {0, 1}
          BY <1>1, <3>2 DEF Fields
        <4> QED
          BY <1>1, <3>2, <4>1, <4>2, WordRoundTrip DEF FieldBytes, LeBytes
      <3> QED
        BY <1>1, <3>1, <3>2
    <2>2. F \in [1..m.len -> Byte]
      BY <2>1 DEF ClubFrame
    <2>3. F \in Seq(Byte)
      <3> HIDE DEF F
      <3>1. m.len \in Nat
        BY <1>1
      <3> QED
        BY <2>2, <3>1, SeqDef, Zenon
    <2>4. DOMAIN F = 1..Len(F) /\ Len(F) \in Nat
      BY <2>3
    <2>5. 1..m.len = 1..Len(F)
      BY <2>2, <2>4
    <2> QED
      BY <1>1, <2>3, <2>4, <2>5
  <1>3. CASE ~(m.len >= 3)
    <2>1. F # <<>> => F[1] = \h11
      <3>1. m.len = 0 => F = <<>>
        BY <1>2
      <3> QED
        BY <1>1, <3>1 DEF ClubFrame
    <2>2. F # <<>> => Parse11(F).kind = "error"
      BY <1>1, <1>2, <1>3, SMTT(30) DEF Parse11, Need, Failed, At, ClubFrame
    <2>3. Parse(F).kind = "error"
      BY <2>1, <2>2 DEF Parse, Failed, At
    <2> HIDE DEF F
    <2> QED
      BY <1>3, <2>3, Zenon DEF F
  <1>4. CASE m.len >= 3
    <2>1. F # <<>> /\ F[1] = \h11 /\ F[2] = \h07 /\ F[3] = MaskByte[m.valid]
      BY <1>1, <1>2, <1>4, SMTT(30) DEF ClubFrame
    <2>2. Bits(At(F, 2)) = m.valid
      BY <1>1, <2>1, MaskRoundTrip DEF At
    <2>3. ASSUME NEW i \in Fields, ~(m.len - 3 < (i + 1) * 2)
          PROVE  i16_at(F, 3 + 2 * i) = m.raw[i]
      <3>1. i \in Int /\ 0 <= i /\ i <= 7 /\ 4 + 2 * i <= m.len /\ 5 + 2 * i <= m.len
        BY <1>1, <2>3 DEF Fields
      <3>2. /\ (1 + 2 * i - 1) \div 2 = i /\ (1 + 2 * i - 1) % 2 = 0
            /\ (2 + 2 * i - 1) \div 2 = i /\ (2 + 2 * i - 1) % 2 = 1
        BY <3>1
      <3>3. /\ F[4 + 2 * i] = FieldBytes(m.raw)[1 + 2 * i]
            /\ F[5 + 2 * i] = FieldBytes(m.raw)[2 + 2 * i]
        BY <1>1, <3>1 DEF ClubFrame
      <3>4. /\ FieldBytes(m.raw)[1 + 2 * i] = LeBytes(m.raw[i])[1]
            /\ FieldBytes(m.raw)[2 + 2 * i] = LeBytes(m.raw[i])[2]
        BY <3>1, <3>2 DEF FieldBytes
      <3> QED
        BY <1>1, <3>1, <3>3, <3>4, WordAt
    <2>4. ClubNote(F) = ClubOf(m)
      <3>1. ASSUME NEW i \in Fields
            PROVE  (IF Len(F) - 3 < (i + 1) * 2 THEN None
                    ELSE club_field(i16_at(F, 3 + 2 * i), Bits(At(F, 2)), i, FieldScale(i)))
                   = (IF Readable(m, i) THEN Meant(m, i) ELSE None)
        <4>1. (m.len - 3 < (i + 1) * 2) <=> ~(m.len >= 5 + 2 * i)
          BY <1>1, <3>1 DEF Fields
        <4> QED
          BY <1>2, <2>2, <2>3, <3>1, <4>1, ScaleOfField DEF club_field, Readable, Meant
      <3> HIDE DEF F
      <3> QED
        BY <2>2, <3>1 DEF ClubNote, ClubOf
    <2> HIDE DEF F
    <2>5. Parse11(F) = ClubNote(F)
      BY <1>1, <1>2, <1>4, <2>1 DEF Parse11, Need, At
    <2>6. Parse(F) = Parse11(F)
      BY <2>1 DEF Parse, At
    <2>7. Parse(F) = ClubOf(m)
      BY <2>4, <2>5, <2>6
    <2> QED
      BY <1>4, <2>7, Zenon DEF F
  <1> QED
    BY <1>3, <1>4

-----------------------------------------------------------------------------
(* The inductive invariant: what the client and the controller hold is a   *)
(* function of what the device measured.                                   *)
AsCalibrated == ApplyOffset(ClubOf(hit), OffsetFor(active_club))

NoteMeasured == (note # None /\ note.kind = "club") => hit \in ClubSamples /\ note = ClubOf(hit)

BallMeasured ==
    pending_shot # None => ball \in BallSamples /\ pending_shot = BallOf(ball)

ShotMeasured ==
    shot # None =>
        /\ ball \in BallSamples
        /\ hit \in ClubSamples
        /\ shot = [ball |-> BallOf(ball),
                   club |-> IF IsEmpty(AsCalibrated) THEN None ELSE AsCalibrated]

OutMeasured ==
    out # None =>
        /\ ball \in BallSamples
        /\ hit \in ClubSamples
        /\ out = [flight |-> BallFlight(BallOf(ball)),
                  club   |-> IF IsEmpty(AsCalibrated) THEN None ELSE ClubData(AsCalibrated),
                  impact |-> IF IsEmpty(AsCalibrated) THEN None ELSE FaceImpact(AsCalibrated)]

OneAtATime == pending_shot # None => shot = None /\ out = None

UnhitIsClean == ball = None => hit = None /\ pending_shot = None /\ shot = None /\ out = None

MeasuredInv ==
    /\ NoteMeasured
    /\ BallMeasured
    /\ ShotMeasured
    /\ OutMeasured
    /\ OneAtATime
    /\ UnhitIsClean

\* What ApplyOffset leaves in the field i of an answer.
Calibrated(i, offset) ==
    IF ~Readable(hit, i) THEN None
    ELSE IF i # ImpactVertical \/ RawFaceImpact THEN Meant(hit, i)
    ELSE IF offset = None THEN None ELSE Double(hit.raw[i] + offset, 100)

\* The words of a ball are numbers.
LEMMA BallType ==
    ASSUME NEW b \in BallMeasurement
    PROVE  /\ b.speed \in Int /\ b.launch_angle \in Int /\ b.direction \in Int
           /\ b.total_spin \in Int /\ b.spin_axis \in Int /\ b.side_spin \in Int
           /\ b.back_spin \in Int
  <1>1. /\ b.speed \in Word /\ b.launch_angle \in Word /\ b.direction \in Word
        /\ b.total_spin \in Word /\ b.spin_axis \in Word /\ b.side_spin \in Word
        /\ b.back_spin \in Word
    BY DEF BallMeasurement
  <1>2. Word \subseteq Int
    BY DEF Word
  <1> QED
    BY <1>1, <1>2

\* So are the raw words of a club answer, and its mask is one of fields.
LEMMA RawType ==
    ASSUME hit \in ClubSamples
    PROVE  /\ hit.valid \in SUBSET Fields
           /\ \A i \in Fields : hit.raw[i] \in Int
  <1>1. hit.valid \in SUBSET Fields /\ hit.raw \in [Fields -> Word]
    BY MetricsAssumption DEF MetricsAssumption, ClubMeasurement
  <1>2. Word \subseteq Int
    BY DEF Word
  <1> QED
    BY <1>1, <1>2

\* A number over 1 or 100 is a double, and not None.
LEMMA IsDouble ==
    ASSUME NEW n \in Int, NEW d \in {1, 100}
    PROVE  Double(n, d) \in OptDouble /\ Double(n, d) # None
  <1>1. Double(n, d) \in [num : Int, den : {1, 100}]
    BY DEF Double
  <1> QED
    BY <1>1, MetricsAssumption DEF OptDouble, MetricsAssumption

\* So is what a readable field means.
LEMMA MeantIsDouble ==
    ASSUME hit \in ClubSamples, NEW i \in Fields
    PROVE  Meant(hit, i) \in OptDouble /\ Meant(hit, i) # None
  BY RawType, IsDouble DEF Meant

\* What the offset leaves of the parsed fields.
LEMMA CalibratedShape ==
    ASSUME hit \in ClubSamples, NEW offset \in OptInt
    PROVE  ApplyOffset(ClubOf(hit), offset) =
               [kind |-> "club", mask |-> hit.valid,
                field |-> [i \in Fields |-> Calibrated(i, offset)]]
  <1> DEFINE c == ClubOf(hit)
             read(i) == IF Readable(hit, i) THEN Meant(hit, i) ELSE None
             above == IF read(ImpactVertical) = None \/ offset = None THEN None
                      ELSE Above(read(ImpactVertical), offset)
  <1>1. ImpactVertical \in Fields
    BY DEF ImpactVertical, Fields
  <1>2. c.field = [i \in Fields |-> read(i)]
    BY DEF ClubOf
  <1>3. c.field[ImpactVertical] = read(ImpactVertical)
    BY <1>1, <1>2
  <1>4. ~RawFaceImpact => above = Calibrated(ImpactVertical, offset)
    <2>1. Meant(hit, ImpactVertical) # None
      BY <1>1, MeantIsDouble
    <2>2. ~RawFaceImpact => Meant(hit, ImpactVertical) = Double(hit.raw[ImpactVertical], 100)
      BY DEF Meant
    <2>3. ~RawFaceImpact => Above(Meant(hit, ImpactVertical), offset)
                            = Double(hit.raw[ImpactVertical] + offset, 100)
      BY <2>2 DEF Above, Double
    <2> QED
      BY <2>1, <2>3 DEF Calibrated
  <1>5. ASSUME NEW i \in Fields, i # ImpactVertical \/ RawFaceImpact
        PROVE  read(i) = Calibrated(i, offset)
    BY <1>5 DEF Calibrated
  <1> HIDE DEF read
  <1>6. c = [kind |-> "club", mask |-> hit.valid, field |-> c.field]
    BY DEF ClubOf
  <1> HIDE DEF c
  <1>7. CASE RawFaceImpact
    <2>1. ApplyOffset(c, offset) = c
      BY <1>7 DEF ApplyOffset
    <2>2. c.field = [i \in Fields |-> Calibrated(i, offset)]
      BY <1>2, <1>5, <1>7
    <2> QED
      BY <1>6, <2>1, <2>2 DEF c
  <1>8. CASE ~RawFaceImpact
    <2>1. ApplyOffset(c, offset) = [c EXCEPT !.field[ImpactVertical] = above]
      BY <1>3, <1>8 DEF ApplyOffset
    <2>2. above = Calibrated(ImpactVertical, offset)
      BY <1>4, <1>8
    <2> HIDE DEF above
    <2>3. [c.field EXCEPT ![ImpactVertical] = above] = [i \in Fields |-> Calibrated(i, offset)]
      BY <1>1, <1>2, <1>5, <2>2
    <2>4. [c EXCEPT !.field[ImpactVertical] = above]
          = [kind |-> "club", mask |-> hit.valid,
             field |-> [c.field EXCEPT ![ImpactVertical] = above]]
      BY <1>6
    <2> QED
      BY <2>1, <2>3, <2>4 DEF c
  <1> QED
    BY <1>7, <1>8

\* Club metrics with the offset applied are club metrics, and not None.
LEMMA CalibratedType ==
    ASSUME hit \in ClubSamples, NEW offset \in OptInt
    PROVE  /\ ApplyOffset(ClubOf(hit), offset) \in ClubMetrics
           /\ ApplyOffset(ClubOf(hit), offset) # None
  <1>1. ASSUME NEW i \in Fields PROVE Calibrated(i, offset) \in OptDouble
    <2>1. offset # None => hit.raw[i] + offset \in Int
      BY RawType DEF OptInt
    <2>2. offset # None => Double(hit.raw[i] + offset, 100) \in OptDouble
      BY <2>1, IsDouble
    <2> QED
      BY <2>2, MeantIsDouble DEF Calibrated, OptDouble
  <1>2. ApplyOffset(ClubOf(hit), offset) \in ClubMetrics
    BY <1>1, RawType, CalibratedShape DEF ClubMetrics
  <1> QED
    BY <1>2, MetricsAssumption DEF MetricsAssumption

OffsetTyped == OffsetFor(active_club) \in OptInt

ClientTyped == active_club \in Club \cup {None} /\ calibration \in [Club -> OptInt]

LEMMA ClientTypedImpliesOffset == ClientTyped => OffsetTyped
  BY DEF ClientTyped, OffsetTyped, OffsetFor, OptInt

LEMMA ClientTypedInit == MetricsInit => ClientTyped
  <1> SUFFICES ASSUME MetricsInit PROVE ClientTyped
    OBVIOUS
  <1>1. \A c \in Club : Default[c] \in OptInt
    BY DEF Default, OptInt
  <1>2. Default \in [Club -> OptInt]
    BY <1>1 DEF Default
  <1> QED
    BY <1>2 DEF MetricsInit, ClientTyped

LEMMA ClientTypedStep == ClientTyped /\ [MetricsNext]_metricsVars => ClientTyped'
  <1> SUFFICES ASSUME ClientTyped, [MetricsNext]_metricsVars PROVE ClientTyped'
    OBVIOUS
  <1> USE DEF ClientTyped
  <1>1. ASSUME NEW c \in Club, NEW h \in {"Right", "Left"}, NEW seq \in {0, 255},
               Select(c, h, seq)
        PROVE  ClientTyped'
    BY <1>1 DEF Select
  <1>2. ASSUME NEW table \in Calibrations, Calibrate(table)
        PROVE  ClientTyped'
    BY <1>2, MetricsAssumption DEF Calibrate, MetricsAssumption
  <1>3. ASSUME NEW b \in BallSamples, ReadBall(b)
        PROVE  ClientTyped'
    BY <1>3 DEF ReadBall
  <1>4. ASSUME NEW m \in ClubSamples, ReadClub(m)
        PROVE  ClientTyped'
    BY <1>4 DEF ReadClub
  <1>5. ASSUME NEW f \in OtherFrames, ReadOther(f)
        PROVE  ClientTyped'
    BY <1>5 DEF ReadOther
  <1>6. CASE Forward
    BY <1>6 DEF Forward
  <1>7. CASE UNCHANGED metricsVars
    BY <1>7 DEF metricsVars
  <1> QED
    BY <1>1, <1>2, <1>3, <1>4, <1>5, <1>6, <1>7 DEF MetricsNext

LEMMA MeasuredInit == MetricsInit => MeasuredInv
  BY DEF MetricsInit, MeasuredInv, NoteMeasured, BallMeasured, ShotMeasured, OutMeasured,
         OneAtATime, UnhitIsClean

LEMMA MeasuredStep ==
    MeasuredInv /\ OffsetTyped /\ [MetricsNext]_metricsVars => MeasuredInv'
  <1> SUFFICES ASSUME MeasuredInv, OffsetTyped, [MetricsNext]_metricsVars
               PROVE  MeasuredInv'
    OBVIOUS
  <1> USE DEF MeasuredInv
  <1>1. ASSUME NEW c \in Club, NEW h \in {"Right", "Left"}, NEW seq \in {0, 255},
               Select(c, h, seq)
        PROVE  MeasuredInv'
    BY <1>1 DEF Select, Unhit, NoteMeasured, BallMeasured, ShotMeasured, OutMeasured,
                OneAtATime, UnhitIsClean
  <1>2. ASSUME NEW table \in Calibrations, Calibrate(table)
        PROVE  MeasuredInv'
    BY <1>2 DEF Calibrate, Unhit, NoteMeasured, BallMeasured, ShotMeasured, OutMeasured,
                OneAtATime, UnhitIsClean
  <1>3. ASSUME NEW b \in BallSamples, ReadBall(b)
        PROVE  MeasuredInv'
    <2>1. b \in BallMeasurement /\ b # None
      BY MetricsAssumption DEF MetricsAssumption
    <2>2. note' = BallOf(b) /\ pending_shot' = BallOf(b)
      BY <1>3, <2>1, BallParses DEF ReadBall
    <2>3. BallOf(b).kind = "ball"
      BY DEF BallOf
    <2> QED
      BY <1>3, <2>1, <2>2, <2>3 DEF ReadBall, NoteMeasured, BallMeasured, ShotMeasured,
         OutMeasured, OneAtATime, UnhitIsClean
  <1>4. ASSUME NEW m \in ClubSamples, ReadClub(m)
        PROVE  MeasuredInv'
    <2>1. m \in ClubMeasurement
      BY MetricsAssumption DEF MetricsAssumption
    <2>2. pending_shot # None /\ ball \in BallSamples /\ shot = None /\ out = None
      BY <1>4 DEF ReadClub, BallMeasured, OneAtATime
    <2>3. ball # None
      BY <2>2 DEF UnhitIsClean
    <2>4. CASE note'.kind = "club"
      <3>1. note' = ClubOf(m)
        BY <1>4, <2>1, <2>4, ClubParses DEF ReadClub
      <3>2. shot' = [ball |-> pending_shot,
                     club |-> IF IsEmpty(AsCalibrated') THEN None ELSE AsCalibrated']
        BY <1>4, <2>4, <3>1 DEF ReadClub, AsCalibrated, OffsetFor
      <3>3. pending_shot' = None /\ hit' = m /\ ball' = ball /\ out' = None
        BY <1>4, <2>2, <2>4 DEF ReadClub
      <3> QED
        BY <2>2, <2>3, <3>1, <3>2, <3>3 DEF NoteMeasured, BallMeasured, ShotMeasured,
           OutMeasured, OneAtATime, UnhitIsClean
    <2>5. CASE note'.kind # "club"
      BY <1>4, <2>2, <2>3, <2>5 DEF ReadClub, NoteMeasured, BallMeasured, ShotMeasured,
         OutMeasured, OneAtATime, UnhitIsClean
    <2> QED
      BY <2>4, <2>5
  <1>5. ASSUME NEW f \in OtherFrames, ReadOther(f)
        PROVE  MeasuredInv'
    <2>1. note'.kind # "club"
      BY <1>5, MetricsAssumption DEF ReadOther, MetricsAssumption
    <2> QED
      BY <1>5, <2>1 DEF ReadOther, NoteMeasured, BallMeasured, ShotMeasured, OutMeasured,
         AsCalibrated, OffsetFor, OneAtATime, UnhitIsClean
  <1>6. CASE Forward
    <2>1. /\ shot # None /\ shot' = None /\ pending_shot = None /\ pending_shot' = None
          /\ UNCHANGED <<active_club, calibration, ball, hit, note>>
      BY <1>6 DEF Forward, OneAtATime
    <2>2. AsCalibrated' = AsCalibrated
      BY <2>1 DEF AsCalibrated, OffsetFor
    <2>5. hit \in ClubSamples
      BY <2>1 DEF ShotMeasured
    <2>3. CASE IsEmpty(AsCalibrated)
      <3>1. shot.ball = BallOf(ball) /\ shot.club = None
        BY <2>1, <2>3 DEF ShotMeasured
      <3>2. out' = [flight |-> BallFlight(BallOf(ball)), club |-> None, impact |-> None]
        BY <1>6, <3>1 DEF Forward
      <3> QED
        BY <2>1, <2>2, <2>3, <3>2 DEF NoteMeasured, BallMeasured, ShotMeasured,
           OutMeasured, OneAtATime, UnhitIsClean
    <2>4. CASE ~IsEmpty(AsCalibrated)
      <3>1. shot.ball = BallOf(ball) /\ shot.club = AsCalibrated
        BY <2>1, <2>4 DEF ShotMeasured
      <3>2. AsCalibrated # None
        BY <2>5, CalibratedType DEF AsCalibrated, OffsetTyped
      <3>3. out' = [flight |-> BallFlight(BallOf(ball)), club |-> ClubData(AsCalibrated),
                    impact |-> FaceImpact(AsCalibrated)]
        BY <1>6, <3>1, <3>2 DEF Forward
      <3> QED
        BY <2>1, <2>2, <2>4, <3>3 DEF NoteMeasured, BallMeasured, ShotMeasured,
           OutMeasured, OneAtATime, UnhitIsClean
    <2> QED
      BY <2>3, <2>4
  <1>7. CASE UNCHANGED metricsVars
    BY <1>7 DEF metricsVars, NoteMeasured, BallMeasured, ShotMeasured, OutMeasured,
       AsCalibrated, OffsetFor, OneAtATime, UnhitIsClean
  <1> QED
    BY <1>1, <1>2, <1>3, <1>4, <1>5, <1>6, <1>7 DEF MetricsNext

LEMMA MeasuredAlways == MetricsSpec => [](MeasuredInv /\ OffsetTyped)
  <1>1. MetricsInit => MeasuredInv /\ ClientTyped
    BY MeasuredInit, ClientTypedInit
  <1>2. (MeasuredInv /\ ClientTyped) /\ [MetricsNext]_metricsVars
        => (MeasuredInv /\ ClientTyped)'
    BY MeasuredStep, ClientTypedStep, ClientTypedImpliesOffset
  <1>3. MeasuredInv /\ ClientTyped => MeasuredInv /\ OffsetTyped
    BY ClientTypedImpliesOffset
  <1> QED
    BY <1>1, <1>2, <1>3, PTL DEF MetricsSpec

\* Whatever the device sends, in frames of any length: a club field is parsed to what
\* was measured at its place, or to nothing (protocol.rs parse_11, club_field).
THEOREM FieldsRight == MetricsSpec => []FieldsInPlace
  <1>1. MeasuredInv => FieldsInPlace
    BY DEF MeasuredInv, NoteMeasured, FieldsInPlace, ClubOf
  <1> QED
    BY <1>1, MeasuredAlways, PTL

\* Whatever is measured, calibrated and selected, in both builds: every field that a
\* controller is told, of the ball, of the club and of the impact, is what the device
\* measured, with FRP's signs, and no vertical impact from an unknown center.
THEOREM ToldRight == MetricsSpec => []ToldAsMeasured
  <1>1. ASSUME MeasuredInv, OffsetTyped, out # None
        PROVE  ToldAsMeasured
    <2> DEFINE o == OffsetFor(active_club)
    <2>1. hit \in ClubSamples /\ ball \in BallMeasurement
      BY <1>1, MetricsAssumption DEF MeasuredInv, OutMeasured, MetricsAssumption
    <2>2. ball.side_spin \in Int
      BY <2>1, BallType
    <2>3. out.flight = BallFlight(BallOf(ball))
      BY <1>1 DEF MeasuredInv, OutMeasured
    <2>4. /\ out.flight.launch_speed = Double(ball.speed, 100)
          /\ out.flight.launch_azimuth = Double(ball.direction, 100)
          /\ out.flight.launch_elevation = Double(ball.launch_angle, 100)
          /\ out.flight.backspin_rpm = ball.back_spin
          /\ out.flight.sidespin_rpm = -ball.side_spin
          /\ out.flight.total_spin_rpm \in {ball.total_spin, None}
          /\ out.flight.spin_axis \in {Double(-ball.spin_axis, 100), None}
      BY <2>3 DEF BallFlight, BallOf, Opposite, Double
    <2>5. out.flight.sidespin_rpm + ball.side_spin = 0
      BY <2>2, <2>4
    <2>6. AsCalibrated.field = [i \in Fields |-> Calibrated(i, o)] /\ o \in OptInt
      BY <1>1, <2>1, CalibratedShape DEF AsCalibrated, OffsetTyped
    <2>7. ASSUME out.club # None, NEW i \in ClubFields, out.club[i] # None
          PROVE  Readable(hit, i) /\ out.club[i] = Double(hit.raw[i], 100)
      <3>1. i \in Fields /\ i # ImpactVertical /\ i \notin {4, 5}
        BY DEF ClubFields, ImpactHorizontal, ImpactVertical
      <3>2. out.club = ClubData(AsCalibrated)
        BY <1>1, <2>7 DEF MeasuredInv, OutMeasured
      <3>3. out.club[i] = Calibrated(i, o)
        BY <2>6, <3>1, <3>2 DEF ClubData
      <3> QED
        BY <2>7, <3>1, <3>3 DEF Calibrated, Meant
    <2>8. ASSUME out.impact # None
          PROVE  /\ out.impact.lateral # None =>
                        /\ Readable(hit, ImpactHorizontal)
                        /\ out.impact.lateral =
                              IF RawFaceImpact THEN Double(hit.raw[ImpactHorizontal], 1)
                              ELSE Double(-hit.raw[ImpactHorizontal], 100)
                 /\ out.impact.vertical # None =>
                        /\ Readable(hit, ImpactVertical)
                        /\ VerticalKnown
                        /\ out.impact.vertical =
                              IF RawFaceImpact THEN Double(hit.raw[ImpactVertical], 1)
                              ELSE Double(hit.raw[ImpactVertical] + o, 100)
      <3>1. /\ ImpactHorizontal \in Fields /\ ImpactVertical \in Fields
            /\ ImpactHorizontal # ImpactVertical
            /\ ImpactHorizontal \in {4, 5} /\ ImpactVertical \in {4, 5}
        BY DEF ImpactHorizontal, ImpactVertical, Fields
      <3>2. out.impact = FaceImpact(AsCalibrated)
        BY <1>1, <2>8 DEF MeasuredInv, OutMeasured
      <3>3. /\ out.impact.lateral = Lateral(Calibrated(ImpactHorizontal, o))
            /\ out.impact.vertical = Calibrated(ImpactVertical, o)
        BY <2>6, <2>8, <3>1, <3>2 DEF FaceImpact
      <3>4. /\ Meant(hit, ImpactHorizontal) =
                  Double(hit.raw[ImpactHorizontal], IF RawFaceImpact THEN 1 ELSE 100)
            /\ Meant(hit, ImpactVertical) =
                  Double(hit.raw[ImpactVertical], IF RawFaceImpact THEN 1 ELSE 100)
        BY <3>1 DEF Meant
      <3>5. Opposite(Double(hit.raw[ImpactHorizontal], 100))
            = Double(-hit.raw[ImpactHorizontal], 100)
        BY DEF Opposite, Double
      <3>6. out.impact.lateral # None =>
                /\ Readable(hit, ImpactHorizontal)
                /\ out.impact.lateral =
                      IF RawFaceImpact THEN Double(hit.raw[ImpactHorizontal], 1)
                      ELSE Double(-hit.raw[ImpactHorizontal], 100)
        BY <3>1, <3>3, <3>4, <3>5 DEF Calibrated, Lateral
      <3>7. out.impact.vertical # None =>
                /\ Readable(hit, ImpactVertical)
                /\ VerticalKnown
                /\ out.impact.vertical =
                      IF RawFaceImpact THEN Double(hit.raw[ImpactVertical], 1)
                      ELSE Double(hit.raw[ImpactVertical] + o, 100)
        BY <3>1, <3>3, <3>4 DEF Calibrated, VerticalKnown
      <3> QED
        BY <3>6, <3>7
    <2> QED
      BY <2>4, <2>5, <2>7, <2>8 DEF ToldAsMeasured
  <1>2. MeasuredInv /\ OffsetTyped => ToldAsMeasured
    BY <1>1 DEF ToldAsMeasured
  <1> QED
    BY <1>2, MeasuredAlways, PTL

\* Nor is anything lost that was measured, but for what is_empty, an unknown offset and
\* a ball without total spin take away.
THEOREM NothingIsLost == MetricsSpec => []NothingLost
  <1>1. ASSUME MeasuredInv, OffsetTyped, out # None
        PROVE  NothingLost
    <2> DEFINE o == OffsetFor(active_club)
    <2>1. hit \in ClubSamples /\ ball \in BallMeasurement /\ None \notin Int
      BY <1>1, MetricsAssumption DEF MeasuredInv, OutMeasured, MetricsAssumption
    <2>2. ball.total_spin \in Int /\ -ball.spin_axis \in Int
      BY <2>1, BallType
    <2>3. ball.total_spin > 0 =>
              out.flight.total_spin_rpm # None /\ out.flight.spin_axis # None
      <3>1. Opposite(Double(ball.spin_axis, 100)) = Double(-ball.spin_axis, 100)
        BY DEF Opposite, Double
      <3>2. Double(-ball.spin_axis, 100) # None
        BY <2>2, IsDouble
      <3>3. ball.total_spin > 0 =>
                /\ out.flight.total_spin_rpm = ball.total_spin
                /\ out.flight.spin_axis = Opposite(Double(ball.spin_axis, 100))
        BY <1>1 DEF MeasuredInv, OutMeasured, BallFlight, BallOf
      <3> QED
        BY <2>1, <2>2, <3>1, <3>2, <3>3
    <2>4. AsCalibrated.field = [i \in Fields |-> Calibrated(i, o)] /\ o \in OptInt
      BY <1>1, <2>1, CalibratedShape DEF AsCalibrated, OffsetTyped
    <2>5. \A i \in Fields : hit.raw[i] \in Int
      BY <2>1, RawType
    <2>6. ASSUME NEW i \in Fields, i # ImpactVertical, Readable(hit, i)
          PROVE  AsCalibrated.field[i] # None
      <3>1. Meant(hit, i) # None
        BY <2>1, MeantIsDouble
      <3> QED
        BY <2>4, <2>6, <3>1 DEF Calibrated
    <2>7. {ClubSpeed, Path, FaceAngle} \subseteq Fields \ {ImpactVertical}
      BY DEF ClubSpeed, Path, FaceAngle, Fields, ImpactVertical
    <2>8. ASSUME Tracked(hit)
          PROVE  /\ out.club = ClubData(AsCalibrated)
                 /\ out.impact = FaceImpact(AsCalibrated)
      <3>1. ~IsEmpty(AsCalibrated)
        BY <2>6, <2>7, <2>8 DEF Tracked, IsEmpty
      <3> QED
        BY <1>1, <3>1 DEF MeasuredInv, OutMeasured
    <2>9. ASSUME Tracked(hit)
          PROVE  /\ out.club # None
                 /\ \A i \in ClubFields : Readable(hit, i) => out.club[i] # None
      <3>1. out.club = [i \in ClubFields |-> AsCalibrated.field[i]]
        BY <2>8, <2>9 DEF ClubData
      <3>2. AsCalibrated \in ClubMetrics
        BY <1>1, <2>1, CalibratedType DEF AsCalibrated, OffsetTyped
      <3>3. out.club \in [ClubFields -> OptDouble]
        BY <3>1, <3>2 DEF ClubMetrics, ClubFields
      <3>4. ASSUME NEW i \in ClubFields, Readable(hit, i)
            PROVE  out.club[i] # None
        BY <2>6, <3>1, <3>4 DEF ClubFields
      <3> QED
        BY <3>3, <3>4, MetricsAssumption DEF MetricsAssumption
    <2>10. ASSUME Tracked(hit)
           PROVE  /\ Readable(hit, ImpactHorizontal) =>
                         out.impact # None /\ out.impact.lateral # None
                  /\ Readable(hit, ImpactVertical) /\ VerticalKnown =>
                         out.impact # None /\ out.impact.vertical # None
      <3> DEFINE lateral == AsCalibrated.field[ImpactHorizontal]
                 vertical == AsCalibrated.field[ImpactVertical]
                 pair == [lateral |-> Lateral(lateral), vertical |-> vertical]
      <3>1. /\ ImpactHorizontal \in Fields /\ ImpactVertical \in Fields
            /\ ImpactHorizontal # ImpactVertical
        BY DEF ImpactHorizontal, ImpactVertical, Fields
      <3>2. lateral = Calibrated(ImpactHorizontal, o) /\ vertical = Calibrated(ImpactVertical, o)
        BY <2>4, <3>1
      <3>3. Readable(hit, ImpactHorizontal) => lateral # None
        BY <2>6, <3>1
      <3>4. (Readable(hit, ImpactVertical) /\ VerticalKnown) => vertical # None
        <4>1. o # None => hit.raw[ImpactVertical] + o \in Int
          BY <2>4, <2>5, <3>1 DEF OptInt
        <4>2. o # None => Double(hit.raw[ImpactVertical] + o, 100) # None
          BY <4>1, IsDouble
        <4>3. Meant(hit, ImpactVertical) # None
          BY <2>1, <3>1, MeantIsDouble
        <4> QED
          BY <3>2, <4>2, <4>3 DEF Calibrated, VerticalKnown
      <3>5. lateral \in OptDouble /\ vertical \in OptDouble
        <4>1. AsCalibrated \in ClubMetrics
          BY <1>1, <2>1, CalibratedType DEF AsCalibrated, OffsetTyped
        <4> QED
          BY <3>1, <4>1 DEF ClubMetrics
      <3>6. out.impact = IF lateral = None /\ vertical = None THEN None ELSE pair
        BY <2>8, <2>10 DEF FaceImpact
      <3> HIDE DEF lateral, vertical
      <3>7. Lateral(lateral) \in OptDouble /\ (lateral # None => Lateral(lateral) # None)
        <4>1. ASSUME lateral # None
              PROVE  lateral.num \in Int /\ -lateral.num \in Int /\ lateral.den \in {1, 100}
          BY <3>5, <4>1 DEF OptDouble
        <4>2. lateral # None =>
                  Opposite(lateral) \in OptDouble /\ Opposite(lateral) # None
          BY <4>1, IsDouble DEF Opposite
        <4> QED
          BY <3>5, <4>2 DEF Lateral
      <3>8. pair # None
        <4>1. pair \in Impacts
          BY <3>5, <3>7 DEF Impacts
        <4> QED
          BY <4>1, MetricsAssumption DEF MetricsAssumption
      <3> QED
        BY <3>3, <3>4, <3>6, <3>7, <3>8
    <2> QED
      BY <2>3, <2>9, <2>10 DEF NothingLost
  <1>2. MeasuredInv /\ OffsetTyped => NothingLost
    BY <1>1 DEF NothingLost
  <1> QED
    BY <1>2, MeasuredAlways, PTL

-----------------------------------------------------------------------------
(* The codes of the clubs. *)

\* No two clubs have the same code.
LEMMA CodesDiffer ==
    ASSUME NEW c \in Club, NEW d \in Club, Code[c] = Code[d]
    PROVE  c = d
  BY DEF Club, Code, DriverOnly, WoodHybrid, IronWedge, PutterOnly

\* A code is two bytes.
LEMMA CodePair ==
    ASSUME NEW c \in Club
    PROVE  Code[c] = <<Code[c][1], Code[c][2]>> /\ Len(Code[c]) = 2
  BY DEF Club, Code

\* Whichever club the caller selects and however often: the device takes it from the
\* command's bytes for the one whose offset the client uses (club.rs code, from_code).
THEOREM ClubsUnderstood == MetricsSpec => []ClubUnderstood
  <1>1. MetricsInit => ClubUnderstood
    BY DEF MetricsInit, ClubUnderstood
  <1>2. ClubUnderstood /\ [MetricsNext]_metricsVars => ClubUnderstood'
    <2> SUFFICES ASSUME ClubUnderstood, [MetricsNext]_metricsVars PROVE ClubUnderstood'
      OBVIOUS
    <2> USE DEF ClubUnderstood
    <2>1. ASSUME NEW c \in Club, NEW h \in {"Right", "Left"}, NEW seq \in {0, 255},
                 Select(c, h, seq)
          PROVE  ClubUnderstood'
      <3> DEFINE frame == Encode(SelectClub(c, h), seq)
      <3>1. At(frame, 3) = Code[c][1] /\ At(frame, 4) = Code[c][2]
        BY CodePair DEF Encode, SelectClub, At, TypeByte, COMMAND_LEN
      <3>2. WithCode(<<At(frame, 3), At(frame, 4)>>) = {c}
        BY <3>1, CodePair, CodesDiffer DEF WithCode
      <3> HIDE DEF frame
      <3>3. FromCode(At(frame, 3), At(frame, 4)) = c
        BY <3>2 DEF FromCode
      <3> QED
        BY <2>1, <3>3 DEF Select, frame
    <2>2. CASE \E table \in Calibrations : Calibrate(table)
      BY <2>2 DEF Calibrate
    <2>3. CASE \E b \in BallSamples : ReadBall(b)
      BY <2>3 DEF ReadBall
    <2>4. CASE \E m \in ClubSamples : ReadClub(m)
      BY <2>4 DEF ReadClub
    <2>5. CASE \E f \in OtherFrames : ReadOther(f)
      BY <2>5 DEF ReadOther
    <2>6. CASE Forward
      BY <2>6 DEF Forward
    <2>7. CASE UNCHANGED metricsVars
      BY <2>7 DEF metricsVars
    <2> QED
      BY <2>1, <2>2, <2>3, <2>4, <2>5, <2>6, <2>7 DEF MetricsNext
  <1> QED
    BY <1>1, <1>2, PTL DEF MetricsSpec

-----------------------------------------------------------------------------
(* Types. *)
Measured == ball \in BallSamples \cup {None} /\ hit \in ClubSamples \cup {None}

LEMMA MeasuredTypeStep == Measured /\ [MetricsNext]_metricsVars => Measured'
  <1> SUFFICES ASSUME Measured, [MetricsNext]_metricsVars PROVE Measured'
    OBVIOUS
  <1> USE DEF Measured
  <1>1. CASE \E c \in Club, h \in {"Right", "Left"}, seq \in {0, 255} : Select(c, h, seq)
    BY <1>1 DEF Select
  <1>2. CASE \E table \in Calibrations : Calibrate(table)
    BY <1>2 DEF Calibrate
  <1>3. CASE \E b \in BallSamples : ReadBall(b)
    BY <1>3 DEF ReadBall
  <1>4. CASE \E m \in ClubSamples : ReadClub(m)
    BY <1>4 DEF ReadClub
  <1>5. CASE \E f \in OtherFrames : ReadOther(f)
    BY <1>5 DEF ReadOther
  <1>6. CASE Forward
    BY <1>6 DEF Forward
  <1>7. CASE UNCHANGED metricsVars
    BY <1>7 DEF metricsVars
  <1> QED
    BY <1>1, <1>2, <1>3, <1>4, <1>5, <1>6, <1>7 DEF MetricsNext

\* What the controller gets of a club is hundredths for each field, or nothing.
LEMMA ForwardedWords ==
    ASSUME hit \in ClubSamples, NEW offset \in OptInt
    PROVE  ClubData(ApplyOffset(ClubOf(hit), offset)) \in [ClubFields -> Hundredth \cup {None}]
  <1> DEFINE c == ApplyOffset(ClubOf(hit), offset)
  <1>1. c.field = [i \in Fields |-> Calibrated(i, offset)]
    BY CalibratedShape
  <1>2. hit.raw \in [Fields -> Word]
    BY MetricsAssumption DEF MetricsAssumption, ClubMeasurement
  <1>3. ASSUME NEW i \in ClubFields PROVE c.field[i] \in Hundredth \cup {None}
    <2>1. i \in Fields /\ i # ImpactVertical /\ i \notin {4, 5}
      BY DEF ClubFields, ImpactHorizontal, ImpactVertical
    <2>2. c.field[i] = Calibrated(i, offset)
      BY <1>1, <2>1
    <2>3. hit.raw[i] \in Word
      BY <1>2, <2>1
    <2> QED
      BY <2>1, <2>2, <2>3 DEF Calibrated, Meant, Double, Hundredth
  <1> HIDE DEF c
  <1> QED
    BY <1>3 DEF ClubData, c

\* What is parsed of a ball has its types, and so have the contents of the envelope.
LEMMA TypedBall ==
    ASSUME NEW b \in BallMeasurement
    PROVE  BallOf(b) \in BallMetrics /\ BallFlight(BallOf(b)) \in Flights
  <1>1. ASSUME NEW v \in Word PROVE Double(v, 100) \in Hundredth
    BY DEF Double, Hundredth
  <1>2. /\ b.shot_type \in Byte
        /\ b.speed \in Word /\ b.launch_angle \in Word /\ b.direction \in Word
        /\ b.total_spin \in Word /\ b.spin_axis \in Word /\ b.back_spin \in Word
        /\ b.side_spin \in Word
    BY DEF BallMeasurement
  <1>3. BallOf(b) \in BallMetrics
    BY <1>1, <1>2 DEF BallOf, BallMetrics
  <1>4. -b.side_spin \in Int /\ -b.spin_axis \in Int /\ b.total_spin \in OptInt
    BY BallType DEF OptInt
  <1>5. Opposite(BallOf(b).spin_axis) \in OptDouble
    <2>1. Opposite(BallOf(b).spin_axis) = Double(-b.spin_axis, 100)
      BY DEF BallOf, Opposite, Double
    <2> QED
      BY <1>4, <2>1, IsDouble
  <1>6. None \in OptInt /\ None \in OptDouble
    BY DEF OptInt, OptDouble
  <1>7. BallFlight(BallOf(b)) \in Flights
    <2> DEFINE axis == Opposite(BallOf(b).spin_axis)
    <2>1. BallFlight(BallOf(b)) =
              [launch_speed |-> Double(b.speed, 100),
               launch_azimuth |-> Double(b.direction, 100),
               launch_elevation |-> Double(b.launch_angle, 100),
               backspin_rpm |-> b.back_spin, sidespin_rpm |-> -b.side_spin,
               total_spin_rpm |-> IF b.total_spin > 0 THEN b.total_spin ELSE None,
               spin_axis |-> IF b.total_spin > 0 THEN axis ELSE None]
      BY DEF BallFlight, BallOf
    <2> HIDE DEF axis
    <2>2. axis \in OptDouble
      BY <1>5 DEF axis
    <2> QED
      BY <1>1, <1>2, <1>4, <1>6, <2>1, <2>2 DEF Flights
  <1> QED
    BY <1>3, <1>7

\* Types: what is parsed fits an i16 or hundredths of it, what is forwarded is a number or absent
\* (protocol.rs BallMetrics and ClubMetrics, convert.rs).
THEOREM MetricsTypeCorrect == MetricsSpec => []MetricsTypeOK
  <1>1. MetricsInit => Measured
    BY DEF MetricsInit, Measured
  <1>2. ASSUME MeasuredInv, Measured, ClientTyped, ClubUnderstood
        PROVE  MetricsTypeOK
    <2>1. \A b \in BallSamples :
              /\ BallOf(b) \in BallMetrics
              /\ BallFlight(BallOf(b)) \in Flights
      BY MetricsAssumption, TypedBall DEF MetricsAssumption
    <2>2. pending_shot # None => pending_shot \in BallMetrics
      BY <1>2, <2>1 DEF MeasuredInv, BallMeasured
    <2>3. OffsetFor(active_club) \in OptInt
      BY <1>2, ClientTypedImpliesOffset DEF OffsetTyped
    <2>4. shot # None => /\ shot.ball \in BallMetrics
                         /\ shot.club # None => shot.club \in ClubMetrics
      <3>1. ASSUME shot # None
            PROVE  /\ ball \in BallSamples /\ hit \in ClubSamples
                   /\ shot.ball = BallOf(ball) /\ shot.club \in {None, AsCalibrated}
        BY <1>2, <3>1 DEF MeasuredInv, ShotMeasured
      <3>2. hit \in ClubSamples => AsCalibrated \in ClubMetrics
        BY <2>3, CalibratedType DEF AsCalibrated
      <3> QED
        BY <2>1, <3>1, <3>2
    <2>5. out # None => /\ out.flight \in Flights
                        /\ out.club # None => out.club \in [ClubFields -> Hundredth \cup {None}]
      <3>1. ASSUME out # None
            PROVE  /\ ball \in BallSamples /\ hit \in ClubSamples
                   /\ out.flight = BallFlight(BallOf(ball))
                   /\ out.club \in {None, ClubData(AsCalibrated)}
        BY <1>2, <3>1 DEF MeasuredInv, OutMeasured
      <3>2. hit \in ClubSamples => ClubData(AsCalibrated) \in [ClubFields -> Hundredth \cup {None}]
        BY <2>3, ForwardedWords DEF AsCalibrated
      <3> QED
        BY <2>1, <3>1, <3>2
    <2>6. /\ active_club \in Club \cup {None} /\ understood \in Club \cup {None}
          /\ calibration \in [Club -> OptInt]
          /\ ball \in BallSamples \cup {None} /\ hit \in ClubSamples \cup {None}
      BY <1>2 DEF ClientTyped, ClubUnderstood, Measured
    <2> QED
      BY <2>2, <2>4, <2>5, <2>6 DEF MetricsTypeOK
  <1>3. MetricsInit => ClientTyped
    BY ClientTypedInit
  <1> QED
    BY <1>1, <1>2, <1>3, MeasuredTypeStep, ClientTypedStep, MeasuredAlways, ClubsUnderstood, PTL
       DEF MetricsSpec

-----------------------------------------------------------------------------
(***************************************************************************)
(* The encoders of the testing feature are the inverse of `parse` on       *)
(* whatever `parse` returned: what was parsed of any frame, encoded,       *)
(* parses to the same.                                                     *)
(***************************************************************************)

\* The deviation is one of three.
LEMMA DeviationSide == \A v : Deviation(v) \in {-1, 0, 1}
  BY DEF Deviation

\* A product that lies within a unit of the last place of a word is rounded to it, on
\* whichever side of the word it is.
LEMMA RoundedOfProduct ==
    ASSUME NEW v \in Int, NEW d \in {1, 100}, NEW p, p.num = v * d, p.den = d,
           p.off \in {-1, 0, 1}
    PROVE  Rounded(p) = v
  <1> DEFINE a == IF v < 0 THEN -v ELSE v
             c == IF p.off < 0 THEN 1 ELSE 0
  <1>1. a \in Nat /\ c \in {0, 1} /\ (v * d < 0 <=> v < 0)
    OBVIOUS
  <1>2. WithSign(v * d, v * d) = a * d
    BY <1>1 DEF WithSign
  <1>3. WithSign(v * d, a) = v
    BY <1>1 DEF WithSign
  <1> HIDE DEF a
  <1>4. (2 * (a * d) - c + d) \div (2 * d) = a
    <2>1. CASE d = 1
      BY <1>1, <2>1
    <2>2. CASE d = 100
      BY <1>1, <2>2
    <2> QED
      BY <2>1, <2>2
  <1>5. Rounded(p) = WithSign(p.num, (2 * WithSign(p.num, p.num) - c + p.den) \div (2 * p.den))
    BY DEF Rounded
  <1> QED
    BY <1>2, <1>3, <1>4, <1>5

\* A word that parse divided by a scale is the word again.
LEMMA WireOfWord ==
    ASSUME NEW v \in Word, NEW d \in {1, 100}
    PROVE  Wire(Double(v, d), d) = v
  <1>1. v \in Int /\ -32768 <= v /\ v <= 32767
    BY DEF Word
  <1>2. Double(v, d) # NaN
    <2>1. Double(v, d).den # NaN.den
      BY DEF Double, NaN
    <2> QED
      BY <2>1
  <1>3. /\ Scaled(Double(v, d), d).num = v * d /\ Scaled(Double(v, d), d).den = d
        /\ Scaled(Double(v, d), d).off \in {-1, 0, 1}
    BY DeviationSide DEF Scaled, Double
  <1>4. Rounded(Scaled(Double(v, d), d)) = v
    <2>1. v \in Int
      BY <1>1
    <2> QED
      BY <1>3, <2>1, RoundedOfProduct, Zenon
  <1>5. Clamped(v) = v
    BY <1>1 DEF Clamped
  <1> QED
    BY <1>2, <1>4, <1>5 DEF Wire

LEMMA BallReencodes ==
    ASSUME NEW b \in BallMeasurement
    PROVE  Parse(ball_notification(BallOf(b))) = BallOf(b)
  <1>1. /\ b.speed \in Word /\ b.launch_angle \in Word /\ b.direction \in Word
        /\ b.spin_axis \in Word
    BY DEF BallMeasurement
  <1>2. /\ Wire(Double(b.speed, 100), 100) = b.speed
        /\ Wire(Double(b.launch_angle, 100), 100) = b.launch_angle
        /\ Wire(Double(b.direction, 100), 100) = b.direction
        /\ Wire(Double(b.spin_axis, 100), 100) = b.spin_axis
    BY <1>1, WireOfWord
  <1>3. /\ BallOf(b).shot_type = b.shot_type /\ BallOf(b).speed = Double(b.speed, 100)
        /\ BallOf(b).launch_angle = Double(b.launch_angle, 100)
        /\ BallOf(b).direction = Double(b.direction, 100)
        /\ BallOf(b).total_spin = b.total_spin
        /\ BallOf(b).spin_axis = Double(b.spin_axis, 100)
        /\ BallOf(b).back_spin = b.back_spin /\ BallOf(b).side_spin = b.side_spin
    BY DEF BallOf
  <1>4. ball_notification(BallOf(b)) = BallFrame(b)
    BY <1>2, <1>3 DEF ball_notification, BallFrame
  <1> QED
    BY <1>4, BallParses

\* A frame from its head and the rest.
LEMMA Joined ==
    ASSUME NEW S, NEW s \in Seq(S), NEW t \in Seq(S)
    PROVE  s \o t = [k \in 1..(Len(s) + Len(t)) |->
                        IF k <= Len(s) THEN s[k] ELSE t[k - Len(s)]]
  <1> DEFINE m == Len(s)
             n == Len(s) + Len(t)
             g == [k \in 1..n |-> IF k <= m THEN s[k] ELSE t[k - m]]
  <1>1. /\ s \o t \in Seq(S) /\ Len(s \o t) = n /\ n \in Nat /\ m \in Nat
        /\ \A k \in 1..n : (s \o t)[k] = IF k <= m THEN s[k] ELSE t[k - m]
    BY ConcatProperties
  <1>2. g \in Seq(S) /\ Len(g) = n
    <2>1. \A k \in 1..n : g[k] \in S
      BY <1>1
    <2>2. g \in [1..n -> S]
      BY <2>1
    <2>3. n \in Nat
      BY <1>1
    <2> HIDE DEF g, n
    <2>4. g \in Seq(S)
      BY <2>2, <2>3, SeqDef, Zenon
    <2> QED
      BY <2>2, <2>3, <2>4
  <1>3. \A k \in 1..n : (s \o t)[k] = g[k]
    BY <1>1
  <1> HIDE DEF g
  <1>4. s \o t = g
    BY <1>1, <1>2, <1>3, SeqEqual
  <1> QED
    BY <1>4 DEF g

\* What follows the two bytes of a head is read back as it was.
LEMMA Behind ==
    ASSUME NEW S, NEW a \in S, NEW b \in S, NEW p \in Seq(S)
    PROVE  LET F == <<a, b>> \o p IN
           /\ Len(F) >= 2 /\ Len(F) \in Nat /\ F # <<>> /\ F[1] = a /\ F[2] = b
           /\ SubSeq(F, 3, Len(F)) = p
  <1> DEFINE F == <<a, b>> \o p
  <1>1. /\ F \in Seq(S) /\ Len(F) = 2 + Len(p) /\ Len(p) \in Nat
        /\ F[1] = a /\ F[2] = b
        /\ \A k \in 1..Len(p) : F[k + 2] = p[k]
    OBVIOUS
  <1> HIDE DEF F
  <1>2. SubSeq(F, 3, Len(F)) = p
    <2>1. /\ Len(SubSeq(F, 3, Len(F))) = Len(p) /\ SubSeq(F, 3, Len(F)) \in Seq(S)
          /\ \A k \in 1..Len(p) : SubSeq(F, 3, Len(F))[k] = F[k + 2]
      BY <1>1
    <2> QED
      BY <1>1, <2>1, SeqEqual
  <1> QED
    BY <1>1, <1>2 DEF F

\* The fields that were measured, encoded with the sentinel for the rest.
LEMMA ClubReencodes ==
    ASSUME NEW m \in ClubMeasurement
    PROVE  Parse(club_notification(ClubOf(m))) = ClubOf(m)
  <1> DEFINE measured == {i \in Fields : Readable(m, i)}
             raw == [i \in Fields |-> IF i \in measured THEN m.raw[i] ELSE CLUB_SENTINEL]
             whole == [valid |-> m.valid, raw |-> raw, len |-> 19]
  <1>1. m.valid \in SUBSET Fields /\ m.raw \in [Fields -> Word]
    BY DEF ClubMeasurement
  <1>2. CLUB_SENTINEL \in Word
    BY DEF CLUB_SENTINEL, Word
  <1>3. raw \in [Fields -> Word]
    BY <1>1, <1>2
  <1>4. whole \in ClubMeasurement
    BY <1>1, <1>3 DEF ClubMeasurement
  <1>5. \A i \in Fields : Meant(m, i) = Double(m.raw[i], FieldScale(i)) /\ Meant(m, i) # None
    <2>1. \A i \in Fields : m.raw[i] \in Int
      BY <1>1 DEF Word
    <2>2. \A i \in Fields : Meant(m, i) = Double(m.raw[i], FieldScale(i))
      BY ScaleOfField DEF Meant
    <2>3. \A i \in Fields : Double(m.raw[i], FieldScale(i)) # None
      BY <2>1, ScaleOfField, IsDouble
    <2> QED
      BY <2>2, <2>3
  <1>6. {i \in Fields : ClubOf(m).field[i] # None} = measured
    BY <1>5 DEF ClubOf
  <1>7. [i \in Fields |-> IF i \in measured THEN Wire(ClubOf(m).field[i], FieldScale(i))
                          ELSE CLUB_SENTINEL] = raw
    <2> SUFFICES ASSUME NEW i \in Fields
                 PROVE  (IF i \in measured THEN Wire(ClubOf(m).field[i], FieldScale(i))
                         ELSE CLUB_SENTINEL) = raw[i]
      OBVIOUS
    <2>1. CASE i \in measured
      <3>1. ClubOf(m).field[i] = Double(m.raw[i], FieldScale(i)) /\ m.raw[i] \in Word
        BY <1>1, <1>5, <2>1 DEF ClubOf
      <3>2. Wire(Double(m.raw[i], FieldScale(i)), FieldScale(i)) = m.raw[i]
        BY <3>1, ScaleOfField, WireOfWord
      <3> QED
        BY <2>1, <3>1, <3>2
    <2> QED
      BY <2>1
  <1>8. ClubOf(m).mask = m.valid /\ m.valid \cup measured = m.valid
    BY DEF ClubOf, Readable
  <1> HIDE DEF measured, raw
  <1>9. club_notification(ClubOf(m)) = <<\h11, \h07, MaskByte[m.valid]>> \o FieldBytes(raw)
    BY <1>6, <1>7, <1>8, Zenon DEF club_notification
  <1>10. <<\h11, \h07, MaskByte[m.valid]>> \o FieldBytes(raw) = ClubFrame(whole)
    <2> DEFINE head == <<\h11, \h07, MaskByte[m.valid]>>
               tail == FieldBytes(raw)
    <2>1. tail \in Seq(Byte) /\ Len(tail) = 16
      <3>1. \A k \in 1..16 : tail[k] \in Byte
        <4> SUFFICES ASSUME NEW k \in 1..16 PROVE tail[k] \in Byte
          OBVIOUS
        <4>1. (k - 1) \div 2 \in Fields /\ (k - 1) % 2 \in {0, 1}
          BY DEF Fields
        <4>2. raw[(k - 1) \div 2] \in Word
          BY <1>3, <4>1
        <4> QED
          BY <4>1, <4>2, WordRoundTrip DEF FieldBytes, LeBytes
      <3>2. tail \in [1..16 -> Byte]
        BY <3>1 DEF FieldBytes
      <3> HIDE DEF tail
      <3>3. tail \in Seq(Byte)
        BY <3>2, SeqDef, Zenon
      <3>4. DOMAIN tail = 1..Len(tail) /\ Len(tail) \in Nat
        BY <3>3
      <3> QED
        BY <3>2, <3>3, <3>4
    <2>2. head \in Seq(Byte) /\ Len(head) = 3
      BY <1>1, MaskRoundTrip DEF Byte
    <2>3. whole.len = Len(head) + Len(tail) /\ whole.valid = m.valid /\ whole.raw = raw
      BY <2>1, <2>2
    <2> HIDE DEF whole
    <2>4. ClubFrame(whole) = [k \in 1..whole.len |-> IF k <= 3 THEN head[k] ELSE tail[k - 3]]
      BY <2>3 DEF ClubFrame
    <2> HIDE DEF head, tail
    <2>5. head \in Seq(Byte) /\ tail \in Seq(Byte)
      BY <2>1, <2>2
    <2>6. head \o tail = [k \in 1..(Len(head) + Len(tail)) |->
                             IF k <= Len(head) THEN head[k] ELSE tail[k - Len(head)]]
      BY <2>5, Joined, Zenon
    <2>7. head \o tail = ClubFrame(whole)
      BY <2>2, <2>3, <2>4, <2>6, Zenon
    <2> QED
      BY <2>7 DEF head, tail
  <1>11. Parse(ClubFrame(whole)) = ClubOf(whole)
    <2>1. whole.len >= 3
      OBVIOUS
    <2> HIDE DEF whole
    <2> QED
      BY <1>4, <2>1, ClubParses
  <1>12. ClubOf(whole) = ClubOf(m)
    <2>1. ASSUME NEW i \in Fields
          PROVE  (IF Readable(whole, i) THEN Meant(whole, i) ELSE None)
                 = (IF Readable(m, i) THEN Meant(m, i) ELSE None)
      <3>1. 19 >= 5 + 2 * i
        BY DEF Fields
      <3>2. Readable(m, i) => raw[i] = m.raw[i] /\ raw[i] # CLUB_SENTINEL /\ i \in m.valid
        BY DEF Readable, raw, measured
      <3>3. ~Readable(m, i) => raw[i] = CLUB_SENTINEL
        BY DEF raw, measured
      <3>4. /\ whole.valid = m.valid /\ whole.raw = raw /\ whole.len = 19
        OBVIOUS
      <3> QED
        BY <3>1, <3>2, <3>3, <3>4 DEF Readable, Meant
    <2>2. whole.valid = m.valid
      OBVIOUS
    <2> HIDE DEF whole
    <2> QED
      BY <2>1, <2>2 DEF ClubOf
  <1> QED
    BY <1>9, <1>10, <1>11, <1>12

\* A state byte survives the name it is given.
LEMMA StateRoundTrip ==
    ASSUME NEW v \in Byte
    PROVE  state_byte(DeviceState(v)) = v
  <1>1. CASE v < 7
    <2>1. v \in 0..6
      BY <1>1 DEF Byte
    <2>2. DeviceState(v) = <<StateNames[v + 1]>>
      BY <1>1 DEF DeviceState
    <2>3. StateNames[v + 1] # "Unknown"
      BY <2>1 DEF StateNames
    <2>4. \A w \in 0..6 : StateNames[w + 1] = StateNames[v + 1] => w = v
      BY <2>1 DEF StateNames
    <2>5. state_byte(DeviceState(v)) = CHOOSE w \in 0..6 : StateNames[w + 1] = StateNames[v + 1]
      BY <2>2, <2>3 DEF state_byte
    <2> QED
      BY <2>1, <2>4, <2>5
  <1>2. CASE ~(v < 7)
    BY <1>2 DEF DeviceState, state_byte
  <1> QED
    BY <1>1, <1>2

LEMMA AckReencodes ==
    ASSUME NEW v \in Byte
    PROVE  Parse(heartbeat_ack(DeviceState(v))) = [kind |-> "ack", state |-> DeviceState(v)]
  <1> DEFINE F == heartbeat_ack(DeviceState(v))
  <1>1. F = <<\h11, \h03, \h85, v, 4, 3, 0, 0, 0>>
    BY StateRoundTrip DEF heartbeat_ack
  <1>2. F[1] = \h11 /\ F[2] = \h03 /\ F[4] = v /\ Len(F) = 9 /\ F # <<>>
    BY <1>1
  <1> HIDE DEF F
  <1>3. Parse11(F) = [kind |-> "ack", state |-> DeviceState(v)]
    BY <1>2 DEF Parse11, Need, At
  <1> QED
    BY <1>2, <1>3 DEF Parse, At, F

LEMMA QueryReencodes ==
    ASSUME NEW p \in Seq(Byte)
    PROVE  Parse(query_response(p)) = [kind |-> "query", payload |-> p]
  <1> DEFINE F == query_response(p)
  <1>1. \h11 \in Byte /\ \h06 \in Byte
    BY DEF Byte
  <1>2. F = <<\h11, \h06>> \o p
    BY DEF query_response
  <1>3. /\ Len(F) >= 2 /\ Len(F) \in Nat /\ F # <<>> /\ F[1] = \h11 /\ F[2] = \h06
        /\ SubSeq(F, 3, Len(F)) = p
    BY <1>1, <1>2, Behind
  <1> HIDE DEF F
  <1>4. /\ ~(Len(F) < 2) /\ At(F, 1) = 6 /\ At(F, 0) = \h11
    BY <1>3 DEF At
  <1>5. Parse11(F) = [kind |-> "query", payload |-> SubSeq(F, 3, Len(F))]
    BY <1>4 DEF Parse11, Need
  <1>6. Parse(F) = Parse11(F)
    BY <1>3, <1>4 DEF Parse
  <1> QED
    BY <1>3, <1>5, <1>6 DEF F

\* An ack or a query response that parse returns holds bytes of the frame.
LEMMA OtherParses ==
    ASSUME NEW f \in Seq(Byte)
    PROVE  /\ Parse(f).kind = "ack" =>
                 \E v \in Byte : Parse(f) = [kind |-> "ack", state |-> DeviceState(v)]
           /\ Parse(f).kind = "query" =>
                 \E p \in Seq(Byte) : Parse(f) = [kind |-> "query", payload |-> p]
  <1>1. /\ Failed("truncated").kind = "error" /\ Failed("disconnected").kind = "error"
        /\ Failed("unknown_notification").kind = "error"
        /\ Failed("unknown_family").kind = "error"
        /\ Battery(f).kind = "battery" /\ Clock(f).kind = "clock" /\ Sensor(f).kind = "sensor"
        /\ Ball(f).kind = "ball" /\ ClubNote(f).kind = "club"
        /\ [kind |-> "alignment", angle |-> Double(i16_at(f, 5), 100)].kind = "alignment"
    BY DEF Failed, Battery, Clock, Sensor, Ball, ClubNote
  <1>2. CASE Parse(f) # Parse11(f)
    <2>1. Parse(f).kind \in {"error", "battery", "clock"}
      <3>1. \/ Parse(f) = Failed("disconnected") \/ Parse(f) = Failed("truncated")
            \/ Parse(f) = Failed("unknown_family") \/ Parse(f) = Battery(f)
            \/ Parse(f) = Clock(f)
        BY <1>2 DEF Parse, Need
      <3> QED
        BY <1>1, <3>1
    <2> QED
      BY <2>1
  <1>3. CASE Parse(f) = Parse11(f)
    <2>1. Len(f) \in Nat
      OBVIOUS
    <2>2. \/ Parse11(f) = Failed("truncated") \/ Parse11(f) = Failed("unknown_notification")
          \/ Parse11(f) = Sensor(f) \/ Parse11(f) = Ball(f) \/ Parse11(f) = ClubNote(f)
          \/ Parse11(f) = [kind |-> "alignment", angle |-> Double(i16_at(f, 5), 100)]
          \/ ~(Len(f) < 4) /\ Parse11(f) = [kind |-> "ack", state |-> DeviceState(At(f, 3))]
          \/ ~(Len(f) < 2) /\ Parse11(f) = [kind |-> "query", payload |-> SubSeq(f, 3, Len(f))]
      BY <2>1 DEF Parse11, Need
    <2>3. ~(Len(f) < 4) => At(f, 3) \in Byte
      BY <2>1 DEF At
    <2>4. SubSeq(f, 3, Len(f)) \in Seq(Byte)
      <3>1. \A i \in 3..Len(f) : f[i] \in Byte
        OBVIOUS
      <3> QED
        BY <2>1, <3>1, SubSeqProperties
    <2>5. /\ [kind |-> "ack", state |-> DeviceState(At(f, 3))].kind = "ack"
          /\ [kind |-> "query", payload |-> SubSeq(f, 3, Len(f))].kind = "query"
      OBVIOUS
    <2> QED
      BY <1>1, <1>3, <2>2, <2>3, <2>4, <2>5
  <1> QED
    BY <1>2, <1>3

\* What the last notification was read from.
NoteParsed ==
    note # None =>
        /\ note.kind = "ball" => ball \in BallSamples /\ note = BallOf(ball)
        /\ note.kind = "ack" =>
              \E v \in Byte : note = [kind |-> "ack", state |-> DeviceState(v)]
        /\ note.kind = "query" =>
              \E p \in Seq(Byte) : note = [kind |-> "query", payload |-> p]

LEMMA NoteParsedStep == NoteParsed /\ [MetricsNext]_metricsVars => NoteParsed'
  <1> SUFFICES ASSUME NoteParsed, [MetricsNext]_metricsVars PROVE NoteParsed'
    OBVIOUS
  <1>0. CASE UNCHANGED <<note, ball>>
    BY <1>0 DEF NoteParsed
  <1>1. CASE \E c \in Club, h \in {"Right", "Left"}, seq \in {0, 255} : Select(c, h, seq)
    BY <1>0, <1>1 DEF Select
  <1>2. CASE \E table \in Calibrations : Calibrate(table)
    BY <1>0, <1>2 DEF Calibrate
  <1>3. ASSUME NEW b \in BallSamples, ReadBall(b)
        PROVE  NoteParsed'
    <2>1. b \in BallMeasurement
      BY MetricsAssumption DEF MetricsAssumption
    <2>2. ball' = b /\ note' = BallOf(b)
      BY <1>3, <2>1, BallParses DEF ReadBall
    <2>3. BallOf(b).kind = "ball"
      BY DEF BallOf
    <2> QED
      BY <2>2, <2>3 DEF NoteParsed
  <1>4. ASSUME NEW m \in ClubSamples, ReadClub(m)
        PROVE  NoteParsed'
    <2>1. m \in ClubMeasurement
      BY MetricsAssumption DEF MetricsAssumption
    <2>2. note' = ClubOf(m) \/ note'.kind = "error"
      BY <1>4, <2>1, ClubParses DEF ReadClub
    <2>3. ClubOf(m).kind = "club"
      BY DEF ClubOf
    <2> QED
      BY <2>2, <2>3 DEF NoteParsed
  <1>5. ASSUME NEW f \in OtherFrames, ReadOther(f)
        PROVE  NoteParsed'
    <2>1. f \in Seq(Byte) /\ Parse(f).kind \notin {"ball", "club"}
      BY MetricsAssumption DEF MetricsAssumption
    <2>2. note' = Parse(f)
      BY <1>5 DEF ReadOther
    <2>3. /\ Parse(f).kind = "ack" =>
                 \E v \in Byte : Parse(f) = [kind |-> "ack", state |-> DeviceState(v)]
          /\ Parse(f).kind = "query" =>
                 \E p \in Seq(Byte) : Parse(f) = [kind |-> "query", payload |-> p]
      BY <2>1, OtherParses
    <2> QED
      BY <2>1, <2>2, <2>3 DEF NoteParsed
  <1>6. CASE Forward
    BY <1>0, <1>6 DEF Forward
  <1>7. CASE UNCHANGED metricsVars
    BY <1>0, <1>7 DEF metricsVars
  <1> QED
    BY <1>1, <1>2, <1>3, <1>4, <1>5, <1>6, <1>7 DEF MetricsNext

\* What was parsed of any frame, of whatever values, mask, length and state byte, is
\* encoded to a frame that parses to the same ("every function here is the inverse of
\* the matching parse branch", testing.rs).
THEOREM EncodersInvert == MetricsSpec => []Reencodes
  <1>1. MetricsInit => NoteParsed
    BY DEF MetricsInit, NoteParsed
  <1>2. ASSUME MeasuredInv, NoteParsed, note # None
        PROVE  Reencodes
    <2>1. note.kind = "ball" => Parse(ball_notification(note)) = note
      <3> SUFFICES ASSUME note.kind = "ball" PROVE Parse(ball_notification(note)) = note
        OBVIOUS
      <3>1. ball \in BallMeasurement /\ note = BallOf(ball)
        BY <1>2, MetricsAssumption DEF NoteParsed, MetricsAssumption
      <3> QED
        BY <3>1, BallReencodes
    <2>2. note.kind = "club" => Parse(club_notification(note)) = note
      <3> SUFFICES ASSUME note.kind = "club" PROVE Parse(club_notification(note)) = note
        OBVIOUS
      <3>1. hit \in ClubMeasurement /\ note = ClubOf(hit)
        BY <1>2, MetricsAssumption DEF MeasuredInv, NoteMeasured, MetricsAssumption
      <3> QED
        BY <3>1, ClubReencodes
    <2>3. note.kind = "ack" => Parse(heartbeat_ack(note.state)) = note
      <3> SUFFICES ASSUME note.kind = "ack" PROVE Parse(heartbeat_ack(note.state)) = note
        OBVIOUS
      <3>1. PICK v \in Byte : note = [kind |-> "ack", state |-> DeviceState(v)]
        BY <1>2 DEF NoteParsed
      <3>2. note.state = DeviceState(v)
        BY <3>1
      <3> QED
        BY <3>1, <3>2, AckReencodes
    <2>4. note.kind = "query" => Parse(query_response(note.payload)) = note
      <3> SUFFICES ASSUME note.kind = "query" PROVE Parse(query_response(note.payload)) = note
        OBVIOUS
      <3>1. PICK p \in Seq(Byte) : note = [kind |-> "query", payload |-> p]
        BY <1>2 DEF NoteParsed
      <3>2. note.payload = p
        BY <3>1
      <3> QED
        BY <3>1, <3>2, QueryReencodes
    <2> QED
      BY <2>1, <2>2, <2>3, <2>4 DEF Reencodes
  <1>3. MeasuredInv /\ NoteParsed => Reencodes
    BY <1>2 DEF Reencodes
  <1> QED
    BY <1>1, <1>3, NoteParsedStep, MeasuredAlways, PTL DEF MetricsSpec
=============================================================================
