----------------------------- MODULE ShotProofs -----------------------------
(***************************************************************************)
(* Every shot the client returns has the ball and the club metrics of one  *)
(* shot, each shot is returned once and in order, and Session implements   *)
(* ShotStream: for every value of the constants, by the inductive          *)
(* invariant ShotInv.  With it, doubled notifications act once.            *)
(***************************************************************************)
EXTENDS SessionProofs, SequenceTheorems

USE ShotsAssumption DEF ShotsAssumption

\* The part of the invariant about what is on the way.
Wire == BallsOrdered /\ ClubsOrdered /\ Replayed /\ Announced

WireTypes == /\ evt \in Seq(Frame)
             /\ taken \in Nat
             /\ seen \in Nat

LEMMA WireTypesHold == TypeOK => WireTypes
  BY DEF TypeOK, LinkTypeOK, OmniTypeOK, ClientTypeOK, WireTypes, Shots

\* What is on the way has been taken.
LEMMA WireBounds ==
    ASSUME WireTypes, Wire
    PROVE  /\ seen <= taken
           /\ \A i \in DOMAIN evt :
                /\ evt[i].arg \in Nat
                /\ IsBall(i) => 1 <= evt[i].arg /\ evt[i].arg <= taken
                /\ IsClub(i) => evt[i].arg <= taken
  <1>1. \A i \in DOMAIN evt : evt[i] \in Frame
    BY DEF WireTypes
  <1>2. \A i \in DOMAIN evt : evt[i].arg \in Nat
    BY <1>1 DEF Frame
  <1>3. Announced
    BY DEF Wire
  <1>4. seen <= taken
    BY <1>3 DEF Announced
  <1>5. ASSUME NEW i \in DOMAIN evt
        PROVE  /\ IsBall(i) => 1 <= evt[i].arg /\ evt[i].arg <= taken
               /\ IsClub(i) => evt[i].arg <= taken
    <2>1. /\ IsBall(i) => evt[i].arg \in 1..taken
          /\ IsClub(i) => evt[i].arg <= taken
      BY <1>3 DEF Announced, IsBall, IsClub
    <2> QED BY <2>1 DEF WireTypes
  <1> QED BY <1>2, <1>4, <1>5

\* Reading one notification.
LEMMA WireTail ==
    ASSUME WireTypes, Wire, evt # <<>>, evt' = Tail(evt), UNCHANGED <<taken, link>>,
           \/ evt[1].kind # "ball" /\ seen' = seen
           \/ evt[1].kind = "ball" /\ seen' = evt[1].arg /\ last_rx' = Bytes(evt[1])
    PROVE  Wire' /\ seen <= seen'
  <1>1. /\ Len(evt) \in Nat /\ Len(evt) > 0
        /\ DOMAIN evt = 1..Len(evt) /\ DOMAIN evt' = 1..(Len(evt) - 1)
        /\ \A i \in 1..(Len(evt) - 1) : evt'[i] = evt[i + 1]
        /\ \A i \in 1..Len(evt) : evt[i].arg \in Nat
    <2>1. /\ Len(evt) \in Nat /\ Len(evt) > 0 /\ DOMAIN evt = 1..Len(evt)
      BY DEF WireTypes
    <2>2. /\ Len(Tail(evt)) = Len(evt) - 1
          /\ DOMAIN evt' = 1..(Len(evt) - 1)
          /\ \A i \in 1..(Len(evt) - 1) : evt'[i] = evt[i + 1]
      BY <2>1 DEF WireTypes
    <2> QED BY <2>1, <2>2, WireBounds
  <1>2. seen <= seen' /\ seen' \in Nat
    BY <1>1 DEF Wire, Replayed, WireTypes, IsBall
  <1>3. BallsOrdered'
    BY <1>1, SMTT(30) DEF Wire, BallsOrdered, IsBall
  <1>4. ClubsOrdered'
    <2> SUFFICES ASSUME NEW j \in DOMAIN evt', IsClub(j)'
                 PROVE  /\ seen' <= evt'[j].arg
                        /\ \A i \in DOMAIN evt' : i < j /\ IsBall(i)' =>
                              evt'[i].arg <= evt'[j].arg
                        /\ seen' < evt'[j].arg =>
                             \E i \in DOMAIN evt' : i < j /\ IsBall(i)'
                                                    /\ evt'[i].arg = evt'[j].arg
      BY DEF ClubsOrdered
    <2>1. j + 1 \in DOMAIN evt /\ IsClub(j + 1) /\ evt'[j] = evt[j + 1]
      BY <1>1 DEF IsClub
    <2>2. seen' <= evt'[j].arg
      BY <1>1, <2>1 DEF Wire, ClubsOrdered, IsBall
    <2>3. \A i \in DOMAIN evt' : i < j /\ IsBall(i)' => evt'[i].arg <= evt'[j].arg
      BY <1>1, <2>1 DEF Wire, ClubsOrdered, IsBall
    <2>4. ASSUME seen' < evt'[j].arg
          PROVE  \E i \in DOMAIN evt' : i < j /\ IsBall(i)' /\ evt'[i].arg = evt'[j].arg
      <3>1. seen < evt[j + 1].arg
        BY <1>1, <1>2, <2>1, <2>4 DEF WireTypes
      <3>2. PICK i \in DOMAIN evt : i < j + 1 /\ IsBall(i) /\ evt[i].arg = evt[j + 1].arg
        BY <2>1, <3>1 DEF Wire, ClubsOrdered
      <3>3. i # 1
        BY <1>1, <2>1, <2>4, <3>2 DEF IsBall
      <3>4. i - 1 \in DOMAIN evt' /\ i - 1 < j /\ evt'[i - 1] = evt[i]
        BY <1>1, <3>2, <3>3
      <3> QED BY <2>1, <3>2, <3>4 DEF IsBall
    <2> QED BY <2>2, <2>3, <2>4
  <1>5. Replayed'
    <2> SUFFICES ASSUME NEW i \in DOMAIN evt', IsBall(i)', evt'[i].arg <= seen'
                 PROVE  i = 1 /\ evt'[i].arg = seen' /\ last_rx' = Bytes(evt'[i])
      BY DEF Replayed, Bytes
    <2>1. i + 1 \in DOMAIN evt /\ IsBall(i + 1) /\ evt'[i] = evt[i + 1] /\ i \in Nat \ {0}
      BY <1>1 DEF IsBall
    <2>2. IsBall(1) /\ seen' = evt[1].arg /\ last_rx' = Bytes(evt[1])
      BY <1>1, <2>1 DEF Wire, Replayed, IsBall
    <2>3. evt[1].arg = evt[i + 1].arg /\ i + 1 = 2
      BY <1>1, <2>1, <2>2 DEF Wire, BallsOrdered
    <2>4. Bytes(evt[1]) = Bytes(evt[i + 1])
      BY <2>1, <2>2, <2>3 DEF Bytes, IsBall
    <2> QED BY <2>1, <2>2, <2>3, <2>4
  <1>6. Announced'
    <2>1. seen' <= taken'
      BY <1>1, WireBounds DEF IsBall, WireTypes
    <2>2. /\ \A i \in DOMAIN evt' : IsBall(i)' => evt'[i].arg \in 1..taken'
          /\ \A i \in DOMAIN evt' : IsClub(i)' => evt'[i].arg <= taken'
      BY <1>1 DEF Wire, Announced, IsBall, IsClub
    <2>3. ASSUME link' = "up", seen' < taken'
          PROVE  \E i \in DOMAIN evt' : IsBall(i)' /\ evt'[i].arg = taken'
      <3>1. seen < taken
        BY <1>2, <2>3 DEF WireTypes
      <3>2. PICK i \in DOMAIN evt : IsBall(i) /\ evt[i].arg = taken
        BY <2>3, <3>1 DEF Wire, Announced
      <3>3. i # 1
        BY <2>3, <3>2 DEF IsBall, WireTypes
      <3>4. i - 1 \in DOMAIN evt' /\ evt'[i - 1] = evt[i]
        BY <1>1, <3>2, <3>3
      <3> QED BY <3>2, <3>4 DEF IsBall
    <2> QED BY <2>1, <2>2, <2>3 DEF Announced
  <1> QED BY <1>2, <1>3, <1>4, <1>5, <1>6 DEF Wire

\* The device sends something that is neither a ball nor a club packet.
LEMMA WireOther ==
    ASSUME WireTypes, Wire, NEW f \in Frame, f.kind \notin {"ball", "club"},
           evt' = evt \o <<f, f>>, UNCHANGED <<taken, link, seen, last_rx>>
    PROVE  Wire'
  <1>1. /\ Len(evt) \in Nat /\ DOMAIN evt = 1..Len(evt) /\ DOMAIN evt' = 1..(Len(evt) + 2)
        /\ \A i \in DOMAIN evt : evt'[i] = evt[i]
        /\ \A i \in DOMAIN evt' \ DOMAIN evt : evt'[i] = f
    BY DEF WireTypes
  <1>2. BallsOrdered'
    BY <1>1 DEF Wire, BallsOrdered, IsBall
  <1>3. ClubsOrdered'
    BY <1>1 DEF Wire, ClubsOrdered, IsBall, IsClub
  <1>4. Replayed'
    BY <1>1 DEF Wire, Replayed, IsBall, Bytes
  <1>5. Announced'
    <2>1. seen' <= taken'
      BY WireBounds
    <2>2. /\ \A i \in DOMAIN evt' : IsBall(i)' => evt'[i].arg \in 1..taken'
          /\ \A i \in DOMAIN evt' : IsClub(i)' => evt'[i].arg <= taken'
      BY <1>1 DEF Wire, Announced, IsBall, IsClub
    <2>3. link' = "up" /\ seen' < taken' =>
             \E i \in DOMAIN evt' : IsBall(i)' /\ evt'[i].arg = taken'
      BY <1>1 DEF Wire, Announced, IsBall
    <2> QED BY <2>1, <2>2, <2>3 DEF Announced
  <1> QED BY <1>2, <1>3, <1>4, <1>5 DEF Wire

\* The device sends the club metrics of the last shot taken, asked or unasked.
LEMMA WireClub ==
    ASSUME WireTypes, Wire, link = "up",
           evt' = evt \o <<Frm("club", taken), Frm("club", taken)>>,
           UNCHANGED <<taken, link, seen, last_rx>>
    PROVE  Wire'
  <1> DEFINE f == Frm("club", taken)
  <1>1. /\ Len(evt) \in Nat /\ DOMAIN evt = 1..Len(evt) /\ DOMAIN evt' = 1..(Len(evt) + 2)
        /\ \A i \in DOMAIN evt : evt'[i] = evt[i]
        /\ \A i \in DOMAIN evt' \ DOMAIN evt : evt'[i] = f
    BY DEF WireTypes
  <1>2. f.kind = "club" /\ f.arg = taken
    BY DEF Frm
  <1> HIDE DEF f
  <1>3. BallsOrdered'
    BY <1>1, <1>2 DEF Wire, BallsOrdered, IsBall
  <1>4. ClubsOrdered'
    <2> SUFFICES ASSUME NEW j \in DOMAIN evt', IsClub(j)'
                 PROVE  /\ seen' <= evt'[j].arg
                        /\ \A i \in DOMAIN evt' : i < j /\ IsBall(i)' =>
                              evt'[i].arg <= evt'[j].arg
                        /\ seen' < evt'[j].arg =>
                             \E i \in DOMAIN evt' : i < j /\ IsBall(i)'
                                                    /\ evt'[i].arg = evt'[j].arg
      BY DEF ClubsOrdered
    <2>1. CASE j \in DOMAIN evt
      BY <1>1, <2>1 DEF Wire, ClubsOrdered, IsBall, IsClub
    <2>2. CASE j \notin DOMAIN evt
      <3>1. evt'[j] = f /\ \A i \in DOMAIN evt : i < j
        BY <1>1, <2>2
      <3>2. seen' <= evt'[j].arg
        BY <1>2, <3>1 DEF Wire, Announced
      <3>3. \A i \in DOMAIN evt' : IsBall(i)' => i \in DOMAIN evt /\ IsBall(i)
        BY <1>1, <1>2 DEF IsBall
      <3>4. \A i \in DOMAIN evt : IsBall(i) => evt[i].arg <= taken
        BY WireBounds
      <3>5. seen' < evt'[j].arg => \E i \in DOMAIN evt : IsBall(i) /\ evt[i].arg = taken
        BY <1>2, <3>1 DEF Wire, Announced
      <3> QED BY <1>1, <1>2, <3>1, <3>2, <3>3, <3>4, <3>5 DEF IsBall
    <2> QED BY <2>1, <2>2
  <1>5. Replayed'
    BY <1>1, <1>2 DEF Wire, Replayed, IsBall, Bytes
  <1>6. Announced'
    BY <1>1, <1>2 DEF Wire, Announced, IsBall, IsClub, WireTypes
  <1> QED BY <1>3, <1>4, <1>5, <1>6 DEF Wire

\* The player hits, and the device sends the ball metrics.
LEMMA WireBall ==
    ASSUME WireTypes, Wire,
           evt' = evt \o <<Frm("ball", taken + 1), Frm("ball", taken + 1)>>,
           taken' = taken + 1, UNCHANGED <<link, seen, last_rx>>
    PROVE  Wire'
  <1> DEFINE f == Frm("ball", taken + 1)
  <1>1. /\ Len(evt) \in Nat /\ DOMAIN evt = 1..Len(evt) /\ DOMAIN evt' = 1..(Len(evt) + 2)
        /\ \A i \in DOMAIN evt : evt'[i] = evt[i]
        /\ \A i \in DOMAIN evt' \ DOMAIN evt : evt'[i] = f
    BY DEF WireTypes
  <1>2. f.kind = "ball" /\ f.arg = taken + 1
    BY DEF Frm
  <1> HIDE DEF f
  <1>3. BallsOrdered'
    <2> SUFFICES ASSUME NEW i \in DOMAIN evt', NEW j \in DOMAIN evt',
                        i < j, IsBall(i)', IsBall(j)'
                 PROVE  \/ evt'[i].arg < evt'[j].arg
                        \/ evt'[i].arg = evt'[j].arg /\ j = i + 1
      BY DEF BallsOrdered
    <2>1. CASE j \in DOMAIN evt
      BY <1>1, <2>1 DEF Wire, BallsOrdered, IsBall
    <2>2. CASE i \in DOMAIN evt /\ j \notin DOMAIN evt
      <3>1. IsBall(i) /\ evt'[i] = evt[i] /\ evt'[j].arg = taken + 1
        BY <1>1, <1>2, <2>2 DEF IsBall
      <3> QED BY <2>2, <3>1, WireBounds DEF WireTypes
    <2>3. CASE i \notin DOMAIN evt
      BY <1>1, <1>2, <2>3
    <2> QED BY <2>1, <2>2, <2>3
  <1>4. ClubsOrdered'
    BY <1>1, <1>2 DEF Wire, ClubsOrdered, IsBall, IsClub
  <1>5. Replayed'
    <2> SUFFICES ASSUME NEW i \in DOMAIN evt', IsBall(i)', evt'[i].arg <= seen'
                 PROVE  i = 1 /\ evt'[i].arg = seen' /\ last_rx' = Bytes(evt'[i])
      BY DEF Replayed, Bytes
    <2>1. i \in DOMAIN evt
      BY <1>1, <1>2, WireBounds DEF WireTypes
    <2>2. evt'[i] = evt[i] /\ IsBall(i)
      BY <1>1, <2>1 DEF IsBall
    <2> QED BY <2>1, <2>2 DEF Wire, Replayed, Bytes
  <1>6. Announced'
    <2>1. Len(evt) + 1 \in DOMAIN evt' /\ evt'[Len(evt) + 1] = f
      BY <1>1
    <2>2. seen' <= taken' /\ taken' \in Nat
      BY WireBounds DEF WireTypes
    <2>3. ASSUME NEW i \in DOMAIN evt'
          PROVE  /\ IsBall(i)' => evt'[i].arg \in 1..taken'
                 /\ IsClub(i)' => evt'[i].arg <= taken'
      <3>1. CASE i \in DOMAIN evt
        BY <1>1, <3>1, WireBounds DEF IsBall, IsClub, WireTypes
      <3>2. CASE i \notin DOMAIN evt
        BY <1>1, <1>2, <3>2 DEF IsClub, WireTypes
      <3> QED BY <3>1, <3>2
    <2>4. \E i \in DOMAIN evt' : IsBall(i)' /\ evt'[i].arg = taken'
      BY <1>2, <2>1 DEF IsBall
    <2> QED BY <2>2, <2>3, <2>4 DEF Announced
  <1> QED BY <1>3, <1>4, <1>5, <1>6 DEF Wire

\* The connection goes: a prefix of what was on the way is left, or a teardown.
LEMMA WirePrefix ==
    ASSUME WireTypes, Wire, NEW k \in 0..Len(evt), evt' = SubSeq(evt, 1, k),
           link' # "up", UNCHANGED <<taken, seen, last_rx>>
    PROVE  Wire'
  <1>1. /\ Len(evt) \in Nat /\ DOMAIN evt = 1..Len(evt) /\ DOMAIN evt' = 1..k
        /\ \A i \in DOMAIN evt' : evt'[i] = evt[i] /\ i \in DOMAIN evt
    BY DEF WireTypes
  <1>2. BallsOrdered'
    BY <1>1 DEF Wire, BallsOrdered, IsBall
  <1>3. ClubsOrdered'
    BY <1>1 DEF Wire, ClubsOrdered, IsBall, IsClub
  <1>4. Replayed'
    <2> SUFFICES ASSUME NEW i \in DOMAIN evt', IsBall(i)', evt'[i].arg <= seen'
                 PROVE  i = 1 /\ evt'[i].arg = seen' /\ last_rx' = Bytes(evt'[i])
      BY DEF Replayed, Bytes
    <2>1. i \in DOMAIN evt /\ evt'[i] = evt[i] /\ IsBall(i)
      BY <1>1 DEF IsBall
    <2> QED BY <2>1 DEF Wire, Replayed, Bytes
  <1>5. Announced'
    BY <1>1 DEF Wire, Announced, IsBall, IsClub
  <1> QED BY <1>2, <1>3, <1>4, <1>5 DEF Wire

LEMMA WireTeardown ==
    ASSUME WireTypes, Wire, evt' = Append(evt, Frm("empty", 0)),
           link' # "up", UNCHANGED <<taken, seen, last_rx>>
    PROVE  Wire'
  <1>1. /\ Len(evt) \in Nat /\ DOMAIN evt = 1..Len(evt) /\ DOMAIN evt' = 1..(Len(evt) + 1)
        /\ \A i \in DOMAIN evt : evt'[i] = evt[i]
        /\ evt'[Len(evt) + 1].kind = "empty"
    BY DEF WireTypes, Frm
  <1>2. BallsOrdered'
    BY <1>1 DEF Wire, BallsOrdered, IsBall
  <1>3. ClubsOrdered'
    BY <1>1 DEF Wire, ClubsOrdered, IsBall, IsClub
  <1>4. Replayed'
    <2> SUFFICES ASSUME NEW i \in DOMAIN evt', IsBall(i)', evt'[i].arg <= seen'
                 PROVE  i = 1 /\ evt'[i].arg = seen' /\ last_rx' = Bytes(evt'[i])
      BY DEF Replayed, Bytes
    <2>1. i \in DOMAIN evt /\ evt'[i] = evt[i] /\ IsBall(i)
      BY <1>1 DEF IsBall
    <2> QED BY <2>1 DEF Wire, Replayed, Bytes
  <1>5. Announced'
    BY <1>1 DEF Wire, Announced, IsBall, IsClub
  <1> QED BY <1>2, <1>3, <1>4, <1>5 DEF Wire

-----------------------------------------------------------------------------
\* What the client remembers of shots when it reads one more frame.
LEMMA ReadKeepsShots ==
    ASSUME TypeOK, ShotInv,
           ReadDuplicate \/ ReadBall \/ ReadClub \/ ReadAck \/ ReadNote \/ ReadQuiet,
           UNCHANGED <<taken, link>>
    PROVE  ShotInv'
  <1> DEFINE h == evt[1]
  <1>1. TakeFrame /\ evt # <<>> /\ Head(evt) = h /\ evt' = Tail(evt) /\ 1 \in DOMAIN evt
    <2>1. TakeFrame
      BY DEF ReadDuplicate, ReadBall, ReadClub, ReadAck, ReadNote, ReadQuiet, Accept
    <2>2. evt # <<>> /\ evt' = Tail(evt)
      BY <2>1 DEF TakeFrame
    <2>3. Head(evt) = h /\ 1 \in DOMAIN evt
      BY <2>2 DEF TypeOK, LinkTypeOK
    <2> QED BY <2>1, <2>2, <2>3
  <1>2. last_rx' = Bytes(h)
    BY <1>1 DEF ReadDuplicate, ReadBall, ReadClub, ReadAck, ReadNote, ReadQuiet,
                Accept, IsDuplicate
  <1>3. seen' = IF h.kind = "ball" THEN h.arg ELSE seen
    BY <1>1 DEF TakeFrame
  <1>4. WireTypes /\ Wire
    BY WireTypesHold DEF ShotInv, Wire
  <1>5. Wire' /\ seen <= seen'
    BY <1>1, <1>2, <1>3, <1>4, WireTail
  <1>6. h.kind = "ball" => h.arg \in Nat /\ h.arg > 0 /\ h.arg \in Shots
    <2>1. WellFormed(h)
      BY <1>1 DEF TypeOK, LinkTypeOK
    <2> QED BY <1>1, <1>4, <2>1, WireBounds DEF WellFormed, IsBall, Shots
  <1>7. seen \in Nat /\ \A i \in DOMAIN surfaced : surfaced[i].shot \in 1..seen
    BY <1>4 DEF ShotInv, PendingIsSeen, WireTypes
  <1>8. CASE ReadDuplicate
    <2>1. UNCHANGED <<pending_shot, surfaced>> /\ last_rx = Bytes(h) /\ last_rx' = last_rx
      BY <1>1, <1>8 DEF ReadDuplicate, IsDuplicate
    <2>2. PendingIsSeen'
      <3>1. CASE h.kind # "ball"
        BY <1>3, <2>1, <3>1 DEF ShotInv, PendingIsSeen
      <3>2. CASE h.kind = "ball"
        <4>1. pending_shot = BallBytes[h.arg] /\ seen' = h.arg
          BY <1>3, <1>6, <2>1, <3>2 DEF ShotInv, PendingIsSeen, Bytes
        <4>2. pending_shot # None
          BY <1>6, <3>2, <4>1
        <4>3. \A i \in DOMAIN surfaced : surfaced[i].shot < seen /\ surfaced[i].shot \in 1..seen
          BY <4>2 DEF ShotInv, PendingIsSeen
        <4>4. \A i \in DOMAIN surfaced : surfaced[i].shot < seen' /\ surfaced[i].shot \in 1..seen'
          BY <1>5, <1>6, <1>7, <3>2, <4>1, <4>3
        <4>5. \A n \in Shots : last_rx = <<"ball", BallBytes[n]>> => pending_shot = BallBytes[n]
          BY DEF ShotInv, PendingIsSeen
        <4> QED BY <1>6, <2>1, <3>2, <4>1, <4>4, <4>5 DEF PendingIsSeen
      <3> QED BY <3>1, <3>2
    <2> QED BY <1>5, <2>1, <2>2 DEF ShotInv, Wire, ShotPairing, ShotsInOrder
  <1>9. CASE ReadBall
    <2>1. /\ h.kind = "ball" /\ last_rx # Bytes(h) /\ seen' = h.arg
          /\ pending_shot' = BallBytes[h.arg] /\ surfaced' = surfaced
      BY <1>1, <1>3, <1>9 DEF ReadBall, Accept, IsDuplicate
    <2>2. seen < h.arg
      BY <1>1, <1>6, <1>7, <2>1 DEF ShotInv, Replayed, IsBall
    <2>3. \A i \in DOMAIN surfaced : surfaced[i].shot < seen' /\ surfaced[i].shot \in 1..seen'
      BY <1>6, <1>7, <2>1, <2>2
    <2>4. \A n \in Shots : last_rx' = <<"ball", BallBytes[n]>> => pending_shot' = BallBytes[n]
      BY <1>2, <2>1 DEF Bytes
    <2>5. PendingIsSeen'
      BY <1>6, <2>1, <2>3, <2>4 DEF PendingIsSeen
    <2> QED BY <1>5, <2>1, <2>5 DEF ShotInv, Wire, ShotPairing, ShotsInOrder
  <1>10. CASE ReadClub
    <2>1. h.kind = "club" /\ seen' = seen
      BY <1>1, <1>3, <1>10 DEF ReadClub, Accept
    <2>2. \A n \in Shots : last_rx' # <<"ball", BallBytes[n]>>
      BY <1>2, <2>1 DEF Bytes
    <2>3. CASE surfaced' = surfaced
      <3>1. pending_shot' = pending_shot \/ pending_shot' = None
        BY <1>10 DEF ReadClub
      <3>2. PendingIsSeen'
        BY <1>7, <2>1, <2>2, <2>3, <3>1 DEF ShotInv, PendingIsSeen
      <3> QED BY <1>5, <2>3, <3>2 DEF ShotInv, Wire, ShotPairing, ShotsInOrder
    <2>4. CASE surfaced' # surfaced
      <3> DEFINE e == [shot |-> h.arg, ball |-> pending_shot,
                       club |-> ClubBytes[h.arg], offset |-> active_club]
      <3>1. pending_shot # None /\ surfaced' = Append(surfaced, e) /\ pending_shot' = None
        BY <1>1, <1>10, <2>4 DEF ReadClub
      <3>2. h.arg = seen
        <4>1. seen <= h.arg
          BY <1>1, <2>1 DEF ShotInv, ClubsOrdered, IsClub
        <4>2. ~(seen < h.arg)
          <5>1. \A i \in DOMAIN evt : ~(i < 1)
            BY <1>4 DEF WireTypes
          <5> QED BY <1>1, <2>1, <5>1 DEF ShotInv, ClubsOrdered, IsClub
        <4>3. h.arg \in Nat
          BY <1>1, <1>4, WireBounds
        <4> QED BY <1>7, <4>1, <4>2, <4>3
      <3>3. /\ seen > 0 /\ pending_shot = BallBytes[seen]
            /\ \A i \in DOMAIN surfaced : surfaced[i].shot < seen
        BY <3>1 DEF ShotInv, PendingIsSeen
      <3>4. surfaced \in Seq(ShotEvent)
        BY DEF TypeOK, ClientTypeOK
      <3>5. /\ DOMAIN surfaced' = 1..(Len(surfaced) + 1) /\ Len(surfaced) \in Nat
            /\ DOMAIN surfaced = 1..Len(surfaced)
            /\ \A i \in DOMAIN surfaced : surfaced'[i] = surfaced[i]
            /\ surfaced'[Len(surfaced) + 1] = e
        BY <3>1, <3>4
      <3>6. e.shot = seen /\ e.ball = BallBytes[e.shot] /\ e.club = ClubBytes[e.shot]
        BY <3>2, <3>3
      <3> HIDE DEF e
      <3>7. ShotPairing'
        BY <3>5, <3>6 DEF ShotInv, ShotPairing
      <3>8. ShotsInOrder'
        <4> SUFFICES ASSUME NEW i \in DOMAIN surfaced', NEW j \in DOMAIN surfaced', i < j
                     PROVE  surfaced'[i].shot < surfaced'[j].shot
          BY DEF ShotsInOrder
        <4>1. i \in DOMAIN surfaced /\ surfaced'[i] = surfaced[i]
          BY <3>5
        <4>2. CASE j \in DOMAIN surfaced
          BY <3>5, <4>1, <4>2 DEF ShotInv, ShotsInOrder
        <4>3. CASE j \notin DOMAIN surfaced
          <5>1. surfaced'[j] = e
            BY <3>5, <4>3
          <5> QED BY <3>3, <3>6, <4>1, <5>1
        <4> QED BY <4>2, <4>3
      <3>9. \A i \in DOMAIN surfaced' : surfaced'[i].shot \in 1..seen'
        BY <1>7, <2>1, <3>3, <3>5, <3>6
      <3>10. PendingIsSeen'
        BY <2>2, <3>1, <3>9 DEF PendingIsSeen
      <3> QED BY <1>5, <3>7, <3>8, <3>10 DEF ShotInv, Wire
    <2> QED BY <2>3, <2>4
  <1>11. CASE ReadAck \/ ReadNote \/ ReadQuiet
    <2>1. h.kind # "ball" /\ h.kind # "club" /\ UNCHANGED <<pending_shot, surfaced>>
      BY <1>1, <1>11 DEF ReadAck, ReadNote, ReadQuiet, Accept
    <2>2. \A n \in Shots : last_rx' # <<"ball", BallBytes[n]>>
      BY <1>2, <2>1 DEF Bytes
    <2>3. PendingIsSeen'
      BY <1>3, <2>1, <2>2 DEF ShotInv, PendingIsSeen
    <2> QED BY <1>5, <2>1, <2>3 DEF ShotInv, Wire, ShotPairing, ShotsInOrder
  <1> QED BY <1>8, <1>9, <1>10, <1>11

\* A step that reads and sends nothing.
LEMMA IdleKeepsShots ==
    ASSUME ShotInv, UNCHANGED <<evt, last_rx, seen, taken, link, pending_shot, surfaced>>
    PROVE  ShotInv'
  BY DEF ShotInv, BallsOrdered, ClubsOrdered, Replayed, Announced, PendingIsSeen,
         ShotPairing, ShotsInOrder, IsBall, IsClub, Bytes

LEMMA PollKeepsShots ==
    ASSUME TypeOK, ShotInv, Poll, UNCHANGED taken
    PROVE  ShotInv'
  <1> USE DEF linkVars, shotVars
  <1>1. CASE \/ IdentityFails \/ GreetingFails \/ Connect \/ PollNotDue \/ SendHeartbeat
             \/ HeartbeatFails \/ ReadClosed \/ ReadFails \/ ReadNothing
    <2>1. UNCHANGED <<evt, last_rx, seen, link, pending_shot, surfaced>>
      BY <1>1 DEF IdentityFails, GreetingFails, Connect, PollNotDue, SendHeartbeat,
                  HeartbeatFails, ReadClosed, ReadFails, ReadNothing
    <2> QED BY <2>1, IdleKeepsShots
  <1>2. CASE ReadTeardown
    <2>1. evt # <<>> /\ evt' = Tail(evt) /\ Head(evt).kind = "empty"
          /\ UNCHANGED <<link, last_rx, seen, pending_shot, surfaced>>
      BY <1>2 DEF ReadTeardown
    <2>2. evt[1].kind # "ball"
      BY <2>1 DEF TypeOK, LinkTypeOK
    <2>3. Wire'
      BY <2>1, <2>2, WireTail, WireTypesHold DEF ShotInv, Wire
    <2>4. PendingIsSeen' /\ ShotPairing' /\ ShotsInOrder'
      BY <2>1 DEF ShotInv, PendingIsSeen, ShotPairing, ShotsInOrder
    <2> QED BY <2>3, <2>4 DEF ShotInv, Wire
  <1>3. CASE ReadDuplicate \/ ReadBall \/ ReadClub \/ ReadAck \/ ReadNote \/ ReadQuiet
    <2>1. UNCHANGED link
      BY <1>3 DEF ReadDuplicate, ReadBall, ReadClub, ReadAck, ReadNote, ReadQuiet,
                  Accept, TakeFrame
    <2> QED BY <1>3, <2>1, ReadKeepsShots
  <1> QED BY <1>1, <1>2, <1>3 DEF Poll

LEMMA DeviceKeepsShots ==
    ASSUME TypeOK, ShotInv, OmniNext,
           UNCHANGED <<last_rx, seen, pending_shot, surfaced>>
    PROVE  ShotInv'
  <1> USE DEF linkVars, omniVars
  <1>1. WireTypes /\ Wire
    BY WireTypesHold DEF ShotInv, Wire
  <1>2. PendingIsSeen' /\ ShotPairing' /\ ShotsInOrder'
    BY DEF ShotInv, PendingIsSeen, ShotPairing, ShotsInOrder
  <1>3. CASE Hit /\ link = "up"
    <2>1. evt' = evt \o <<Frm("ball", taken + 1), Frm("ball", taken + 1)>>
          /\ taken' = taken + 1 /\ UNCHANGED link
      BY <1>3 DEF Hit, Twice
    <2> QED BY <1>1, <1>2, <2>1, WireBall DEF ShotInv, Wire
  <1>4. CASE Hit /\ link # "up"
    <2>1. UNCHANGED <<evt, link>> /\ taken' = taken + 1 /\ taken \in Nat
      BY <1>1, <1>4 DEF Hit, WireTypes
    <2>2. BallsOrdered' /\ ClubsOrdered' /\ Replayed'
      BY <1>1, <2>1 DEF Wire, BallsOrdered, ClubsOrdered, Replayed, IsBall, IsClub, Bytes
    <2>3. Announced'
      <3>1. seen <= taken'
        BY <1>1, <2>1, WireBounds DEF WireTypes
      <3>2. ASSUME NEW i \in DOMAIN evt
            PROVE  /\ IsBall(i) => evt[i].arg \in 1..taken'
                   /\ IsClub(i) => evt[i].arg <= taken'
        BY <1>1, <2>1, WireBounds DEF IsBall, IsClub
      <3> QED BY <1>4, <2>1, <3>1, <3>2 DEF Announced, IsBall, IsClub
    <2> QED BY <1>2, <2>2, <2>3 DEF ShotInv
  <1>5. CASE Answer
    <2>1. evt' = evt \o <<AnswerTo(Head(cmd).type), AnswerTo(Head(cmd).type)>>
          /\ UNCHANGED <<taken, link>> /\ link = "up" /\ cmd # <<>>
      BY <1>5 DEF Answer, Twice, CanEmit
    <2>2. Head(cmd) \in Command
      BY <2>1 DEF TypeOK, LinkTypeOK
    <2>3. Head(cmd).type \in {"query", "heartbeat", "request"}
      BY <2>2 DEF Command, Answerable
    <2>4. CASE Head(cmd).type = "request"
      <3>1. AnswerTo(Head(cmd).type) = Frm("club", taken)
        BY <2>4 DEF AnswerTo
      <3> QED BY <1>1, <1>2, <2>1, <3>1, WireClub DEF ShotInv, Wire
    <2>5. CASE Head(cmd).type # "request"
      <3> DEFINE f == AnswerTo(Head(cmd).type)
      <3>1. f \in Frame /\ f.kind \notin {"ball", "club"}
        BY <2>3, <2>5 DEF AnswerTo, Frm, Frame, Kinds, TypeOK, OmniTypeOK
      <3> HIDE DEF f
      <3> QED BY <1>1, <1>2, <2>1, <3>1, WireOther DEF ShotInv, Wire, f
    <2> QED BY <2>4, <2>5
  <1>6. CASE ServeRetained
    <2>1. evt' = evt \o <<Frm("club", taken), Frm("club", taken)>>
          /\ UNCHANGED <<taken, link>> /\ link = "up"
      BY <1>6 DEF ServeRetained, Twice, CanEmit
    <2> QED BY <1>1, <1>2, <2>1, WireClub DEF ShotInv, Wire
  <1>7. CASE Notify
    <2> DEFINE f == Frm("note", notes')
    <2>1. evt' = evt \o <<f, f>> /\ UNCHANGED <<taken, link>>
      BY <1>7 DEF Notify, Twice
    <2>2. f \in Frame /\ f.kind \notin {"ball", "club"}
      BY <1>7 DEF Notify, Frm, Frame, Kinds, TypeOK, OmniTypeOK
    <2> HIDE DEF f
    <2> QED BY <1>1, <1>2, <2>1, <2>2, WireOther DEF ShotInv, Wire
  <1>8. CASE ChangeState
    <2> DEFINE f == Frm("ack", devState')
    <2>1. /\ evt' = evt \/ evt' = evt \o <<f, f>>
          /\ UNCHANGED <<taken, link>>
      BY <1>8 DEF ChangeState, Twice
    <2>2. f \in Frame /\ f.kind \notin {"ball", "club"}
      BY <1>8 DEF ChangeState, Frm, Frame, Kinds
    <2> HIDE DEF f
    <2>3. CASE evt' = evt
      BY <2>1, <2>3, IdleKeepsShots
    <2>4. CASE evt' = evt \o <<f, f>>
      BY <1>1, <1>2, <2>1, <2>2, <2>4, WireOther DEF ShotInv, Wire
    <2> QED BY <2>1, <2>3, <2>4
  <1>9. CASE Teardown
    <2>1. evt' = Append(evt, Frm("empty", 0)) /\ link' # "up" /\ UNCHANGED taken
      BY <1>9 DEF Teardown
    <2> QED BY <1>1, <1>2, <2>1, WireTeardown DEF ShotInv, Wire
  <1>10. CASE LinkLost
    <2>1. PICK k \in 0..Len(evt) : evt' = SubSeq(evt, 1, k)
      BY <1>10 DEF LinkLost
    <2>2. link' # "up" /\ UNCHANGED taken
      BY <1>10 DEF LinkLost
    <2> QED BY <1>1, <1>2, <2>1, <2>2, WirePrefix DEF ShotInv, Wire
  <1> QED BY <1>3, <1>4, <1>5, <1>6, <1>7, <1>8, <1>9, <1>10 DEF OmniNext, DeviceNext

LEMMA ReopenKeepsShots ==
    ASSUME TypeOK, ShotInv, Reopen
    PROVE  ShotInv'
  <1>1. /\ evt' = <<>> /\ seen' = taken /\ taken' = taken /\ pending_shot' = None
        /\ last_rx' = NoBytes /\ surfaced' = surfaced
    BY DEF Reopen, New, omniVars
  <1>2. WireTypes /\ Wire
    BY WireTypesHold DEF ShotInv, Wire
  <1>3. BallsOrdered' /\ ClubsOrdered' /\ Replayed'
    BY <1>1 DEF BallsOrdered, ClubsOrdered, Replayed
  <1>4. Announced'
    BY <1>1, <1>2 DEF Announced, WireTypes
  <1>5. \A n \in Shots : last_rx' # <<"ball", BallBytes[n]>>
    BY <1>1 DEF NoBytes
  <1>6. \A i \in DOMAIN surfaced' : surfaced'[i].shot \in 1..seen'
    BY <1>1, <1>2, WireBounds DEF ShotInv, PendingIsSeen, WireTypes
  <1>7. PendingIsSeen'
    BY <1>1, <1>5, <1>6 DEF PendingIsSeen
  <1>8. ShotPairing' /\ ShotsInOrder'
    BY <1>1 DEF ShotInv, ShotPairing, ShotsInOrder
  <1> QED BY <1>3, <1>4, <1>7, <1>8 DEF ShotInv

LEMMA ShotInvStep == TypeOK /\ ShotInv /\ [Next]_vars => ShotInv'
  <1> SUFFICES ASSUME TypeOK, ShotInv, [Next]_vars PROVE ShotInv'
    OBVIOUS
  <1>1. CASE ClientStep
    <2>1. UNCHANGED taken
      BY <1>1 DEF ClientStep, omniVars
    <2>2. CASE Poll
      BY <2>1, <2>2, PollKeepsShots
    <2>3. CASE Call
      <3>1. UNCHANGED <<evt, last_rx, seen, link, pending_shot, surfaced>>
        BY <2>3 DEF Call, Configure, SelectClub, Arm, CallReturns, linkVars, shotVars
      <3> QED BY <2>1, <3>1, IdleKeepsShots
    <2> QED BY <1>1, <2>2, <2>3 DEF ClientStep, ClientNext
  <1>2. CASE DeviceStep
    <2>1. OmniNext /\ UNCHANGED <<last_rx, seen, pending_shot, surfaced>>
      BY <1>2 DEF DeviceStep, clientVars, shotVars
    <2> QED BY <2>1, DeviceKeepsShots
  <1>3. CASE Tick
    <2>1. UNCHANGED <<evt, last_rx, seen, taken, link, pending_shot, surfaced>>
      BY <1>3 DEF Tick, shotVars, omniVars
    <2> QED BY <2>1, IdleKeepsShots
  <1>4. CASE Reopen
    BY <1>4, ReopenKeepsShots
  <1>5. CASE UNCHANGED vars
    <2>1. UNCHANGED <<evt, last_rx, seen, taken, link, pending_shot, surfaced>>
      BY <1>5 DEF vars, linkVars, clientVars, shotVars, omniVars
    <2> QED BY <2>1, IdleKeepsShots
  <1> QED BY <1>1, <1>2, <1>3, <1>4, <1>5 DEF Next

\* What lies between device and client, and what the client holds of shots,
\* stays in the order on which client.rs handle relies.
THEOREM ShotInvariant == Spec => []ShotInv
  <1>1. Init => ShotInv
    BY DEF Init, LinkInit, ClientInit, OmniInit, ShotInv, BallsOrdered, ClubsOrdered,
           Replayed, Announced, PendingIsSeen, ShotPairing, ShotsInOrder, NoBytes
  <1> QED BY <1>1, TypeCorrect, ShotInvStep, PTL DEF Spec

\* Every Event::Shot has the ball and club metrics of one shot (client.rs handle).
THEOREM PairingCorrect == Spec => []ShotPairing
  <1>1. ShotInv => ShotPairing
    BY DEF ShotInv
  <1> QED BY <1>1, ShotInvariant, PTL

\* No shot is returned twice or out of order, across reconnections too.
THEOREM OrderCorrect == Spec => []ShotsInOrder
  <1>1. ShotInv => ShotsInOrder
    BY DEF ShotInv
  <1> QED BY <1>1, ShotInvariant, PTL

-----------------------------------------------------------------------------
\* What ShotStream sees of the shots returned so far.
Delivered == [i \in DOMAIN surfaced |-> [shot |-> surfaced[i].shot,
                                         ball |-> surfaced[i].ball,
                                         club |-> surfaced[i].club]]

\* Returning one shot more appends it to what ShotStream sees.
LEMMA DeliveredAppend ==
    ASSUME surfaced \in Seq(ShotEvent), NEW e \in ShotEvent,
           surfaced' = Append(surfaced, e)
    PROVE  Delivered' = Append(Delivered, [shot |-> e.shot, ball |-> e.ball, club |-> e.club])
  <1> DEFINE d == [shot |-> e.shot, ball |-> e.ball, club |-> e.club]
             R == [shot : Shots, ball : BallData, club : ClubData]
  <1>1. /\ DOMAIN surfaced = 1..Len(surfaced) /\ Len(surfaced) \in Nat
        /\ DOMAIN surfaced' = 1..(Len(surfaced) + 1)
        /\ \A i \in DOMAIN surfaced : surfaced'[i] = surfaced[i] /\ surfaced[i] \in ShotEvent
        /\ surfaced'[Len(surfaced) + 1] = e
    OBVIOUS
  <1>2. d \in R /\ \A i \in DOMAIN surfaced : Delivered[i] \in R
    BY <1>1 DEF ShotEvent, Delivered
  <1>3. Delivered \in Seq(R) /\ Len(Delivered) = Len(surfaced)
    BY <1>1, <1>2 DEF Delivered
  <1>4. /\ \A i \in 1..Len(surfaced) : Delivered'[i] = Delivered[i]
        /\ Delivered'[Len(surfaced) + 1] = d
        /\ DOMAIN Delivered' = 1..(Len(surfaced) + 1)
    BY <1>1 DEF Delivered
  <1> HIDE DEF R, d
  <1>5. Delivered' \in [1..(Len(surfaced) + 1) -> R]
    <2>1. ASSUME NEW i \in 1..(Len(surfaced) + 1) PROVE Delivered'[i] \in R
      <3>1. i \in 1..Len(surfaced) \/ i = Len(surfaced) + 1
        BY <1>1
      <3> QED BY <1>1, <1>2, <1>4, <3>1
    <2>2. Delivered' = [i \in DOMAIN Delivered' |-> Delivered'[i]]
      BY DEF Delivered
    <2> QED BY <1>4, <2>1, <2>2
  <1>6. Delivered' \in Seq(R) /\ Len(Delivered') = Len(surfaced) + 1
    BY <1>1, <1>5
  <1>7. /\ Append(Delivered, d) \in Seq(R)
        /\ Len(Append(Delivered, d)) = Len(surfaced) + 1
        /\ \A i \in 1..Len(surfaced) : Append(Delivered, d)[i] = Delivered[i]
        /\ Append(Delivered, d)[Len(surfaced) + 1] = d
    BY <1>2, <1>3, AppendProperties
  <1>8. \A i \in 1..Len(Delivered') : Delivered'[i] = Append(Delivered, d)[i]
    <2> SUFFICES ASSUME NEW i \in 1..(Len(surfaced) + 1)
                 PROVE  Delivered'[i] = Append(Delivered, d)[i]
      BY <1>6
    <2>1. i \in 1..Len(surfaced) \/ i = Len(surfaced) + 1
      BY <1>1
    <2> QED BY <1>4, <1>7, <2>1
  <1>9. Delivered' = Append(Delivered, d)
    BY <1>6, <1>7, <1>8, SeqEqual
  <1> QED BY <1>9 DEF d

\* How a step of the session changes the shots returned.
LEMMA SurfacedStep ==
    ASSUME TypeOK, ShotInv, [Next]_vars, surfaced' # surfaced
    PROVE  /\ UNCHANGED taken
           /\ \E e \in ShotEvent : surfaced' = Append(surfaced, e)
  <1>1. ReadClub /\ UNCHANGED taken
    BY DEF Next, ClientStep, ClientNext, Poll, DeviceStep, Tick, Reopen, vars,
           clientVars, omniVars, shotVars, IdentityFails, GreetingFails, Connect,
           PollNotDue, SendHeartbeat, HeartbeatFails, ReadClosed, ReadTeardown,
           ReadFails, ReadNothing, ReadDuplicate, ReadBall, ReadAck, ReadNote,
           ReadQuiet, Call, Configure, SelectClub, Arm, CallReturns
  <1> DEFINE e == [shot |-> Head(evt).arg, ball |-> pending_shot,
                   club |-> ClubBytes[Head(evt).arg], offset |-> active_club]
  <1>2. surfaced' = Append(surfaced, e) /\ pending_shot # None
    BY <1>1 DEF ReadClub
  <1>3. Head(evt).arg \in Shots
    BY <1>1, ReadTypes DEF ReadClub, Accept, TakeFrame, TypeOK, LinkTypeOK, WellFormed
  <1>4. e \in ShotEvent
    BY <1>2, <1>3, ShotEventType DEF TypeOK, ClientTypeOK
  <1> QED BY <1>1, <1>2, <1>4

LEMMA TakenStep ==
    ASSUME TypeOK, [Next]_vars, taken' # taken
    PROVE  taken' = taken + 1 /\ taken < MaxShots /\ UNCHANGED surfaced
  BY DEF Next, ClientStep, DeviceStep, OmniNext, DeviceNext, Hit, Answer, ServeRetained,
         Notify, ChangeState, Teardown, LinkLost, Tick, Reopen, vars, omniVars,
         clientVars, shotVars

\* The session implements the abstract stream: its caller sees shots in order,
\* once each, each with its own club data, and nothing else.
THEOREM Implements == Spec => ImplementsShotStream
  <1>1. Init => Stream!Init
    <2> SUFFICES ASSUME Init PROVE Stream!Init
      OBVIOUS
    <2>1. taken = 0 /\ surfaced = <<>>
      BY DEF Init, OmniInit, ClientInit
    <2> QED BY <2>1 DEF Stream!Init
  <1>2. TypeOK /\ TypeOK' /\ ShotInv /\ ShotInv' /\ [Next]_vars
          => [Stream!Next]_<<taken, Delivered>>
    <2> SUFFICES ASSUME TypeOK, TypeOK', ShotInv, ShotInv', [Next]_vars
                 PROVE  [Stream!Next]_<<taken, Delivered>>
      OBVIOUS
    <2>1. CASE UNCHANGED <<taken, surfaced>>
      BY <2>1 DEF Delivered
    <2>2. CASE taken' # taken
      <3>1. taken < MaxShots /\ taken' = taken + 1 /\ Delivered' = Delivered
        BY <2>2, TakenStep DEF Delivered
      <3>2. Stream!Take
        BY <3>1 DEF Stream!Take, Delivered
      <3> QED BY <3>2 DEF Stream!Next
    <2>3. CASE surfaced' # surfaced
      <3>1. PICK e \in ShotEvent : surfaced' = Append(surfaced, e)
        BY <2>3, SurfacedStep
      <3>2. UNCHANGED taken /\ surfaced \in Seq(ShotEvent)
        BY <2>3, SurfacedStep DEF TypeOK, ClientTypeOK
      <3>3. /\ Len(surfaced) \in Nat /\ DOMAIN surfaced = 1..Len(surfaced)
            /\ DOMAIN surfaced' = 1..(Len(surfaced) + 1)
            /\ surfaced'[Len(surfaced) + 1] = e
            /\ \A i \in DOMAIN surfaced : surfaced'[i] = surfaced[i]
        BY <3>1, <3>2
      <3>4. e.ball = BallBytes[e.shot] /\ e.club = ClubBytes[e.shot]
        BY <3>3 DEF ShotInv, ShotPairing
      <3>5. \A i \in DOMAIN surfaced : surfaced[i].shot < e.shot
        BY <3>3 DEF ShotInv, ShotsInOrder
      <3>6. e.shot \in 1..taken
        <4>1. e.shot \in 1..seen' /\ seen' <= taken' /\ seen' \in Int
          <5>1. PendingIsSeen' /\ Announced' /\ seen' \in Nat
            BY DEF ShotInv, TypeOK, ClientTypeOK, Shots
          <5>2. surfaced'[Len(surfaced) + 1].shot \in 1..seen'
            BY <3>3, <5>1 DEF PendingIsSeen
          <5> QED BY <3>3, <5>1, <5>2 DEF Announced
        <4> QED BY <3>2, <4>1 DEF TypeOK, OmniTypeOK, Shots
      <3>7. Delivered' = Append(Delivered,
                            [shot |-> e.shot, ball |-> e.ball, club |-> e.club])
        BY <3>1, <3>2, DeliveredAppend
      <3>8. \A i \in DOMAIN Delivered : Delivered[i].shot < e.shot
        BY <3>5 DEF Delivered
      <3>9. Stream!Deliver(e.shot)
        BY <3>2, <3>4, <3>7, <3>8 DEF Stream!Deliver, Delivered
      <3> QED BY <3>6, <3>9 DEF Stream!Next
    <2> QED BY <2>1, <2>2, <2>3
  <1>3. Stream!Spec <=> Stream!Init /\ [][Stream!Next]_<<taken, Delivered>>
    BY DEF Stream!Spec, Delivered
  <1> QED BY <1>1, <1>2, <1>3, TypeCorrect, ShotInvariant, PTL
         DEF Spec, ImplementsShotStream

-----------------------------------------------------------------------------
(***************************************************************************)
(* Doubled notifications act once.  The ball notifications are those of    *)
(* ShotInv; the pass-through ones are ordered by their number, and one     *)
(* that the client has counted is on the way again only as the double of   *)
(* the last frame read.                                                    *)
(***************************************************************************)
IsNote(i) == evt[i].kind = "note"

NotesOrdered ==
    \A i, j \in DOMAIN evt : i < j /\ IsNote(i) /\ IsNote(j) =>
        \/ evt[i].arg < evt[j].arg
        \/ evt[i].arg = evt[j].arg /\ j = i + 1

NotesNew ==
    \A i \in DOMAIN evt : IsNote(i) =>
        /\ evt[i].arg <= notes
        /\ noted < evt[i].arg \/ (i = 1 /\ last_rx = Bytes(evt[i]))

NotesInv == NotesOrdered /\ NotesNew /\ noted <= notes

\* Every shot asked about has been read, in the order of the requests.
Asked ==
    /\ \A i \in DOMAIN requests : requests[i] <= seen
    /\ \A i, j \in DOMAIN requests : i < j => requests[i] < requests[j]

NoteTypes == /\ evt \in Seq(Frame)
             /\ Len(evt) \in Nat /\ DOMAIN evt = 1..Len(evt)
             /\ \A i \in DOMAIN evt : evt[i].arg \in Nat
             /\ notes \in Nat /\ noted \in Nat

LEMMA NoteTypesHold == TypeOK => NoteTypes
  <1> SUFFICES ASSUME TypeOK PROVE NoteTypes
    OBVIOUS
  <1>1. evt \in Seq(Frame) /\ notes \in Nat /\ noted \in Nat
    BY DEF TypeOK, LinkTypeOK, OmniTypeOK, ClientTypeOK
  <1>2. \A i \in DOMAIN evt : evt[i] \in Frame
    BY <1>1
  <1> QED BY <1>1, <1>2 DEF NoteTypes, Frame

\* Reading one notification: what is behind it moves up.
LEMMA NotesTail ==
    ASSUME NoteTypes, NotesInv, evt # <<>>, evt' = Tail(evt), UNCHANGED notes,
           \/ noted' = noted
           \/ IsNote(1) /\ noted < evt[1].arg /\ noted' = noted + 1,
           IsNote(1) => last_rx' = Bytes(evt[1])
    PROVE  NotesInv'
  <1>1. /\ Len(evt) > 0 /\ DOMAIN evt' = 1..(Len(evt) - 1) /\ 1 \in DOMAIN evt
        /\ \A i \in DOMAIN evt' : i + 1 \in DOMAIN evt /\ evt'[i] = evt[i + 1]
                                  /\ i \in Nat /\ i >= 1
    BY DEF NoteTypes
  <1>2. NotesOrdered'
    <2> SUFFICES ASSUME NEW i \in DOMAIN evt', NEW j \in DOMAIN evt', i < j,
                        IsNote(i)', IsNote(j)'
                 PROVE  \/ evt'[i].arg < evt'[j].arg
                        \/ evt'[i].arg = evt'[j].arg /\ j = i + 1
      BY DEF NotesOrdered
    <2>1. /\ i + 1 \in DOMAIN evt /\ j + 1 \in DOMAIN evt /\ i + 1 < j + 1
          /\ IsNote(i + 1) /\ IsNote(j + 1)
          /\ evt'[i] = evt[i + 1] /\ evt'[j] = evt[j + 1] /\ i \in Nat /\ j \in Nat
      BY <1>1 DEF IsNote
    <2>2. \/ evt[i + 1].arg < evt[j + 1].arg
          \/ evt[i + 1].arg = evt[j + 1].arg /\ j + 1 = (i + 1) + 1
      BY <2>1 DEF NotesInv, NotesOrdered
    <2> QED BY <2>1, <2>2
  <1>3. noted' <= notes
    <2>1. IsNote(1) => evt[1].arg <= notes /\ evt[1].arg \in Nat
      BY <1>1 DEF NotesInv, NotesNew, NoteTypes
    <2> QED BY <2>1 DEF NotesInv, NoteTypes
  <1>4. NotesNew'
    <2> SUFFICES ASSUME NEW i \in DOMAIN evt', IsNote(i)'
                 PROVE  /\ evt'[i].arg <= notes
                        /\ \/ noted' < evt'[i].arg
                           \/ i = 1 /\ last_rx' = Bytes(evt'[i])
      BY DEF NotesNew, Bytes
    <2>1. /\ i + 1 \in DOMAIN evt /\ IsNote(i + 1) /\ evt'[i] = evt[i + 1]
          /\ i \in Nat /\ i >= 1 /\ i + 1 # 1 /\ 1 < i + 1
      BY <1>1 DEF IsNote
    <2>2. evt[i + 1].arg <= notes /\ noted < evt[i + 1].arg /\ evt[i + 1].arg \in Nat
      BY <2>1 DEF NotesInv, NotesNew, NoteTypes
    <2>3. CASE noted' = noted
      BY <2>1, <2>2, <2>3
    <2>4. CASE IsNote(1) /\ noted < evt[1].arg /\ noted' = noted + 1
      <3>1. \/ evt[1].arg < evt[i + 1].arg
            \/ evt[1].arg = evt[i + 1].arg /\ i + 1 = 1 + 1
        BY <1>1, <2>1, <2>4 DEF NotesInv, NotesOrdered
      <3>2. evt[1].arg \in Nat /\ noted \in Nat
        BY <1>1 DEF NoteTypes
      <3>3. CASE evt[1].arg < evt[i + 1].arg
        BY <2>1, <2>2, <2>4, <3>2, <3>3
      <3>4. CASE evt[1].arg = evt[i + 1].arg /\ i + 1 = 1 + 1
        <4>1. Bytes(evt[1]) = Bytes(evt[i + 1])
          BY <2>1, <2>4, <3>4 DEF Bytes, IsNote
        <4> QED BY <2>1, <2>2, <2>4, <3>4, <4>1
      <3> QED BY <3>1, <3>3, <3>4
    <2> QED BY <2>3, <2>4
  <1> QED BY <1>2, <1>3, <1>4 DEF NotesInv

\* The device sends a frame twice, which is the next note or none.
LEMMA NotesTwice ==
    ASSUME NoteTypes, NotesInv, NEW f \in Frame, evt' = evt \o <<f, f>>,
           UNCHANGED <<noted, last_rx>>, notes' \in {notes, notes + 1},
           f.kind = "note" => f.arg = notes' /\ notes' = notes + 1
    PROVE  NotesInv'
  <1>1. /\ DOMAIN evt' = 1..(Len(evt) + 2)
        /\ \A i \in DOMAIN evt : evt'[i] = evt[i]
        /\ \A i \in DOMAIN evt' \ DOMAIN evt : evt'[i] = f /\ i \in {Len(evt) + 1, Len(evt) + 2}
    BY DEF NoteTypes
  <1>2. \A i \in DOMAIN evt : IsNote(i) => evt[i].arg <= notes
    BY DEF NotesInv, NotesNew
  <1>3. NotesOrdered'
    <2> SUFFICES ASSUME NEW i \in DOMAIN evt', NEW j \in DOMAIN evt', i < j,
                        IsNote(i)', IsNote(j)'
                 PROVE  \/ evt'[i].arg < evt'[j].arg
                        \/ evt'[i].arg = evt'[j].arg /\ j = i + 1
      BY DEF NotesOrdered
    <2>1. CASE j \in DOMAIN evt
      BY <1>1, <2>1 DEF NotesInv, NotesOrdered, IsNote, NoteTypes
    <2>2. CASE i \in DOMAIN evt /\ j \notin DOMAIN evt
      <3>1. IsNote(i) /\ evt'[i] = evt[i] /\ evt'[j].arg = notes + 1
        BY <1>1, <2>2 DEF IsNote
      <3> QED BY <1>2, <2>2, <3>1 DEF NoteTypes
    <2>3. CASE i \notin DOMAIN evt
      BY <1>1, <2>3 DEF NoteTypes
    <2> QED BY <2>1, <2>2, <2>3
  <1>4. NotesNew'
    <2> SUFFICES ASSUME NEW i \in DOMAIN evt', IsNote(i)'
                 PROVE  /\ evt'[i].arg <= notes'
                        /\ \/ noted < evt'[i].arg
                           \/ i = 1 /\ last_rx = Bytes(evt'[i])
      BY DEF NotesNew, Bytes
    <2>1. CASE i \in DOMAIN evt
      <3>1. evt'[i] = evt[i] /\ IsNote(i) /\ evt[i].arg \in Nat
        BY <1>1, <2>1 DEF IsNote, NoteTypes
      <3>2. /\ evt[i].arg <= notes
            /\ noted < evt[i].arg \/ (i = 1 /\ last_rx = Bytes(evt[i]))
        BY <2>1, <3>1 DEF NotesInv, NotesNew
      <3> QED BY <3>1, <3>2 DEF NoteTypes
    <2>2. CASE i \notin DOMAIN evt
      <3>1. evt'[i] = f /\ f.kind = "note"
        BY <1>1, <2>2 DEF IsNote
      <3> QED BY <3>1 DEF NotesInv, NoteTypes
    <2> QED BY <2>1, <2>2
  <1>5. noted' <= notes'
    BY DEF NotesInv, NoteTypes
  <1> QED BY <1>3, <1>4, <1>5 DEF NotesInv

\* The connection goes: what is left of what was on the way, and a teardown.
LEMMA NotesLost ==
    ASSUME NoteTypes, NotesInv, UNCHANGED <<noted, notes, last_rx>>,
           \/ \E k \in 0..Len(evt) : evt' = SubSeq(evt, 1, k)
           \/ evt' = Append(evt, Frm("empty", 0))
    PROVE  NotesInv'
  <1>1. \A i \in DOMAIN evt' : \/ i \in DOMAIN evt /\ evt'[i] = evt[i]
                               \/ evt'[i].kind = "empty"
    BY DEF NoteTypes, Frm
  <1>2. NotesOrdered'
    BY <1>1 DEF NotesInv, NotesOrdered, IsNote
  <1>3. NotesNew'
    <2> SUFFICES ASSUME NEW i \in DOMAIN evt', IsNote(i)'
                 PROVE  /\ evt'[i].arg <= notes
                        /\ \/ noted < evt'[i].arg
                           \/ i = 1 /\ last_rx = Bytes(evt'[i])
      BY DEF NotesNew, Bytes
    <2>1. i \in DOMAIN evt /\ evt'[i] = evt[i] /\ IsNote(i)
      BY <1>1 DEF IsNote
    <2> QED BY <2>1 DEF NotesInv, NotesNew
  <1> QED BY <1>2, <1>3 DEF NotesInv

LEMMA NotesIdle ==
    ASSUME NotesInv, UNCHANGED <<evt, noted, notes, last_rx>>
    PROVE  NotesInv'
  BY DEF NotesInv, NotesOrdered, NotesNew, IsNote, Bytes

\* No step makes a note count twice.
LEMMA NotesStep == TypeOK /\ NotesInv /\ [Next]_vars => NotesInv'
  <1> SUFFICES ASSUME TypeOK, NotesInv, [Next]_vars PROVE NotesInv'
    OBVIOUS
  <1> USE DEF linkVars, omniVars
  <1>0. NoteTypes
    BY NoteTypesHold
  <1>1. CASE Poll /\ UNCHANGED notes
    <2>1. CASE \/ IdentityFails \/ GreetingFails \/ Connect \/ PollNotDue \/ SendHeartbeat
               \/ HeartbeatFails \/ ReadClosed \/ ReadFails \/ ReadNothing
      <3>1. UNCHANGED <<evt, last_rx, noted>>
        BY <2>1 DEF IdentityFails, GreetingFails, Connect, PollNotDue, SendHeartbeat,
                    HeartbeatFails, ReadClosed, ReadFails, ReadNothing
      <3> QED BY <1>1, <3>1, NotesIdle
    <2>2. CASE \/ ReadTeardown \/ ReadDuplicate \/ ReadBall \/ ReadClub \/ ReadAck
               \/ ReadNote \/ ReadQuiet
      <3>1. evt # <<>> /\ evt' = Tail(evt)
        BY <2>2 DEF ReadTeardown, ReadDuplicate, ReadBall, ReadClub, ReadAck, ReadNote,
                    ReadQuiet, Accept, TakeFrame
      <3>2. Head(evt) = evt[1] /\ 1 \in DOMAIN evt
        BY <1>0, <3>1 DEF NoteTypes
      <3>3. IsNote(1) => last_rx' = Bytes(evt[1])
        BY <2>2, <3>2 DEF ReadTeardown, ReadDuplicate, ReadBall, ReadClub, ReadAck, ReadNote,
                          ReadQuiet, Accept, IsDuplicate, IsNote
      <3>4. \/ noted' = noted
            \/ IsNote(1) /\ noted < evt[1].arg /\ noted' = noted + 1
        <4>1. CASE ReadNote
          <5>1. IsNote(1) /\ last_rx # Bytes(evt[1]) /\ noted' = noted + 1
            BY <3>2, <4>1 DEF ReadNote, Accept, IsDuplicate, IsNote
          <5>2. noted < evt[1].arg
            BY <3>2, <5>1 DEF NotesInv, NotesNew
          <5> QED BY <5>1, <5>2
        <4>2. CASE ~ReadNote
          BY <2>2, <4>2 DEF ReadTeardown, ReadDuplicate, ReadBall, ReadClub, ReadAck,
                            ReadQuiet
        <4> QED BY <4>1, <4>2
      <3> QED BY <1>0, <1>1, <3>1, <3>3, <3>4, NotesTail
    <2> QED BY <1>1, <2>1, <2>2 DEF Poll
  <1>2. CASE Call /\ UNCHANGED notes
    <2>1. UNCHANGED <<evt, last_rx, noted>>
      BY <1>2 DEF Call, Configure, SelectClub, Arm, CallReturns
    <2> QED BY <1>2, <2>1, NotesIdle
  <1>3. CASE OmniNext /\ UNCHANGED <<last_rx, noted>>
    <2>1. ASSUME NEW f \in Frame, evt' = evt \o <<f, f>>, UNCHANGED notes, f.kind # "note"
          PROVE  NotesInv'
      BY <1>0, <1>3, <2>1, NotesTwice
    <2>2. CASE evt' = evt /\ UNCHANGED notes
      BY <1>3, <2>2, NotesIdle
    <2>3. CASE Hit
      <3>1. Frm("ball", taken + 1) \in Frame /\ Frm("ball", taken + 1).kind # "note"
        BY DEF Frm, Frame, Kinds, TypeOK, OmniTypeOK, Shots
      <3>2. /\ UNCHANGED notes
            /\ evt' = evt \/ evt' = evt \o <<Frm("ball", taken + 1), Frm("ball", taken + 1)>>
        BY <2>3 DEF Hit, Twice
      <3> QED BY <2>1, <2>2, <3>1, <3>2
    <2>4. CASE Answer
      <3> DEFINE f == AnswerTo(Head(cmd).type)
      <3>1. evt' = evt \o <<f, f>> /\ UNCHANGED notes /\ cmd # <<>>
        BY <2>4 DEF Answer, Twice
      <3>2. Head(cmd) \in Command
        BY <3>1 DEF TypeOK, LinkTypeOK
      <3>3. Head(cmd).type \in {"query", "heartbeat", "request"}
        BY <3>2 DEF Command, Answerable
      <3>4. f \in Frame /\ f.kind # "note"
        BY <3>3 DEF AnswerTo, Frm, Frame, Kinds, TypeOK, OmniTypeOK, Shots
      <3> HIDE DEF f
      <3> QED BY <2>1, <3>1, <3>4
    <2>5. CASE ServeRetained
      <3>1. Frm("club", taken) \in Frame /\ Frm("club", taken).kind # "note"
        BY DEF Frm, Frame, Kinds, TypeOK, OmniTypeOK, Shots
      <3>2. UNCHANGED notes /\ evt' = evt \o <<Frm("club", taken), Frm("club", taken)>>
        BY <2>5 DEF ServeRetained, Twice
      <3> QED BY <2>1, <3>1, <3>2
    <2>6. CASE Notify
      <3> DEFINE f == Frm("note", notes')
      <3>1. evt' = evt \o <<f, f>> /\ notes' = notes + 1
        BY <2>6 DEF Notify, Twice
      <3>2. f \in Frame /\ f.arg = notes' /\ notes' \in {notes, notes + 1}
        BY <1>0, <3>1 DEF Frm, Frame, Kinds, NoteTypes
      <3> HIDE DEF f
      <3> QED BY <1>0, <1>3, <3>1, <3>2, NotesTwice
    <2>7. CASE ChangeState
      <3>1. Frm("ack", devState') \in Frame /\ Frm("ack", devState').kind # "note"
        BY <2>7 DEF ChangeState, Frm, Frame, Kinds
      <3>2. /\ UNCHANGED notes
            /\ evt' = evt \/ evt' = evt \o <<Frm("ack", devState'), Frm("ack", devState')>>
        BY <2>7 DEF ChangeState, Twice
      <3> QED BY <2>1, <2>2, <3>1, <3>2
    <2>8. CASE Teardown \/ LinkLost
      <3>1. /\ UNCHANGED notes
            /\ \/ \E k \in 0..Len(evt) : evt' = SubSeq(evt, 1, k)
               \/ evt' = Append(evt, Frm("empty", 0))
        BY <2>8 DEF Teardown, LinkLost
      <3> QED BY <1>0, <1>3, <3>1, NotesLost
    <2> QED BY <1>3, <2>3, <2>4, <2>5, <2>6, <2>7, <2>8 DEF OmniNext, DeviceNext
  <1>4. CASE Tick
    BY <1>4, NotesIdle DEF Tick
  <1>5. CASE Reopen
    <2>1. evt' = <<>> /\ UNCHANGED <<noted, notes>>
      BY <1>5 DEF Reopen
    <2> QED BY <1>0, <2>1 DEF NotesInv, NotesOrdered, NotesNew
  <1>6. CASE UNCHANGED vars
    <2>1. UNCHANGED <<evt, last_rx, noted, notes>>
      BY <1>6 DEF vars, clientVars
    <2> QED BY <2>1, NotesIdle
  <1>7. CASE ClientStep
    BY <1>1, <1>2, <1>7 DEF ClientStep, ClientNext
  <1>8. CASE DeviceStep
    BY <1>3, <1>8 DEF DeviceStep, clientVars
  <1> QED BY <1>4, <1>5, <1>6, <1>7, <1>8 DEF Next

\* A request is for the shot just read, which no request before it was for.
LEMMA AskedStep ==
    TypeOK /\ ShotInv /\ ShotInv' /\ Asked /\ [Next]_vars => Asked'
  <1> SUFFICES ASSUME TypeOK, ShotInv, ShotInv', Asked, [Next]_vars PROVE Asked'
    OBVIOUS
  <1> USE DEF linkVars, shotVars
  <1>0. /\ WireTypes /\ Wire /\ requests \in Seq(Shots)
        /\ \A i \in DOMAIN requests : requests[i] \in Nat
    <2>1. requests \in Seq(Shots)
      BY DEF TypeOK, ClientTypeOK
    <2>2. \A i \in DOMAIN requests : requests[i] \in Shots
      BY <2>1
    <2> QED BY <2>1, <2>2, WireTypesHold DEF ShotInv, Wire, Shots
  <1>1. ASSUME UNCHANGED requests, seen <= seen', seen' \in Nat
        PROVE  Asked'
    BY <1>0, <1>1 DEF Asked, WireTypes
  <1>2. CASE UNCHANGED <<requests, seen>>
    BY <1>0, <1>1, <1>2 DEF WireTypes
  <1>3. CASE Poll /\ UNCHANGED taken
    <2>1. CASE \/ IdentityFails \/ GreetingFails \/ Connect \/ PollNotDue \/ SendHeartbeat
               \/ HeartbeatFails \/ ReadClosed \/ ReadFails \/ ReadNothing \/ ReadTeardown
      <3>1. UNCHANGED <<requests, seen>>
        BY <2>1 DEF IdentityFails, GreetingFails, Connect, PollNotDue, SendHeartbeat,
                    HeartbeatFails, ReadClosed, ReadFails, ReadNothing, ReadTeardown
      <3> QED BY <1>2, <3>1
    <2>2. CASE ReadDuplicate \/ ReadBall \/ ReadClub \/ ReadAck \/ ReadNote \/ ReadQuiet
      <3>1. TakeFrame /\ (ReadDuplicate \/ last_rx' = Bytes(Head(evt)))
        BY <2>2 DEF ReadDuplicate, ReadBall, ReadClub, ReadAck, ReadNote, ReadQuiet, Accept
      <3>2. /\ evt # <<>> /\ evt' = Tail(evt) /\ link' = link
            /\ seen' = IF Head(evt).kind = "ball" THEN Head(evt).arg ELSE seen
        BY <3>1 DEF TakeFrame
      <3>3. Head(evt) = evt[1] /\ 1 \in DOMAIN evt
        BY <1>0, <3>2 DEF WireTypes
      <3>4. last_rx' = Bytes(evt[1])
        BY <3>1, <3>3 DEF ReadDuplicate, IsDuplicate
      <3>5. seen <= seen' /\ seen' \in Nat
        <4>1. evt[1].arg \in Nat
          BY <1>0, <3>3, WireBounds
        <4>2. \/ evt[1].kind # "ball" /\ seen' = seen
              \/ evt[1].kind = "ball" /\ seen' = evt[1].arg /\ last_rx' = Bytes(evt[1])
          BY <3>2, <3>3, <3>4
        <4>3. seen <= seen'
          BY <1>0, <1>3, <3>2, <4>2, WireTail
        <4> QED BY <1>0, <4>1, <4>2, <4>3 DEF WireTypes
      <3>6. CASE requests' = requests
        BY <1>1, <3>5, <3>6
      <3>7. CASE requests' # requests
        <4>1. /\ ReadBall /\ requests' = Append(requests, evt[1].arg)
              /\ evt[1].kind = "ball" /\ last_rx # Bytes(evt[1]) /\ seen' = evt[1].arg
          BY <2>2, <3>2, <3>3, <3>7
             DEF ReadDuplicate, ReadBall, ReadClub, ReadAck, ReadNote, ReadQuiet, Accept,
                 IsDuplicate
        <4>2. seen < seen'
          BY <1>0, <3>3, <3>5, <4>1 DEF Wire, Replayed, IsBall, WireTypes
        <4>3. evt[1].arg \in Shots
          BY <3>3, <4>1 DEF TypeOK, LinkTypeOK, WellFormed
        <4>4. /\ DOMAIN requests' = 1..(Len(requests) + 1) /\ Len(requests) \in Nat
              /\ DOMAIN requests = 1..Len(requests)
              /\ \A i \in DOMAIN requests : requests'[i] = requests[i]
              /\ requests'[Len(requests) + 1] = seen'
          BY <1>0, <4>1, <4>3
        <4>5. \A i \in DOMAIN requests : requests'[i] < seen'
          BY <1>0, <3>5, <4>2, <4>4 DEF Asked, WireTypes
        <4>6. \A i \in DOMAIN requests' : requests'[i] <= seen'
          BY <1>0, <3>5, <4>4, <4>5
        <4>7. ASSUME NEW i \in DOMAIN requests', NEW j \in DOMAIN requests', i < j
              PROVE  requests'[i] < requests'[j]
          <5>1. i \in DOMAIN requests
            BY <4>4, <4>7
          <5>2. CASE j \in DOMAIN requests
            BY <4>4, <4>7, <5>1, <5>2 DEF Asked
          <5>3. CASE j \notin DOMAIN requests
            <6>1. j = Len(requests) + 1
              BY <4>4, <5>3
            <6> QED BY <4>4, <4>5, <5>1, <6>1
          <5> QED BY <5>2, <5>3
        <4> QED BY <4>6, <4>7 DEF Asked
      <3> QED BY <3>6, <3>7
    <2> QED BY <1>3, <2>1, <2>2 DEF Poll
  <1>4. CASE Call
    <2>1. UNCHANGED <<requests, seen>>
      BY <1>4 DEF Call, Configure, SelectClub, Arm, CallReturns
    <2> QED BY <1>2, <2>1
  <1>5. CASE Reopen
    <2>1. UNCHANGED requests /\ seen' = taken
      BY <1>5 DEF Reopen
    <2> QED BY <1>0, <1>1, <2>1, WireBounds DEF WireTypes
  <1>6. CASE DeviceStep
    BY <1>2, <1>6 DEF DeviceStep, clientVars
  <1>7. CASE Tick
    BY <1>2, <1>7 DEF Tick
  <1>8. CASE UNCHANGED vars
    BY <1>2, <1>8 DEF vars, clientVars
  <1> QED BY <1>3, <1>4, <1>5, <1>6, <1>7, <1>8 DEF Next, ClientStep, ClientNext, omniVars

\* Although every notification arrives twice, a shot is asked about at most
\* once, and no more pass-through events are returned than notifications were
\* sent (client.rs poll, dedup).
THEOREM ActsOnce == Spec => []OncePerNotification
  <1>1. Init => NotesInv /\ Asked
    BY DEF Init, LinkInit, ClientInit, OmniInit, NotesInv, NotesOrdered, NotesNew, Asked
  <1>2. NotesInv /\ Asked => OncePerNotification
    BY DEF NotesInv, Asked, OncePerNotification
  <1> QED BY <1>1, <1>2, NotesStep, AskedStep, ShotInvariant, TypeCorrect, PTL DEF Spec
=============================================================================
