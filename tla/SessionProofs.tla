--------------------------- MODULE SessionProofs ----------------------------
(***************************************************************************)
(* Theorems about Session for every value of its constants.                *)
(***************************************************************************)
EXTENDS Session, TLAPS

USE ShotsAssumption, ClientAssumption, OmniAssumption, TimingAssumption
    DEF ShotsAssumption, ClientAssumption, OmniAssumption, TimingAssumption

\* A frame sent twice: what the sequence of notifications looks like then.
LEMMA TwiceFacts ==
    ASSUME NEW s \in Seq(Frame), NEW f \in Frame
    PROVE  LET t == s \o <<f, f>> IN
           /\ t \in Seq(Frame)
           /\ Len(t) = Len(s) + 2
           /\ \A i \in 1..Len(s) : t[i] = s[i]
           /\ t[Len(s) + 1] = f
           /\ t[Len(s) + 2] = f
  OBVIOUS

\* The bytes of a well-formed frame are a payload.
LEMMA BytesType ==
    ASSUME NEW f \in Frame, WellFormed(f)
    PROVE  Bytes(f) \in Payload
  <1>1. f.kind \in Kinds /\ f.arg \in Nat
    BY DEF Frame
  <1>2. CASE f.kind = "ball"
    BY <1>1, <1>2 DEF Bytes, Payload, WellFormed, BallData
  <1>3. CASE f.kind = "club"
    BY <1>1, <1>3 DEF Bytes, Payload, WellFormed, ClubData
  <1>4. CASE f.kind = "ack"
    BY <1>1, <1>4 DEF Bytes, Payload, WellFormed
  <1>5. CASE f.kind \in {"note", "quiet", "empty"}
    BY <1>1, <1>5 DEF Bytes, Payload
  <1> QED BY <1>1, <1>2, <1>3, <1>4, <1>5 DEF Kinds

\* What a call that returns leaves in the variables every call writes.
CallTypes == /\ pc \in {"idle", "read"}
             /\ status \in {"open", "closed", "tripped"}
             /\ polled \in BOOLEAN
             /\ faults \in 0..MaxFaults

LEMMA FailureTypes ==
    ASSUME CallTypes, Returns(FALSE),
           \E fault \in {"refused", "timed_out", "read", "identity"} : CanFail(fault)
    PROVE  CallTypes'
  <1>1. pc' \in {"idle", "read"} /\ polled' \in BOOLEAN
    BY DEF CallTypes, Returns
  <1>2. status' \in {"open", "closed", "tripped"}
    BY DEF CallTypes, Returns
  <1>3. faults' \in 0..MaxFaults
    BY DEF CallTypes, Returns, Spend, CanFail
  <1> QED BY <1>1, <1>2, <1>3 DEF CallTypes

LEMMA SuccessTypes ==
    ASSUME CallTypes, Returns(TRUE)
    PROVE  CallTypes'
  BY DEF CallTypes, Returns, Spend

LEMMA SentType ==
    ASSUME NEW q \in Seq(Command), NEW t \in Answerable, NEW o
    PROVE  Sent(q, t, o) \in Seq(Command)
  <1>1. [type |-> t, age |-> 0] \in Command
    BY DEF Command
  <1>2. CASE link = "up" /\ o # "refused"
    BY <1>1, <1>2 DEF Sent
  <1>3. CASE ~(link = "up" /\ o # "refused")
    BY <1>3 DEF Sent
  <1> QED BY <1>2, <1>3

LEMMA TwiceSentType ==
    ASSUME NEW q \in Seq(Command), NEW t \in Answerable, NEW o,
           NEW u \in Answerable, NEW p
    PROVE  Sent(Sent(q, t, o), u, p) \in Seq(Command)
  BY SentType

\* The variables of the client that no call of the transport writes.
RestTypes ==
    /\ phase \in {"Connecting", "Active"}
    /\ last_rx \in {NoBytes} \cup Payload
    /\ last_heartbeat \in 0..HeartbeatInterval
    /\ last_data \in 0..LINK_TIMEOUT
    /\ unanswered \in 0..MaxUnanswered
    /\ state \in DevStates \cup {None}
    /\ pending_shot \in BallData \cup {None}
    /\ awaiting_club \in BOOLEAN
    /\ active_club \in Clubs \cup {None}
    /\ seen \in Shots
    /\ surfaced \in Seq(ShotEvent)
    /\ requests \in Seq(Shots)
    /\ noted \in Nat

LEMMA ClientTypeParts == ClientTypeOK <=> CallTypes /\ RestTypes
  BY DEF ClientTypeOK, CallTypes, RestTypes

\* What was in the connection stays well-typed when a frame is read.
LEMMA ReadTypes ==
    ASSUME LinkTypeOK, evt # <<>>, evt' = Tail(evt), cmd' \in Seq(Command),
           UNCHANGED link
    PROVE  /\ LinkTypeOK'
           /\ Head(evt) \in Frame
           /\ WellFormed(Head(evt))
  <1>1. evt' \in Seq(Frame) /\ Head(evt) \in Frame /\ Len(evt) \in Nat \ {0}
    BY DEF LinkTypeOK
  <1>2. Head(evt) = evt[1] /\ 1 \in DOMAIN evt
    BY DEF LinkTypeOK
  <1>3. WellFormed(Head(evt))
    BY <1>2 DEF LinkTypeOK
  <1>4. ASSUME NEW i \in DOMAIN evt' PROVE WellFormed(evt'[i])
    <2>1. i + 1 \in DOMAIN evt /\ evt'[i] = evt[i + 1]
      BY DEF LinkTypeOK
    <2> QED BY <2>1 DEF LinkTypeOK
  <1> QED BY <1>1, <1>3, <1>4 DEF LinkTypeOK

\* A new event is an event.
LEMMA ShotEventType ==
    ASSUME NEW n \in Shots, NEW b \in BallData, NEW o \in Clubs \cup {None}
    PROVE  [shot |-> n, ball |-> b, club |-> ClubBytes[n], offset |-> o] \in ShotEvent
  BY DEF ShotEvent, ClubData

\* Every step of the client keeps the types.
LEMMA PollType ==
    ASSUME LinkTypeOK, CallTypes, RestTypes, Poll
    PROVE  LinkTypeOK' /\ CallTypes' /\ RestTypes'
  <1> USE DEF linkVars, watchdogVars, shotVars
  <1>0. cmd \in Seq(Command) /\ {"query", "heartbeat", "request"} = Answerable
    BY DEF LinkTypeOK, Answerable
  <1>1. CASE IdentityFails
    <2>1. CallTypes'
      BY <1>1, FailureTypes DEF IdentityFails
    <2> QED BY <1>1, <2>1 DEF IdentityFails, LinkTypeOK, RestTypes
  <1>2. CASE GreetingFails
    <2>1. CallTypes'
      BY <1>2, FailureTypes DEF GreetingFails, WriteOutcomes
    <2>2. LinkTypeOK'
      <3>1. cmd' \in Seq(Command)
        <4>1. PICK o : \/ cmd' = Sent(cmd, "query", o)
                       \/ cmd' = Sent(Sent(cmd, "query", "ok"), "heartbeat", o)
          BY <1>2 DEF GreetingFails
        <4>2. Sent(cmd, "query", o) \in Seq(Command)
          BY <1>0, SentType
        <4>3. Sent(Sent(cmd, "query", "ok"), "heartbeat", o) \in Seq(Command)
          BY <1>0, TwiceSentType
        <4> QED BY <4>1, <4>2, <4>3
      <3> QED BY <1>2, <3>1 DEF GreetingFails, LinkTypeOK
    <2>3. RestTypes'
      BY <1>2 DEF GreetingFails, RestTypes
    <2> QED BY <2>1, <2>2, <2>3
  <1>3. CASE Connect
    <2>1. CallTypes'
      BY <1>3, SuccessTypes DEF Connect
    <2>2. LinkTypeOK'
      <3>1. cmd' \in Seq(Command)
        BY <1>0, <1>3, TwiceSentType DEF Connect
      <3> QED BY <1>3, <3>1 DEF Connect, LinkTypeOK
    <2>3. RestTypes'
      BY <1>3 DEF Connect, RestTypes, LINK_TIMEOUT, UNANSWERED_HEARTBEATS
    <2> QED BY <2>1, <2>2, <2>3
  <1>4. CASE PollNotDue
    BY <1>4 DEF PollNotDue, LinkTypeOK, CallTypes, RestTypes
  <1>5. CASE SendHeartbeat
    <2>1. CallTypes'
      BY <1>5 DEF SendHeartbeat, CallTypes
    <2>2. LinkTypeOK'
      <3>1. cmd' \in Seq(Command)
        BY <1>0, <1>5, SentType DEF SendHeartbeat
      <3> QED BY <1>5, <3>1 DEF SendHeartbeat, LinkTypeOK
    <2>3. RestTypes'
      BY <1>5 DEF SendHeartbeat, RestTypes
    <2> QED BY <2>1, <2>2, <2>3
  <1>6. CASE HeartbeatFails
    <2>1. CallTypes'
      BY <1>6, FailureTypes DEF HeartbeatFails, WriteOutcomes
    <2>2. LinkTypeOK'
      <3>1. cmd' \in Seq(Command)
        BY <1>0, <1>6, SentType DEF HeartbeatFails
      <3> QED BY <1>6, <3>1 DEF HeartbeatFails, LinkTypeOK
    <2>3. RestTypes'
      BY <1>6 DEF HeartbeatFails, RestTypes
    <2> QED BY <2>1, <2>2, <2>3
  <1>7. CASE ReadClosed
    BY <1>7 DEF ReadClosed, Disconnected, LinkTypeOK, CallTypes, RestTypes
  <1>8. CASE ReadTeardown
    <2>1. LinkTypeOK'
      BY <1>0, <1>8, ReadTypes DEF ReadTeardown
    <2> QED BY <1>8, <2>1 DEF ReadTeardown, Disconnected, CallTypes, RestTypes
  <1>9. CASE ReadFails
    <2>1. CallTypes'
      BY <1>9, FailureTypes DEF ReadFails
    <2> QED BY <1>9, <2>1 DEF ReadFails, LinkTypeOK, RestTypes
  <1>10. CASE ReadNothing
    <2>1. CallTypes'
      BY <1>10, SuccessTypes DEF ReadNothing, Disconnected, CallTypes
    <2> QED BY <1>10, <2>1 DEF ReadNothing, LinkTypeOK, RestTypes
  <1>11. ASSUME TakeFrame, cmd' \in Seq(Command)
         PROVE  /\ LinkTypeOK'
                /\ Head(evt) \in Frame /\ WellFormed(Head(evt))
                /\ Head(evt).arg \in Nat
                /\ last_data' \in 0..LINK_TIMEOUT /\ unanswered' \in 0..MaxUnanswered
                /\ seen' \in Shots
                /\ UNCHANGED <<link, phase, last_heartbeat, active_club>>
    <2>1. LinkTypeOK' /\ Head(evt) \in Frame /\ WellFormed(Head(evt))
      BY <1>11, ReadTypes DEF TakeFrame
    <2>2. seen' \in Shots
      BY <1>11, <2>1 DEF TakeFrame, WellFormed, RestTypes
    <2>3. last_data' \in 0..LINK_TIMEOUT /\ unanswered' \in 0..MaxUnanswered
      BY <1>11 DEF TakeFrame, LINK_TIMEOUT
    <2> QED BY <1>11, <2>1, <2>2, <2>3 DEF TakeFrame, Frame
  <1>12. CASE ReadDuplicate
    <2>1. CallTypes'
      BY <1>12, SuccessTypes DEF ReadDuplicate
    <2> QED BY <1>0, <1>11, <1>12, <2>1 DEF ReadDuplicate, RestTypes
  <1>13. CASE ReadBall
    <2>1. PICK o \in WriteOutcomes :
             /\ cmd' = Sent(cmd, "request", o)
             /\ requests' = IF o = "refused" THEN requests
                            ELSE Append(requests, Head(evt).arg)
             /\ Returns(o = "ok")
      BY <1>13 DEF ReadBall
    <2>2. cmd' \in Seq(Command)
      BY <1>0, <2>1, SentType
    <2>3. CallTypes'
      <3>1. CASE o = "ok"
        BY <2>1, <3>1, SuccessTypes
      <3>2. CASE o # "ok"
        BY <2>1, <3>2, FailureTypes DEF WriteOutcomes
      <3> QED BY <3>1, <3>2
    <2>4. TakeFrame /\ Head(evt).kind = "ball" /\ last_rx' = Bytes(Head(evt))
      BY <1>13 DEF ReadBall, Accept
    <2>5. Head(evt).arg \in Shots /\ last_rx' \in Payload
      BY <1>11, <2>2, <2>4, BytesType DEF WellFormed
    <2>6. pending_shot' \in BallData
      BY <1>13, <2>5 DEF ReadBall, BallData
    <2>7. requests' \in Seq(Shots)
      BY <2>1, <2>5 DEF RestTypes
    <2>8. awaiting_club' \in BOOLEAN /\ UNCHANGED <<state, surfaced, noted>>
      BY <1>13 DEF ReadBall
    <2> QED BY <1>11, <2>2, <2>3, <2>4, <2>5, <2>6, <2>7, <2>8 DEF RestTypes
  <1>14. CASE ReadClub
    <2>1. CallTypes' /\ cmd' \in Seq(Command)
      BY <1>0, <1>14, SuccessTypes DEF ReadClub
    <2>2. TakeFrame /\ Head(evt).kind = "club" /\ last_rx' = Bytes(Head(evt))
      BY <1>14 DEF ReadClub, Accept
    <2>3. Head(evt).arg \in Shots /\ last_rx' \in Payload
      BY <1>11, <2>1, <2>2, BytesType DEF WellFormed
    <2>4. pending_shot' \in BallData \cup {None} /\ awaiting_club' \in BOOLEAN
      BY <1>14 DEF ReadClub, RestTypes
    <2>5. surfaced' \in Seq(ShotEvent)
      <3>1. CASE surfaced' = surfaced
        BY <3>1 DEF RestTypes
      <3>2. CASE surfaced' # surfaced
        <4> DEFINE e == [shot |-> Head(evt).arg, ball |-> pending_shot,
                         club |-> ClubBytes[Head(evt).arg], offset |-> active_club]
        <4>1. surfaced' = Append(surfaced, e) /\ pending_shot # None
          BY <1>14, <3>2 DEF ReadClub
        <4>2. e \in ShotEvent
          BY <2>3, <4>1, ShotEventType DEF RestTypes
        <4> QED BY <4>1, <4>2 DEF RestTypes
      <3> QED BY <3>1, <3>2
    <2>6. UNCHANGED <<state, requests, noted>>
      BY <1>14 DEF ReadClub
    <2> QED BY <1>11, <2>1, <2>2, <2>3, <2>4, <2>5, <2>6 DEF RestTypes
  <1>15. ASSUME ReadAck \/ ReadNote \/ ReadQuiet
         PROVE  LinkTypeOK' /\ CallTypes' /\ RestTypes'
    <2>1. CallTypes' /\ cmd' \in Seq(Command)
      BY <1>0, <1>15, SuccessTypes DEF ReadAck, ReadNote, ReadQuiet
    <2>2. TakeFrame /\ last_rx' = Bytes(Head(evt))
      BY <1>15 DEF ReadAck, ReadNote, ReadQuiet, Accept
    <2>3. last_rx' \in Payload
      BY <1>11, <2>1, <2>2, BytesType
    <2>4. state' \in DevStates \cup {None}
      BY <1>11, <1>15, <2>1, <2>2 DEF ReadAck, ReadNote, ReadQuiet, Accept, WellFormed, RestTypes
    <2>5. noted' \in Nat
      <3>1. noted' = noted \/ noted' = noted + 1
        BY <1>15 DEF ReadAck, ReadNote, ReadQuiet
      <3>2. noted \in Nat
        BY DEF RestTypes
      <3> QED BY <3>1, <3>2
    <2>6. UNCHANGED <<pending_shot, awaiting_club, surfaced, requests>>
      BY <1>15 DEF ReadAck, ReadNote, ReadQuiet
    <2> QED BY <1>11, <2>1, <2>2, <2>3, <2>4, <2>5, <2>6 DEF RestTypes
  <1> QED
    BY <1>1, <1>2, <1>3, <1>4, <1>5, <1>6, <1>7, <1>8, <1>9, <1>10, <1>12, <1>13,
       <1>14, <1>15 DEF Poll

LEMMA ClientType ==
    ASSUME TypeOK, ClientStep
    PROVE  TypeOK'
  <1>1. LinkTypeOK /\ CallTypes /\ RestTypes
    BY ClientTypeParts DEF TypeOK
  <1>2. Poll => LinkTypeOK' /\ CallTypes' /\ RestTypes'
    BY <1>1, PollType
  <1>3. ASSUME NEW ok \in BOOLEAN, CallReturns(ok), CanCall,
               ok \/ \E fault \in {"refused", "timed_out"} : CanFail(fault),
               active_club' \in Clubs \cup {None}
        PROVE  LinkTypeOK' /\ CallTypes' /\ RestTypes'
    <2>1. faults' \in 0..MaxFaults
      BY <1>1, <1>3 DEF CallReturns, Spend, CanFail, CallTypes
    <2>2. CallTypes'
      BY <1>1, <1>3, <2>1 DEF CallReturns, CallTypes
    <2> QED BY <1>1, <1>3, <2>2
            DEF CallReturns, linkVars, watchdogVars, shotVars, LinkTypeOK, RestTypes
  <1>4. ASSUME NEW o \in WriteOutcomes, Configure(o)
        PROVE  LinkTypeOK' /\ CallTypes' /\ RestTypes'
    BY <1>1, <1>3, <1>4 DEF Configure, WriteOutcomes, RestTypes
  <1>5. ASSUME NEW c \in Clubs, NEW o \in WriteOutcomes, SelectClub(c, o)
        PROVE  LinkTypeOK' /\ CallTypes' /\ RestTypes'
    <2>1. active_club' \in Clubs \cup {None}
      BY <1>1, <1>5 DEF SelectClub, RestTypes
    <2> QED BY <1>3, <1>5, <2>1 DEF SelectClub, WriteOutcomes
  <1>6. ASSUME NEW c \in Clubs, NEW o \in WriteOutcomes, NEW p \in WriteOutcomes,
               Arm(c, o, p)
        PROVE  LinkTypeOK' /\ CallTypes' /\ RestTypes'
    <2>1. active_club' \in Clubs \cup {None}
      BY <1>1, <1>6 DEF Arm, RestTypes
    <2> QED BY <1>3, <1>6, <2>1 DEF Arm, WriteOutcomes
  <1>7. LinkTypeOK' /\ CallTypes' /\ RestTypes'
    <2>1. Poll \/ Call
      BY DEF ClientStep, ClientNext
    <2> QED BY <1>2, <1>4, <1>5, <1>6, <2>1 DEF Call
  <1>8. ClientTypeOK'
    BY <1>7 DEF ClientTypeOK, CallTypes, RestTypes
  <1>9. UNCHANGED <<taken, notes, devState>> /\ UNCHANGED <<sessions, base, hits>>
    BY DEF ClientStep, omniVars, sessionVars
  <1>10. OmniTypeOK' /\ base' \in 0..taken' /\ sessions' \in Nat
         /\ hits' \in Seq(Clubs \cup {None})
    BY <1>9 DEF TypeOK, OmniTypeOK
  <1> QED BY <1>7, <1>8, <1>10 DEF TypeOK

\* A notification sent twice leaves the connection well-typed.
LEMMA TwiceType ==
    ASSUME LinkTypeOK, NEW f \in Frame, WellFormed(f), evt' = Twice(f),
           cmd' \in Seq(Command), UNCHANGED link
    PROVE  LinkTypeOK'
  <1>1. evt \in Seq(Frame)
    BY DEF LinkTypeOK
  <1>2. /\ evt' \in Seq(Frame) /\ Len(evt') = Len(evt) + 2
        /\ \A i \in 1..Len(evt) : evt'[i] = evt[i]
        /\ evt'[Len(evt) + 1] = f /\ evt'[Len(evt) + 2] = f
    BY <1>1, TwiceFacts DEF Twice
  <1>3. ASSUME NEW i \in DOMAIN evt' PROVE WellFormed(evt'[i])
    <2>1. i \in 1..Len(evt) \/ i = Len(evt) + 1 \/ i = Len(evt) + 2
      BY <1>1, <1>2
    <2> QED BY <1>1, <1>2, <2>1 DEF LinkTypeOK
  <1> QED BY <1>2, <1>3 DEF LinkTypeOK

\* Every step of the device, and every way of losing it, keeps the types.
LEMMA DeviceType ==
    ASSUME LinkTypeOK, OmniTypeOK, OmniNext
    PROVE  LinkTypeOK' /\ OmniTypeOK' /\ taken \in Nat /\ taken <= taken'
  <1> USE DEF linkVars, omniVars
  <1>0. taken \in Nat /\ cmd \in Seq(Command)
    BY DEF OmniTypeOK, LinkTypeOK, Shots
  <1>1. CASE Hit
    <2>1. OmniTypeOK' /\ taken + 1 \in Shots
      BY <1>1 DEF Hit, OmniTypeOK, Shots
    <2>2. Frm("ball", taken + 1) \in Frame /\ WellFormed(Frm("ball", taken + 1))
      BY <1>0, <2>1 DEF Frm, Frame, Kinds, WellFormed
    <2>3. LinkTypeOK'
      BY <1>0, <1>1, <2>2, TwiceType DEF Hit, LinkTypeOK
    <2> QED BY <1>0, <1>1, <2>1, <2>3 DEF Hit
  <1>2. CASE Answer
    <2>1. Head(cmd) \in Command /\ cmd' \in Seq(Command)
      BY <1>0, <1>2 DEF Answer
    <2> DEFINE f == AnswerTo(Head(cmd).type)
    <2>2. Head(cmd).type \in Answerable
      BY <2>1 DEF Command
    <2>3. f \in Frame /\ WellFormed(f)
      BY <2>2 DEF Answerable, AnswerTo, Frm, Frame, Kinds, WellFormed, OmniTypeOK, Shots
    <2>4. LinkTypeOK'
      BY <1>2, <2>1, <2>3, TwiceType DEF Answer
    <2> QED BY <1>0, <1>2, <2>4 DEF Answer, OmniTypeOK
  <1>3. CASE ServeRetained
    <2>1. Frm("club", taken) \in Frame /\ WellFormed(Frm("club", taken))
      BY <1>0 DEF Frm, Frame, Kinds, WellFormed, OmniTypeOK
    <2>2. LinkTypeOK'
      BY <1>0, <1>3, <2>1, TwiceType DEF ServeRetained
    <2> QED BY <1>0, <1>3, <2>2 DEF ServeRetained, OmniTypeOK
  <1>4. CASE Notify
    <2>1. notes' \in 0..MaxNotes
      BY <1>4 DEF Notify, OmniTypeOK
    <2>2. Frm("note", notes') \in Frame /\ WellFormed(Frm("note", notes'))
      BY <2>1 DEF Frm, Frame, Kinds, WellFormed
    <2>3. LinkTypeOK'
      BY <1>0, <1>4, <2>2, TwiceType DEF Notify
    <2> QED BY <1>0, <1>4, <2>1, <2>3 DEF Notify, OmniTypeOK
  <1>5. CASE ChangeState
    <2>1. devState' \in DevStates /\ devState' \in Nat
      BY <1>5 DEF ChangeState
    <2>2. Frm("ack", devState') \in Frame /\ WellFormed(Frm("ack", devState'))
      BY <2>1 DEF Frm, Frame, Kinds, WellFormed
    <2>3. LinkTypeOK'
      <3>1. CASE evt' = evt
        BY <1>0, <1>5, <3>1 DEF ChangeState, LinkTypeOK
      <3>2. CASE evt' = Twice(Frm("ack", devState'))
        BY <1>0, <1>5, <2>2, <3>2, TwiceType DEF ChangeState, LinkTypeOK
      <3> QED BY <1>5, <3>1, <3>2 DEF ChangeState
    <2> QED BY <1>0, <1>5, <2>1, <2>3 DEF ChangeState, OmniTypeOK
  <1>6. CASE Teardown
    <2>1. Frm("empty", 0) \in Frame /\ WellFormed(Frm("empty", 0))
      BY DEF Frm, Frame, Kinds, WellFormed
    <2>2. evt' \in Seq(Frame) /\ Len(evt') = Len(evt) + 1
      BY <1>6, <2>1 DEF Teardown, LinkTypeOK
    <2>3. ASSUME NEW i \in DOMAIN evt' PROVE WellFormed(evt'[i])
      BY <1>6, <2>1, <2>2 DEF Teardown, LinkTypeOK
    <2>4. LinkTypeOK'
      BY <1>6, <2>2, <2>3 DEF Teardown, LinkTypeOK
    <2> QED BY <1>0, <1>6, <2>4 DEF Teardown, OmniTypeOK
  <1>7. CASE LinkLost
    <2>1. PICK k \in 0..Len(evt) : evt' = SubSeq(evt, 1, k)
      BY <1>7 DEF LinkLost
    <2>2. evt' \in Seq(Frame) /\ Len(evt') = k /\ \A i \in 1..k : evt'[i] = evt[i]
      BY <2>1 DEF LinkTypeOK
    <2>3. ASSUME NEW i \in DOMAIN evt' PROVE WellFormed(evt'[i])
      BY <2>1, <2>2 DEF LinkTypeOK
    <2>4. LinkTypeOK'
      BY <1>7, <2>2, <2>3 DEF LinkLost, LinkTypeOK
    <2> QED BY <1>0, <1>7, <2>4 DEF LinkLost, OmniTypeOK
  <1> QED BY <1>1, <1>2, <1>3, <1>4, <1>5, <1>6, <1>7 DEF OmniNext, DeviceNext

\* Ages stay natural, and below the limit at which they saturate.
LEMMA OlderType ==
    ASSUME NEW limit \in Nat, NEW age \in Nat
    PROVE  /\ Older(age, limit) \in Nat
           /\ age <= limit => Older(age, limit) \in 0..limit
           /\ age < limit => Older(age, limit) = age + 1
           /\ Older(age, limit) <= age + 1
  BY DEF Older

\* Type correctness: every variable of client, device and connection keeps its
\* type in every behaviour.
THEOREM TypeCorrect == Spec => []TypeOK
  <1>1. Init => TypeOK
    <2> SUFFICES ASSUME Init PROVE TypeOK
      OBVIOUS
    <2>1. LinkTypeOK
      BY DEF Init, LinkInit, LinkTypeOK
    <2>2. ClientTypeOK
      BY DEF Init, ClientInit, ClientTypeOK, Shots, LINK_TIMEOUT
    <2>3. OmniTypeOK /\ sessions \in Nat /\ base \in 0..taken
          /\ hits \in Seq(Clubs \cup {None})
      BY DEF Init, OmniInit, OmniTypeOK, Shots
    <2> QED BY <2>1, <2>2, <2>3 DEF TypeOK
  <1>2. TypeOK /\ [Next]_vars => TypeOK'
    <2> SUFFICES ASSUME TypeOK, [Next]_vars PROVE TypeOK'
      OBVIOUS
    <2>0. /\ LinkTypeOK /\ OmniTypeOK /\ CallTypes /\ RestTypes
          /\ base \in Nat /\ taken \in Nat /\ base <= taken
      BY ClientTypeParts DEF TypeOK, OmniTypeOK, Shots
    <2>1. CASE ClientStep
      BY <2>1, ClientType
    <2>2. CASE DeviceStep
      <3>1. LinkTypeOK' /\ OmniTypeOK' /\ taken <= taken' /\ taken' \in Nat
        BY <2>0, <2>2, DeviceType DEF DeviceStep, OmniTypeOK, Shots
      <3>2. ClientTypeOK'
        BY <2>2 DEF DeviceStep, clientVars, watchdogVars, shotVars, callVars,
                    TypeOK, ClientTypeOK
      <3>3. hits' \in Seq(Clubs \cup {None})
        BY <2>0, <2>2 DEF DeviceStep, TypeOK, RestTypes
      <3>4. base' \in 0..taken' /\ sessions' \in Nat
        BY <2>0, <2>2, <3>1 DEF DeviceStep, TypeOK
      <3> QED BY <3>1, <3>2, <3>3, <3>4 DEF TypeOK
    <2>3. CASE Tick
      <3>1. cmd' \in Seq(Command)
        <4>1. cmd \in Seq(Command) /\ Len(cmd) \in Nat
          BY <2>0 DEF LinkTypeOK
        <4>2. ASSUME NEW i \in DOMAIN cmd
              PROVE  [cmd[i] EXCEPT !.age = Older(@, Latency)] \in Command
          <5>1. cmd[i] \in Command
            BY <4>1
          <5>2. cmd[i].type \in Answerable /\ Older(cmd[i].age, Latency) \in Nat
            BY <5>1, OlderType DEF Command
          <5> QED BY <5>1, <5>2 DEF Command
        <4> QED BY <2>3, <4>1, <4>2 DEF Tick
      <3>2. LinkTypeOK'
        BY <2>0, <2>3, <3>1 DEF Tick, LinkTypeOK
      <3>3. CallTypes'
        BY <2>0, <2>3 DEF Tick, CallTypes
      <3>4. last_heartbeat' \in 0..HeartbeatInterval /\ last_data' \in 0..LINK_TIMEOUT
        <4>1. /\ last_heartbeat \in 0..HeartbeatInterval /\ last_data \in 0..LINK_TIMEOUT
              /\ LINK_TIMEOUT \in Nat
          BY <2>0 DEF RestTypes, LINK_TIMEOUT
        <4> QED BY <2>3, <4>1, OlderType DEF Tick
      <3>5. RestTypes'
        BY <2>0, <2>3, <3>4 DEF Tick, RestTypes, shotVars
      <3>6. UNCHANGED <<taken, notes, devState, sessions, base, hits>>
        BY <2>3 DEF Tick, omniVars, sessionVars
      <3>7. OmniTypeOK'
        BY <2>0, <3>6 DEF OmniTypeOK
      <3>8. sessions' \in Nat /\ base' \in 0..taken' /\ hits' \in Seq(Clubs \cup {None})
        BY <3>6 DEF TypeOK
      <3> QED BY <3>2, <3>3, <3>5, <3>7, <3>8 DEF TypeOK, ClientTypeOK, CallTypes, RestTypes
    <2>4. CASE Reopen
      <3>1. LinkTypeOK'
        BY <2>4 DEF Reopen, LinkTypeOK
      <3>2. CallTypes'
        BY <2>0, <2>4 DEF Reopen, New, CallTypes
      <3>3. RestTypes'
        <4>1. last_data' = 0 /\ 0 \in 0..LINK_TIMEOUT
          BY <2>4 DEF Reopen, New, LINK_TIMEOUT
        <4>2. last_heartbeat' = 0 /\ unanswered' = 0 /\ 0 \in 0..HeartbeatInterval
              /\ 0 \in 0..MaxUnanswered
          BY <2>4 DEF Reopen, New
        <4>3. /\ phase' = "Connecting" /\ last_rx' = NoBytes /\ state' = None
              /\ pending_shot' = None /\ awaiting_club' = FALSE /\ active_club' = None
              /\ seen' = taken /\ UNCHANGED <<surfaced, requests, noted>>
          BY <2>4 DEF Reopen, New
        <4> QED BY <2>0, <4>1, <4>2, <4>3 DEF RestTypes, OmniTypeOK
      <3>4. UNCHANGED <<taken, notes, devState, hits>> /\ base' = taken
            /\ sessions' = sessions + 1
        BY <2>4 DEF Reopen, omniVars
      <3>5. OmniTypeOK'
        BY <2>0, <3>4 DEF OmniTypeOK
      <3>6. sessions' \in Nat /\ base' \in 0..taken' /\ hits' \in Seq(Clubs \cup {None})
        BY <2>0, <3>4 DEF TypeOK
      <3> QED BY <3>1, <3>2, <3>3, <3>5, <3>6 DEF TypeOK, ClientTypeOK, CallTypes, RestTypes
    <2>5. CASE UNCHANGED vars
      <3>1. LinkTypeOK' /\ OmniTypeOK'
        BY <2>0, <2>5 DEF vars, linkVars, omniVars, LinkTypeOK, OmniTypeOK
      <3>2. ClientTypeOK'
        BY <2>5 DEF vars, clientVars, watchdogVars, shotVars, callVars, TypeOK, ClientTypeOK
      <3> QED BY <2>5, <3>1, <3>2 DEF vars, omniVars, sessionVars, TypeOK
    <2> QED BY <2>1, <2>2, <2>3, <2>4, <2>5 DEF Next
  <1> QED BY <1>1, <1>2, PTL DEF Spec
=============================================================================
