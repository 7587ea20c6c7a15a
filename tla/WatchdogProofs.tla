--------------------------- MODULE WatchdogProofs ---------------------------
(***************************************************************************)
(* The watchdog of `Client::poll`, for every value of the constants.  It   *)
(* does not cut a connection that is up, however long the caller pauses    *)
(* between polls, if the device answers within a heartbeat interval (by    *)
(* the inductive invariant WatchdogInv); a caller that polls in every tick *)
(* may have a slower device, and is told of silence (by Pace and Heard).   *)
(***************************************************************************)
EXTENDS SessionProofs

USE ClientAssumption, OmniAssumption DEF ClientAssumption, OmniAssumption

\* What WatchdogInv asks of a connection that is up.
Young == link = "up" => \A i \in DOMAIN cmd : cmd[i].age <= Latency

Accounted ==
    link = "up" /\ phase = "Active" /\ status = "open" /\ evt = <<>> =>
        /\ unanswered < UNANSWERED_HEARTBEATS
        /\ unanswered > 0 =>
              \E i \in DOMAIN cmd :
                  cmd[i].type = "heartbeat" /\ cmd[i].age >= last_heartbeat

LEMMA WatchdogParts ==
    WatchdogInv <=> /\ Young
                    /\ Accounted
                    /\ phase = "Connecting" => pc = "idle"
                    /\ NoFalseDisconnect
  BY DEF WatchdogInv, Young, Accounted

LEMMA WatchdogNext ==
    ASSUME Young', Accounted', NoFalseDisconnect', phase' = "Connecting" => pc' = "idle"
    PROVE  WatchdogInv'
  BY DEF WatchdogInv, Young, Accounted

Ages == /\ cmd \in Seq(Command)
        /\ last_heartbeat \in Nat
        /\ unanswered \in Nat

LEMMA AgesHold == TypeOK => Ages
  BY DEF TypeOK, LinkTypeOK, ClientTypeOK, Ages

\* A command more, written now: the others are still there.
LEMMA SentFacts ==
    ASSUME NEW q \in Seq(Command), NEW t \in Answerable, NEW o
    PROVE  /\ Sent(q, t, o) \in Seq(Command)
           /\ \A i \in DOMAIN q : i \in DOMAIN Sent(q, t, o) /\ Sent(q, t, o)[i] = q[i]
           /\ \A i \in DOMAIN Sent(q, t, o) :
                 (i \in DOMAIN q /\ Sent(q, t, o)[i] = q[i]) \/ Sent(q, t, o)[i].age = 0
           /\ link = "up" /\ o = "ok" =>
                 \E i \in DOMAIN Sent(q, t, o) :
                     Sent(q, t, o)[i].type = t /\ Sent(q, t, o)[i].age = 0
  <1> DEFINE c == [type |-> t, age |-> 0]
  <1>1. c \in Command
    BY DEF Command
  <1>2. CASE link = "up" /\ o # "refused"
    <2>1. Sent(q, t, o) = Append(q, c)
      BY <1>2 DEF Sent
    <2>2. /\ Append(q, c) \in Seq(Command) /\ Len(q) \in Nat
          /\ DOMAIN q = 1..Len(q) /\ DOMAIN Append(q, c) = 1..(Len(q) + 1)
          /\ \A i \in DOMAIN q : Append(q, c)[i] = q[i]
          /\ Append(q, c)[Len(q) + 1] = c
      BY <1>1
    <2>3. Len(q) + 1 \in DOMAIN Append(q, c) /\ c.type = t /\ c.age = 0
      BY <2>2
    <2>4. \A i \in DOMAIN Append(q, c) : i \in DOMAIN q \/ i = Len(q) + 1
      BY <2>2
    <2> HIDE DEF c
    <2> QED BY <2>1, <2>2, <2>3, <2>4
  <1>3. CASE ~(link = "up" /\ o # "refused")
    BY <1>3 DEF Sent
  <1> QED BY <1>2, <1>3

\* Writing a command that is not a heartbeat, or is not counted as one.
LEMMA MoreSent ==
    ASSUME Ages, Young, Accounted, UNCHANGED <<evt, link, phase, last_heartbeat, unanswered>>,
           status = "open", NEW t \in Answerable, NEW o, cmd' = Sent(cmd, t, o)
    PROVE  Young' /\ Accounted'
  <1>1. cmd \in Seq(Command)
    BY DEF Ages
  <1>2. Young'
    BY <1>1, SentFacts DEF Young
  <1>3. Accounted'
    BY <1>1, SentFacts DEF Accounted
  <1> QED BY <1>2, <1>3

-----------------------------------------------------------------------------
LEMMA PollKeepsWatchdog ==
    ASSUME Latency < HeartbeatInterval, TypeOK, WatchdogInv, Poll
    PROVE  WatchdogInv'
  <1> USE DEF linkVars, watchdogVars
  <1>0. /\ Ages /\ Young /\ Accounted /\ NoFalseDisconnect
        /\ phase = "Connecting" => pc = "idle"
        /\ cmd \in Seq(Command) /\ {"query", "heartbeat", "request"} = Answerable
    BY AgesHold, WatchdogParts DEF Ages, Answerable
  <1>1. CASE IdentityFails \/ PollNotDue \/ ReadFails \/ ReadClosed
    <2>1. /\ UNCHANGED <<evt, cmd, link, phase, last_heartbeat, unanswered>>
          /\ status = "open" /\ status' # "tripped"
      BY <1>1 DEF IdentityFails, PollNotDue, ReadFails, ReadClosed, CanCall, Reading,
                  Returns, Disconnected
    <2>2. phase' = "Connecting" => pc' = "idle"
      BY <1>1 DEF IdentityFails, PollNotDue, ReadFails, ReadClosed, Returns, Disconnected
    <2>9. Young' /\ Accounted' /\ NoFalseDisconnect'
      BY <1>0, <2>1, <2>2 DEF Young, Accounted, NoFalseDisconnect
    <2> QED BY <1>0, <2>1, <2>2, <2>9, WatchdogNext
  <1>2. CASE GreetingFails
    <2>1. status' # "tripped" /\ phase' = "Connecting" /\ pc' = "idle" /\ link' = link
      BY <1>2 DEF GreetingFails, CanCall, Returns
    <2>2. Young'
      <3>1. PICK o : cmd' \in {Sent(cmd, "query", o),
                               Sent(Sent(cmd, "query", "ok"), "heartbeat", o)}
        BY <1>2 DEF GreetingFails
      <3>2. CASE cmd' = Sent(cmd, "query", o)
        <4>1. \A i \in DOMAIN cmd' : \/ i \in DOMAIN cmd /\ cmd'[i] = cmd[i]
                                     \/ cmd'[i].age = 0
          BY <1>0, <3>2, SentFacts
        <4> QED BY <1>0, <2>1, <4>1 DEF Young
      <3>3. CASE cmd' = Sent(Sent(cmd, "query", "ok"), "heartbeat", o)
        <4> DEFINE q == Sent(cmd, "query", "ok")
        <4>1. /\ q \in Seq(Command)
              /\ \A i \in DOMAIN q : (i \in DOMAIN cmd /\ q[i] = cmd[i]) \/ q[i].age = 0
          BY <1>0, SentFacts
        <4>0. "heartbeat" \in Answerable
          BY DEF Answerable
        <4> HIDE DEF q
        <4>2. \A i \in DOMAIN Sent(q, "heartbeat", o) :
                 \/ i \in DOMAIN q /\ Sent(q, "heartbeat", o)[i] = q[i]
                 \/ Sent(q, "heartbeat", o)[i].age = 0
          BY <4>1, <4>0, SentFacts
        <4>3. \A i \in DOMAIN cmd' : \/ i \in DOMAIN cmd /\ cmd'[i] = cmd[i]
                                     \/ cmd'[i].age = 0
          BY <3>3, <4>1, <4>2 DEF q
        <4> QED BY <1>0, <2>1, <4>3 DEF Young
      <3> QED BY <3>1, <3>2, <3>3
    <2>9. Young' /\ Accounted' /\ NoFalseDisconnect'
      BY <2>1, <2>2 DEF Accounted, NoFalseDisconnect
    <2> QED BY <2>1, <2>2, <2>9, WatchdogNext
  <1>3. CASE Connect
    <2> DEFINE q == Sent(cmd, "query", "ok")
    <2>1. /\ cmd' = Sent(q, "heartbeat", "ok") /\ link' = link /\ status' = status
          /\ status = "open" /\ phase' = "Active" /\ last_heartbeat' = 0 /\ unanswered' = 1
      BY <1>3 DEF Connect, CanCall, Returns
    <2>2. /\ q \in Seq(Command)
          /\ \A i \in DOMAIN q : (i \in DOMAIN cmd /\ q[i] = cmd[i]) \/ q[i].age = 0
      BY <1>0, SentFacts
    <2> HIDE DEF q
    <2>3. /\ \A i \in DOMAIN Sent(q, "heartbeat", "ok") :
                \/ i \in DOMAIN q /\ Sent(q, "heartbeat", "ok")[i] = q[i]
                \/ Sent(q, "heartbeat", "ok")[i].age = 0
          /\ link = "up" => \E i \in DOMAIN Sent(q, "heartbeat", "ok") :
                                /\ Sent(q, "heartbeat", "ok")[i].type = "heartbeat"
                                /\ Sent(q, "heartbeat", "ok")[i].age = 0
      BY <1>0, <2>2, SentFacts
    <2>4. Young'
      <3>1. \A i \in DOMAIN cmd' : \/ i \in DOMAIN cmd /\ cmd'[i] = cmd[i]
                                   \/ cmd'[i].age = 0
        BY <2>1, <2>2, <2>3
      <3> QED BY <1>0, <2>1, <3>1 DEF Young
    <2>5. Accounted'
      BY <2>1, <2>3 DEF Accounted, UNANSWERED_HEARTBEATS
    <2>9. Young' /\ Accounted' /\ NoFalseDisconnect'
      BY <2>1, <2>4, <2>5 DEF NoFalseDisconnect
    <2> QED BY <2>1, <2>4, <2>5, <2>9, WatchdogNext
  <1>4. CASE SendHeartbeat
    <2>1. /\ cmd' = Sent(cmd, "heartbeat", "ok") /\ UNCHANGED <<evt, link, phase, status>>
          /\ phase = "Active" /\ status = "open" /\ last_heartbeat >= HeartbeatInterval
          /\ last_heartbeat' = 0
          /\ unanswered' \in {unanswered, unanswered + 1}
      BY <1>4 DEF SendHeartbeat, CanCall, Due
    <2>2. /\ \A i \in DOMAIN cmd' : (i \in DOMAIN cmd /\ cmd'[i] = cmd[i]) \/ cmd'[i].age = 0
          /\ link = "up" => \E i \in DOMAIN cmd' : /\ cmd'[i].type = "heartbeat"
                                                   /\ cmd'[i].age = 0
      BY <1>0, <2>1, SentFacts
    <2>3. Young'
      BY <1>0, <2>1, <2>2 DEF Young
    <2>4. ASSUME link = "up", evt = <<>>
          PROVE  unanswered = 0
      <3>1. \A i \in DOMAIN cmd : cmd[i].age <= Latency /\ cmd[i].age \in Nat
        <4>1. \A i \in DOMAIN cmd : cmd[i] \in Command
          BY <1>0
        <4> QED BY <1>0, <2>4, <4>1 DEF Young, Command
      <3>2. \A i \in DOMAIN cmd : ~(cmd[i].age >= last_heartbeat)
        BY <1>0, <2>1, <3>1 DEF Ages
      <3> QED BY <1>0, <2>1, <2>4, <3>2 DEF Accounted, Ages
    <2>5. Accounted'
      <3>1. ASSUME link = "up", evt = <<>>
            PROVE  unanswered' < UNANSWERED_HEARTBEATS
        BY <2>1, <2>4, <3>1 DEF UNANSWERED_HEARTBEATS
      <3>2. link = "up" => \E i \in DOMAIN cmd' :
                              cmd'[i].type = "heartbeat" /\ cmd'[i].age >= last_heartbeat'
        BY <2>1, <2>2
      <3> QED BY <2>1, <3>1, <3>2 DEF Accounted
    <2>9. Young' /\ Accounted' /\ NoFalseDisconnect'
      BY <1>0, <2>1, <2>3, <2>5 DEF NoFalseDisconnect
    <2> QED BY <1>0, <2>1, <2>3, <2>5, <2>9, WatchdogNext
  <1>5. CASE HeartbeatFails
    <2>1. /\ UNCHANGED <<evt, link, phase, last_heartbeat, unanswered>> /\ status = "open"
          /\ pc' = "idle" /\ status' # "tripped" /\ \E o : cmd' = Sent(cmd, "heartbeat", o)
      BY <1>5 DEF HeartbeatFails, CanCall, Returns
    <2>2. Young' /\ Accounted'
      BY <1>0, <2>1, MoreSent
    <2>9. Young' /\ Accounted' /\ NoFalseDisconnect'
      BY <2>1, <2>2 DEF NoFalseDisconnect
    <2> QED BY <2>1, <2>2, <2>9, WatchdogNext
  <1>6. CASE ReadNothing
    <2>1. /\ UNCHANGED <<evt, cmd, link, phase, last_heartbeat, unanswered>>
          /\ status = "open" /\ evt = <<>> /\ pc' = "idle" /\ phase # "Connecting"
      BY <1>0, <1>6 DEF ReadNothing, Reading, Disconnected, Returns
    <2>2. Young' /\ Accounted'
      BY <1>0, <2>1 DEF Young, Accounted
    <2>3. NoFalseDisconnect'
      <3>1. CASE PresumedDead
        <4>1. ~(unanswered < UNANSWERED_HEARTBEATS)
          BY <1>0, <3>1 DEF PresumedDead, Ages, UNANSWERED_HEARTBEATS
        <4>2. phase = "Active"
          BY <2>1 DEF TypeOK, ClientTypeOK
        <4> QED BY <1>0, <2>1, <4>1, <4>2 DEF Accounted, NoFalseDisconnect
      <3>2. CASE ~PresumedDead
        BY <1>6, <2>1, <3>2 DEF ReadNothing, Returns, NoFalseDisconnect
      <3> QED BY <3>1, <3>2
    <2>9. Young' /\ Accounted' /\ NoFalseDisconnect'
      BY <2>1, <2>2, <2>3
    <2> QED BY <2>1, <2>2, <2>3, <2>9, WatchdogNext
  <1>7. CASE ReadTeardown
    <2>1. UNCHANGED <<cmd, link>> /\ status' = "closed" /\ pc' = "idle"
      BY <1>7 DEF ReadTeardown, Disconnected
    <2>9. Young' /\ Accounted' /\ NoFalseDisconnect'
      BY <1>0, <2>1 DEF Young, Accounted, NoFalseDisconnect
    <2> QED BY <1>0, <2>1, <2>9, WatchdogNext
  <1>8. CASE ReadDuplicate \/ ReadBall \/ ReadClub \/ ReadAck \/ ReadNote \/ ReadQuiet
    <2>1. TakeFrame /\ pc' = "idle" /\ status' # "tripped"
          /\ (cmd' = cmd \/ \E o : cmd' = Sent(cmd, "request", o))
      BY <1>8 DEF ReadDuplicate, ReadBall, ReadClub, ReadAck, ReadNote, ReadQuiet,
                  Accept, Returns, TakeFrame, Reading
    <2>2. unanswered' = 0 /\ UNCHANGED <<link, phase>>
      BY <2>1 DEF TakeFrame
    <2>3. Young'
      BY <1>0, <2>1, <2>2, SentFacts, SMTT(30) DEF Young
    <2>4. Accounted'
      BY <2>2 DEF Accounted, UNANSWERED_HEARTBEATS
    <2>9. Young' /\ Accounted' /\ NoFalseDisconnect'
      BY <2>1, <2>3, <2>4 DEF NoFalseDisconnect
    <2> QED BY <2>1, <2>3, <2>4, <2>9, WatchdogNext
  <1> QED BY <1>1, <1>2, <1>3, <1>4, <1>5, <1>6, <1>7, <1>8 DEF Poll

LEMMA DeviceKeepsWatchdog ==
    ASSUME TypeOK, WatchdogInv, OmniNext,
           UNCHANGED <<phase, status, pc, last_heartbeat, unanswered>>
    PROVE  WatchdogInv'
  <1> USE DEF linkVars, omniVars
  <1>0. /\ Ages /\ Young /\ Accounted /\ NoFalseDisconnect /\ evt \in Seq(Frame)
        /\ phase = "Connecting" => pc = "idle"
    BY AgesHold, WatchdogParts DEF TypeOK, LinkTypeOK
  <1>1. CASE Hit \/ ServeRetained \/ Notify \/ ChangeState
    <2>1. UNCHANGED <<cmd, link>>
      BY <1>1 DEF Hit, ServeRetained, Notify, ChangeState
    <2>2. link = "up" => evt' = evt \/ evt' # <<>>
      <3>1. link = "up" => evt' = evt \/ \E f : evt' = evt \o <<f, f>>
        BY <1>1 DEF Hit, ServeRetained, Notify, ChangeState, Twice
      <3>2. \A f : evt \o <<f, f>> # <<>>
        BY <1>0
      <3> QED BY <3>1, <3>2
    <2>3. Young' /\ Accounted' /\ NoFalseDisconnect'
      BY <1>0, <2>1, <2>2 DEF Young, Accounted, NoFalseDisconnect
    <2>9. Young' /\ Accounted' /\ NoFalseDisconnect'
      BY <1>0, <2>3
    <2> QED BY <1>0, <2>3, <2>9, WatchdogNext
  <1>2. CASE Answer
    <2>1. /\ UNCHANGED link /\ cmd' = Tail(cmd) /\ cmd # <<>>
          /\ \E f : evt' = evt \o <<f, f>>
      BY <1>2 DEF Answer, Twice
    <2>2. evt' # <<>>
      BY <1>0, <2>1
    <2>3. \A i \in DOMAIN cmd' : i + 1 \in DOMAIN cmd /\ cmd'[i] = cmd[i + 1]
      BY <1>0, <2>1 DEF Ages
    <2>4. Young' /\ Accounted' /\ NoFalseDisconnect'
      BY <1>0, <2>1, <2>2, <2>3 DEF Young, Accounted, NoFalseDisconnect
    <2>9. Young' /\ Accounted' /\ NoFalseDisconnect'
      BY <1>0, <2>4
    <2> QED BY <1>0, <2>4, <2>9, WatchdogNext
  <1>3. CASE Teardown \/ LinkLost
    <2>1. link' # "up"
      BY <1>3 DEF Teardown, LinkLost
    <2>9. Young' /\ Accounted' /\ NoFalseDisconnect'
      BY <1>0, <2>1 DEF Young, Accounted, NoFalseDisconnect
    <2> QED BY <1>0, <2>1, <2>9, WatchdogNext
  <1> QED BY <1>1, <1>2, <1>3 DEF OmniNext, DeviceNext

LEMMA TickKeepsWatchdog ==
    ASSUME TypeOK, WatchdogInv, Tick
    PROVE  WatchdogInv'
  <1>0. /\ Ages /\ Young /\ Accounted /\ NoFalseDisconnect
        /\ phase = "Connecting" => pc = "idle"
    BY AgesHold, WatchdogParts
  <1>1. /\ UNCHANGED <<evt, link, phase, unanswered, pc, status>>
        /\ last_heartbeat' = Older(last_heartbeat, HeartbeatInterval)
        /\ cmd' = [i \in DOMAIN cmd |-> [cmd[i] EXCEPT !.age = Older(@, Latency)]]
    BY DEF Tick
  <1>2. last_heartbeat' <= last_heartbeat + 1 /\ last_heartbeat' \in Nat
    BY <1>0, <1>1, OlderType DEF Ages
  <1>3. ASSUME link = "up", NEW i \in DOMAIN cmd
        PROVE  /\ cmd'[i].type = cmd[i].type /\ cmd'[i].age = cmd[i].age + 1
               /\ cmd[i].age \in Nat /\ cmd'[i].age <= Latency
    <2>1. cmd[i] \in Command /\ cmd[i].age < Latency
      BY <1>0, <1>3 DEF Tick, Ages
    <2>2. cmd[i].age \in Nat /\ Older(cmd[i].age, Latency) = cmd[i].age + 1
      BY <2>1, OlderType DEF Command
    <2>3. cmd'[i] = [cmd[i] EXCEPT !.age = Older(cmd[i].age, Latency)]
      BY <1>1
    <2> QED BY <2>1, <2>2, <2>3 DEF Command
  <1>4. DOMAIN cmd' = DOMAIN cmd
    BY <1>1
  <1>5. Young'
    BY <1>1, <1>3, <1>4 DEF Young
  <1>6. Accounted'
    <2> SUFFICES ASSUME link = "up", phase = "Active", status = "open", evt = <<>>
                 PROVE  /\ unanswered < UNANSWERED_HEARTBEATS
                        /\ unanswered > 0 =>
                             \E i \in DOMAIN cmd : /\ cmd'[i].type = "heartbeat"
                                                   /\ cmd'[i].age >= last_heartbeat'
      BY <1>1, <1>4 DEF Accounted
    <2>1. ASSUME unanswered > 0
          PROVE  \E i \in DOMAIN cmd : /\ cmd'[i].type = "heartbeat"
                                       /\ cmd'[i].age >= last_heartbeat'
      <3>1. PICK i \in DOMAIN cmd : cmd[i].type = "heartbeat" /\ cmd[i].age >= last_heartbeat
        BY <1>0, <2>1 DEF Accounted
      <3>2. cmd'[i].type = "heartbeat" /\ cmd'[i].age >= last_heartbeat'
        BY <1>0, <1>2, <1>3, <3>1 DEF Ages
      <3> QED BY <3>2
    <2> QED BY <1>0, <2>1 DEF Accounted
  <1>9. Young' /\ Accounted' /\ NoFalseDisconnect'
    BY <1>0, <1>1, <1>5, <1>6 DEF NoFalseDisconnect
  <1> QED BY <1>0, <1>1, <1>5, <1>6, <1>9, WatchdogNext

\* Every heartbeat that counts as unanswered is still with the device, and
\* young, or something it sent is waiting to be read (client.rs poll), if the
\* device answers within a heartbeat interval.
THEOREM WatchdogInvariant ==
    ASSUME Latency < HeartbeatInterval
    PROVE  Spec => []WatchdogInv
  <1>1. Init => WatchdogInv
    <2> SUFFICES ASSUME Init PROVE WatchdogInv
      OBVIOUS
    <2> QED BY DEF Init, LinkInit, ClientInit, WatchdogInv, NoFalseDisconnect
  <1>2. TypeOK /\ WatchdogInv /\ [Next]_vars => WatchdogInv'
    <2> SUFFICES ASSUME TypeOK, WatchdogInv, [Next]_vars PROVE WatchdogInv'
      OBVIOUS
    <2>0. /\ Young /\ Accounted /\ NoFalseDisconnect
          /\ phase = "Connecting" => pc = "idle"
      BY WatchdogParts
    <2>1. CASE ClientStep
      <3>1. CASE Poll
        BY <3>1, PollKeepsWatchdog
      <3>2. CASE Call
        <4>1. /\ UNCHANGED <<evt, cmd, link, phase, pc, last_heartbeat, unanswered>>
              /\ status = "open" /\ status' # "tripped"
          BY <3>2 DEF Call, Configure, SelectClub, Arm, CallReturns, CanCall, linkVars,
                      watchdogVars
        <4>9. Young' /\ Accounted' /\ NoFalseDisconnect'
          BY <2>0, <4>1 DEF Young, Accounted, NoFalseDisconnect
        <4> QED BY <2>0, <4>1, <4>9, WatchdogNext
      <3> QED BY <2>1, <3>1, <3>2 DEF ClientStep, ClientNext
    <2>2. CASE DeviceStep
      BY <2>2, DeviceKeepsWatchdog DEF DeviceStep, clientVars, watchdogVars, callVars
    <2>3. CASE Tick
      BY <2>3, TickKeepsWatchdog
    <2>4. CASE Reopen
      BY <2>4 DEF Reopen, New, WatchdogInv, NoFalseDisconnect
    <2>5. CASE UNCHANGED vars
      <3>1. Young' /\ Accounted' /\ NoFalseDisconnect' /\ UNCHANGED <<phase, pc>>
        BY <2>0, <2>5 DEF vars, linkVars, clientVars, watchdogVars, callVars, Young,
                          Accounted, NoFalseDisconnect
      <3> QED BY <2>0, <3>1, WatchdogNext
    <2> QED BY <2>1, <2>2, <2>3, <2>4, <2>5 DEF Next
  <1> QED BY <1>1, <1>2, TypeCorrect, PTL DEF Spec

\* The watchdog never fires on a connection that is up, whatever pauses the
\* caller makes, if the device answers within a heartbeat interval (client.rs
\* poll).
THEOREM WatchdogSound ==
    ASSUME Latency < HeartbeatInterval
    PROVE  Spec => []NoFalseDisconnect
  <1>1. WatchdogInv => NoFalseDisconnect
    BY DEF WatchdogInv
  <1> QED BY <1>1, WatchdogInvariant, PTL

-----------------------------------------------------------------------------
(***************************************************************************)
(* A caller that polls in every tick.  Its heartbeats are never more than  *)
(* one tick late, so silence makes two of them count before LINK_TIMEOUT   *)
(* is over (Pace), and none of it is blamed on a device that answers in    *)
(* what is left of LINK_TIMEOUT after the first (Heard).                   *)
(***************************************************************************)
\* The age of the last heartbeat, or a bound: Older does not count a tick more.
HeartbeatAge ==
    IF last_heartbeat = HeartbeatInterval /\ pc = "idle" /\ ~polled
    THEN HeartbeatInterval + 1
    ELSE last_heartbeat

\* No heartbeat has failed here: one that fails is not counted as sent, and a
\* caller that goes on after that may be late by more than a tick.
Beating == /\ Prompt /\ status = "open" /\ phase = "Active"
           /\ link = "up" \/ AfterError = {"closed"}

Pace ==
    Beating =>
        /\ pc = "read" /\ polled => last_heartbeat < HeartbeatInterval
        /\ unanswered = 0 => last_data <= HeartbeatAge
        /\ unanswered = 1 => last_data <= HeartbeatAge + HeartbeatInterval + 1

Heard ==
    Beating /\ link = "up" /\ evt = <<>> /\ unanswered > 0 =>
        \E i \in DOMAIN cmd : last_data <= cmd[i].age + HeartbeatInterval + 1

Clock == /\ last_heartbeat \in Nat /\ last_heartbeat <= HeartbeatInterval
         /\ last_data \in Nat /\ last_data <= 3 * HeartbeatInterval
         /\ unanswered \in Nat
         /\ polled \in BOOLEAN
         /\ HeartbeatInterval \in Nat /\ HeartbeatInterval > 0

LEMMA ClockHolds == TypeOK => Clock
  BY DEF TypeOK, ClientTypeOK, Clock, LINK_TIMEOUT

\* Nothing of the clock moves, no read begins, and a poll may end.
LEMMA PaceKept ==
    ASSUME Clock, Pace, UNCHANGED <<last_heartbeat, last_data, unanswered>>, Beating,
           \/ pc' = pc /\ polled' = polled
           \/ pc' = "read" /\ polled' = polled /\ last_heartbeat < HeartbeatInterval
           \/ pc = "read" /\ pc' = "idle" /\ polled' = TRUE
    PROVE  Pace'
  BY DEF Clock, Pace, HeartbeatAge

\* A failed call on a connection that is up, or by a caller that then gives up.
LEMMA FailureEnds ==
    ASSUME AfterError = {"closed"} \/ Faults = {}, Returns(FALSE), UNCHANGED link,
           \E fault \in {"refused", "timed_out", "read", "identity"} : CanFail(fault)
    PROVE  ~Beating'
  <1>1. AfterError = {"closed"} => status' = "closed"
    BY DEF Returns
  <1>2. Faults = {} => link' # "up"
    BY DEF CanFail
  <1> QED BY <1>1, <1>2 DEF Beating

LEMMA PollKeepsPace ==
    ASSUME AfterError = {"closed"} \/ Faults = {}, TypeOK, Pace, Heard, Poll
    PROVE  Pace' /\ Heard'
  <1> USE DEF linkVars, watchdogVars
  <1>0. /\ Clock /\ cmd \in Seq(Command)
        /\ {"query", "heartbeat", "request"} = Answerable
    BY ClockHolds, AgesHold DEF Ages, Answerable
  <1>1. CASE IdentityFails \/ GreetingFails \/ HeartbeatFails \/ ReadFails
    <2>1. ~Beating'
      <3>1. /\ Returns(FALSE) /\ UNCHANGED link
            /\ \E fault \in {"refused", "timed_out", "read", "identity"} : CanFail(fault)
        BY <1>1 DEF IdentityFails, GreetingFails, HeartbeatFails, ReadFails, WriteOutcomes
      <3> QED BY <3>1, FailureEnds
    <2> QED BY <2>1 DEF Pace, Heard
  <1>2. CASE ReadClosed \/ ReadTeardown
    <2>1. status' = "closed"
      BY <1>2 DEF ReadClosed, ReadTeardown, Disconnected
    <2> QED BY <2>1 DEF Pace, Heard, Beating
  <1>3. CASE Connect
    <2> DEFINE q == Sent(cmd, "query", "ok")
    <2>1. /\ cmd' = Sent(q, "heartbeat", "ok") /\ link' = link
          /\ last_heartbeat' = 0 /\ last_data' = 0 /\ unanswered' = 1 /\ pc' = "idle"
      BY <1>3 DEF Connect, Returns
    <2>2. q \in Seq(Command)
      BY <1>0, SentFacts
    <2> HIDE DEF q
    <2>3. link = "up" => \E i \in DOMAIN cmd' : cmd'[i].age = 0
      BY <1>0, <2>1, <2>2, SentFacts
    <2>4. Heard'
      BY <1>0, <2>1, <2>3 DEF Heard, Clock
    <2>5. Pace'
      BY <1>0, <2>1 DEF Pace, Clock, HeartbeatAge
    <2> QED BY <2>4, <2>5
  <1>4. CASE PollNotDue
    <2>1. /\ UNCHANGED <<evt, cmd, link, phase, status, last_heartbeat, last_data, unanswered>>
          /\ pc' = "read" /\ polled' = polled /\ last_heartbeat < HeartbeatInterval
      BY <1>0, <1>4 DEF PollNotDue, Due, Clock
    <2>2. Heard'
      BY <2>1 DEF Heard, Beating
    <2>3. Pace'
      <3>1. CASE Beating
        BY <1>0, <2>1, <3>1, PaceKept
      <3>2. CASE ~Beating
        BY <2>1, <3>2 DEF Pace, Beating
      <3> QED BY <3>1, <3>2
    <2> QED BY <2>2, <2>3
  <1>5. CASE SendHeartbeat
    <2>1. /\ cmd' = Sent(cmd, "heartbeat", "ok")
          /\ UNCHANGED <<evt, link, phase, status, last_data, polled>>
          /\ pc = "idle" /\ pc' = "read" /\ last_heartbeat = HeartbeatInterval
          /\ last_heartbeat' = 0
          /\ unanswered' # 0
          /\ unanswered' = 1 => unanswered = 0
      BY <1>0, <1>5 DEF SendHeartbeat, CanCall, Due, Clock, UNANSWERED_HEARTBEATS
    <2>2. Beating' <=> Beating
      BY <2>1 DEF Beating
    <2>3. Beating /\ unanswered = 0 => last_data <= HeartbeatInterval + 1
      BY <1>0, <2>1 DEF Pace, HeartbeatAge, Clock
    <2>4. Pace'
      BY <1>0, <2>1, <2>2, <2>3 DEF Pace, HeartbeatAge, Clock
    <2>5. Heard'
      <3> SUFFICES ASSUME Beating, link = "up", evt = <<>>
                   PROVE  \E i \in DOMAIN cmd' :
                              last_data <= cmd'[i].age + HeartbeatInterval + 1
        BY <2>1, <2>2 DEF Heard
      <3>1. CASE unanswered = 0
        <4>1. PICK i \in DOMAIN cmd' : cmd'[i].age = 0
          BY <1>0, <2>1, SentFacts
        <4> QED BY <1>0, <2>3, <3>1, <4>1 DEF Clock
      <3>2. CASE unanswered > 0
        <4>1. PICK i \in DOMAIN cmd : last_data <= cmd[i].age + HeartbeatInterval + 1
          BY <3>2 DEF Heard
        <4>2. i \in DOMAIN cmd' /\ cmd'[i] = cmd[i]
          BY <1>0, <2>1, SentFacts
        <4> QED BY <4>1, <4>2
      <3> QED BY <1>0, <3>1, <3>2 DEF Clock
    <2> QED BY <2>4, <2>5
  <1>6. CASE ReadNothing
    <2>1. CASE PresumedDead
      BY <1>6, <2>1 DEF ReadNothing, Disconnected, Pace, Heard, Beating
    <2>2. CASE ~PresumedDead
      <3>1. /\ UNCHANGED <<evt, cmd, link, phase, status, last_heartbeat, last_data, unanswered>>
            /\ pc = "read" /\ pc' = "idle" /\ polled' = TRUE
        BY <1>6, <2>2 DEF ReadNothing, Reading, Returns
      <3>2. Heard'
        BY <3>1 DEF Heard, Beating
      <3>3. Pace'
        <4>1. CASE Beating
          BY <1>0, <3>1, <4>1, PaceKept
        <4>2. CASE ~Beating
          BY <3>1, <4>2 DEF Pace, Beating
        <4> QED BY <4>1, <4>2
      <3> QED BY <3>2, <3>3
    <2> QED BY <2>1, <2>2
  <1>7. CASE ReadDuplicate \/ ReadBall \/ ReadClub \/ ReadAck \/ ReadNote \/ ReadQuiet
    <2>1. TakeFrame /\ pc' = "idle"
      BY <1>7 DEF ReadDuplicate, ReadBall, ReadClub, ReadAck, ReadNote, ReadQuiet,
                  Accept, Returns
    <2>2. unanswered' = 0 /\ last_data' = 0 /\ last_heartbeat' = last_heartbeat
      BY <2>1 DEF TakeFrame
    <2> QED BY <1>0, <2>1, <2>2 DEF Pace, Heard, HeartbeatAge, Clock
  <1> QED BY <1>1, <1>2, <1>3, <1>4, <1>5, <1>6, <1>7 DEF Poll

LEMMA TickKeepsPace ==
    ASSUME TypeOK, Pace, Heard, Tick
    PROVE  Pace' /\ Heard'
  <1>0. Clock /\ cmd \in Seq(Command)
    BY ClockHolds, AgesHold DEF Ages
  <1>1. /\ UNCHANGED <<evt, link, phase, unanswered, pc, status>>
        /\ last_heartbeat' = Older(last_heartbeat, HeartbeatInterval)
        /\ last_data' = Older(last_data, LINK_TIMEOUT)
        /\ cmd' = [i \in DOMAIN cmd |-> [cmd[i] EXCEPT !.age = Older(@, Latency)]]
        /\ polled' = ~Prompt
        /\ Prompt /\ status = "open" => polled
    BY DEF Tick
  <1>2. /\ last_heartbeat < HeartbeatInterval => last_heartbeat' = last_heartbeat + 1
        /\ last_heartbeat = HeartbeatInterval => last_heartbeat' = HeartbeatInterval
        /\ last_data' <= last_data + 1 /\ last_data' \in Nat
    <2>1. /\ last_heartbeat < HeartbeatInterval => last_heartbeat' = last_heartbeat + 1
          /\ last_heartbeat = HeartbeatInterval => last_heartbeat' = HeartbeatInterval
      BY <1>0, <1>1 DEF Clock, Older
    <2>2. LINK_TIMEOUT \in Nat
      BY <1>0 DEF Clock, LINK_TIMEOUT
    <2>3. last_data' <= last_data + 1 /\ last_data' \in Nat
      BY <1>0, <1>1, <2>2 DEF Clock, Older
    <2> QED BY <2>1, <2>3
  <1>3. Beating' <=> Beating
    BY <1>1 DEF Beating
  <1>4. Pace'
    <2> SUFFICES ASSUME Beating, Pace
                 PROVE  /\ ~(pc' = "read" /\ polled')
                        /\ unanswered = 0 => last_data' <= HeartbeatAge'
                        /\ unanswered = 1 => last_data' <= HeartbeatAge' + HeartbeatInterval + 1
      BY <1>1, <1>3 DEF Pace
    <2>1. polled /\ ~polled'
      BY <1>1 DEF Beating
    <2>2. HeartbeatAge = last_heartbeat
      BY <2>1 DEF HeartbeatAge
    <2>3. HeartbeatAge' >= last_heartbeat + 1 /\ HeartbeatAge' \in Nat
      <3>1. CASE last_heartbeat < HeartbeatInterval
        BY <1>0, <1>2, <3>1 DEF HeartbeatAge, Clock
      <3>2. CASE last_heartbeat = HeartbeatInterval
        <4>1. pc = "idle"
          BY <1>0, <2>1, <3>2 DEF Pace, Clock, TypeOK, ClientTypeOK
        <4> QED BY <1>0, <1>1, <1>2, <2>1, <3>2, <4>1 DEF HeartbeatAge, Clock
      <3> QED BY <1>0, <3>1, <3>2 DEF Clock
    <2>4. /\ unanswered = 0 => last_data <= last_heartbeat
          /\ unanswered = 1 => last_data <= last_heartbeat + HeartbeatInterval + 1
      BY <2>2 DEF Pace
    <2>5. /\ last_data \in Nat /\ last_heartbeat \in Nat /\ HeartbeatInterval \in Nat
          /\ last_data' \in Nat /\ last_data' <= last_data + 1
      BY <1>0, <1>2 DEF Clock
    <2>6. unanswered = 0 => last_data' <= HeartbeatAge'
      BY <2>3, <2>4, <2>5
    <2>7. unanswered = 1 => last_data' <= HeartbeatAge' + HeartbeatInterval + 1
      <3>1. \A d, dd, h, a, k \in Nat :
               dd <= d + 1 /\ d <= h + k + 1 /\ a >= h + 1 => dd <= a + k + 1
        OBVIOUS
      <3> QED BY <2>3, <2>4, <2>5, <3>1
    <2> QED BY <2>1, <2>6, <2>7, Zenon
  <1>5. Heard'
    <2> SUFFICES ASSUME Beating, link = "up", evt = <<>>, unanswered > 0
                 PROVE  \E i \in DOMAIN cmd' :
                            last_data' <= cmd'[i].age + HeartbeatInterval + 1
      BY <1>1, <1>3 DEF Heard
    <2>1. PICK i \in DOMAIN cmd : last_data <= cmd[i].age + HeartbeatInterval + 1
      BY DEF Heard
    <2>2. i \in DOMAIN cmd' /\ cmd'[i].age = cmd[i].age + 1 /\ cmd[i].age \in Nat
      <3>1. cmd[i] \in Command /\ cmd[i].age < Latency
        BY <1>0 DEF Tick
      <3>2. cmd[i].age \in Nat /\ Older(cmd[i].age, Latency) = cmd[i].age + 1
        BY <3>1, OlderType DEF Command
      <3>3. cmd'[i] = [cmd[i] EXCEPT !.age = Older(cmd[i].age, Latency)]
            /\ DOMAIN cmd' = DOMAIN cmd
        BY <1>1
      <3> QED BY <3>1, <3>2, <3>3 DEF Command
    <2> QED BY <1>0, <1>2, <2>1, <2>2 DEF Clock
  <1> QED BY <1>4, <1>5

LEMMA DeviceKeepsPace ==
    ASSUME TypeOK, Pace, Heard, OmniNext,
           UNCHANGED <<phase, status, pc, polled, last_heartbeat, last_data, unanswered>>
    PROVE  Pace' /\ Heard'
  <1> USE DEF linkVars, omniVars
  <1>0. evt \in Seq(Frame)
    BY DEF TypeOK, LinkTypeOK
  <1>1. link' = link \/ link' # "up"
    BY DEF OmniNext, DeviceNext, Hit, Answer, ServeRetained, Notify, ChangeState,
           Teardown, LinkLost
  <1>2. Beating' => Beating
    BY <1>1 DEF Beating
  <1>3. Pace'
    <2>1. HeartbeatAge' = HeartbeatAge
      BY DEF HeartbeatAge
    <2> QED BY <1>2, <2>1 DEF Pace
  <1>4. link' = "up" /\ evt' = <<>> => link = "up" /\ evt = <<>> /\ cmd' = cmd
    <2>1. CASE Hit \/ ServeRetained \/ Notify \/ ChangeState \/ Answer
      <3>1. \/ evt' = evt /\ cmd' = cmd /\ link' = link
            \/ link' # "up"
            \/ \E f : evt' = evt \o <<f, f>>
        BY <2>1 DEF Hit, ServeRetained, Notify, ChangeState, Answer, Twice
      <3>2. \A f : evt \o <<f, f>> # <<>>
        BY <1>0
      <3> QED BY <3>1, <3>2
    <2>2. CASE Teardown \/ LinkLost
      BY <2>2 DEF Teardown, LinkLost
    <2> QED BY <2>1, <2>2 DEF OmniNext, DeviceNext
  <1>5. Heard'
    BY <1>2, <1>4 DEF Heard
  <1> QED BY <1>3, <1>5

\* The pace of such a caller's heartbeats, step by step.
LEMMA PaceStep ==
    ASSUME AfterError = {"closed"} \/ Faults = {}
    PROVE  TypeOK /\ Pace /\ Heard /\ [Next]_vars => Pace' /\ Heard'
  <1> SUFFICES ASSUME TypeOK, Pace, Heard, [Next]_vars PROVE Pace' /\ Heard'
    OBVIOUS
  <1>1. CASE ClientStep
    <2>1. CASE Poll
      BY <2>1, PollKeepsPace
    <2>2. CASE Call
      <3>1. /\ UNCHANGED <<evt, cmd, link, phase, pc, polled, last_heartbeat, last_data,
                           unanswered>>
            /\ status = "open"
        BY <2>2 DEF Call, Configure, SelectClub, Arm, CallReturns, CanCall, linkVars,
                    watchdogVars
      <3>2. Beating' => Beating
        BY <3>1 DEF Beating
      <3>3. HeartbeatAge' = HeartbeatAge
        BY <3>1 DEF HeartbeatAge
      <3> QED BY <3>1, <3>2, <3>3 DEF Pace, Heard
    <2> QED BY <1>1, <2>1, <2>2 DEF ClientStep, ClientNext
  <1>2. CASE DeviceStep
    BY <1>2, DeviceKeepsPace DEF DeviceStep, clientVars, watchdogVars, callVars
  <1>3. CASE Tick
    BY <1>3, TickKeepsPace
  <1>4. CASE Reopen
    BY <1>4 DEF Reopen, New, Pace, Heard, Beating
  <1>5. CASE UNCHANGED vars
    <2>1. UNCHANGED <<evt, cmd, link, phase, status, pc, polled, last_heartbeat, last_data,
                      unanswered>>
      BY <1>5 DEF vars, linkVars, clientVars, watchdogVars, callVars
    <2>2. HeartbeatAge' = HeartbeatAge
      BY <2>1 DEF HeartbeatAge
    <2> QED BY <2>1, <2>2 DEF Pace, Heard, Beating
  <1> QED BY <1>1, <1>2, <1>3, <1>4, <1>5 DEF Next

LEMMA PaceInit == Init => Pace /\ Heard
  <1> SUFFICES ASSUME Init PROVE Pace /\ Heard
    OBVIOUS
  <1>1. phase = "Connecting"
    BY DEF Init, ClientInit
  <1> QED BY <1>1 DEF Pace, Heard, Beating

\* A poll that comes back empty-handed from a silent connection has been beaten
\* to it by the watchdog.
LEMMA SilenceStep ==
    ASSUME AfterError = {"closed"}, HeartbeatInterval > 1
    PROVE  TypeOK /\ Pace /\ SilenceBounded /\ [Next]_vars => SilenceBounded'
  <1> SUFFICES ASSUME TypeOK, Pace, SilenceBounded, [Next]_vars,
                      Prompt, status' = "open", phase' = "Active", pc' = "idle", polled'
               PROVE  last_data' < LINK_TIMEOUT
    BY DEF SilenceBounded
  <1>0. Clock /\ LINK_TIMEOUT \in Nat /\ LINK_TIMEOUT > 0
    BY ClockHolds DEF Clock, LINK_TIMEOUT
  <1>1. CASE UNCHANGED <<phase, status, pc, polled, last_data>>
    BY <1>1 DEF SilenceBounded
  <1>2. CASE Poll
    <2>1. ~(IdentityFails \/ GreetingFails \/ HeartbeatFails \/ ReadFails)
      BY DEF IdentityFails, GreetingFails, HeartbeatFails, ReadFails, Returns
    <2>2. ~(ReadClosed \/ ReadTeardown \/ PollNotDue \/ SendHeartbeat)
      BY DEF ReadClosed, ReadTeardown, PollNotDue, SendHeartbeat, Disconnected
    <2>3. CASE Connect
      BY <1>0, <2>3 DEF Connect
    <2>4. CASE ReadNothing
      <3>1. /\ ~PresumedDead
            /\ UNCHANGED <<phase, status, last_data>> /\ pc = "read"
        BY <2>4 DEF ReadNothing, Reading, Disconnected, Returns, watchdogVars
      <3>2. CASE unanswered >= UNANSWERED_HEARTBEATS
        BY <1>0, <3>1, <3>2 DEF PresumedDead, Clock
      <3>3. CASE ~(unanswered >= UNANSWERED_HEARTBEATS)
        <4>1. Beating /\ HeartbeatAge = last_heartbeat /\ unanswered \in {0, 1}
          BY <1>0, <3>1, <3>3 DEF Beating, HeartbeatAge, UNANSWERED_HEARTBEATS, Clock
        <4>2. last_data <= 2 * HeartbeatInterval + 1
          BY <1>0, <4>1 DEF Pace, Clock
        <4> QED BY <1>0, <3>1, <4>2 DEF LINK_TIMEOUT, Clock
      <3> QED BY <3>2, <3>3
    <2>5. CASE ReadDuplicate \/ ReadBall \/ ReadClub \/ ReadAck \/ ReadNote \/ ReadQuiet
      <3>1. last_data' = 0
        BY <2>5 DEF ReadDuplicate, ReadBall, ReadClub, ReadAck, ReadNote, ReadQuiet,
                    Accept, TakeFrame
      <3> QED BY <1>0, <3>1
    <2> QED BY <1>2, <2>1, <2>2, <2>3, <2>4, <2>5 DEF Poll
  <1>3. CASE Call
    <2>1. UNCHANGED <<phase, pc, polled, last_data>> /\ status = "open"
      BY <1>3 DEF Call, Configure, SelectClub, Arm, CallReturns, CanCall, watchdogVars
    <2> QED BY <2>1 DEF SilenceBounded
  <1>4. CASE Tick
    BY <1>4 DEF Tick
  <1>5. CASE Reopen
    BY <1>5 DEF Reopen, New
  <1>6. CASE DeviceStep
    BY <1>1, <1>6 DEF DeviceStep, clientVars, watchdogVars, callVars
  <1>7. CASE UNCHANGED vars
    BY <1>1, <1>7 DEF vars, clientVars, watchdogVars, callVars
  <1> QED BY <1>2, <1>3, <1>4, <1>5, <1>6, <1>7 DEF Next, ClientStep, ClientNext

\* A caller that polls in every tick, at least twice in a heartbeat interval,
\* and gives up when a poll fails, never sees a poll come back empty-handed
\* once nothing has arrived for LINK_TIMEOUT (client.rs poll).
THEOREM SilenceTold ==
    ASSUME AfterError = {"closed"}, HeartbeatInterval > 1
    PROVE  Spec => []SilenceBounded
  <1>1. Init => SilenceBounded
    BY DEF Init, ClientInit, SilenceBounded
  <1>2. TypeOK /\ Pace /\ Heard /\ [Next]_vars => Pace' /\ Heard'
    BY PaceStep
  <1>3. TypeOK /\ Pace /\ SilenceBounded /\ [Next]_vars => SilenceBounded'
    BY SilenceStep
  <1> QED BY <1>1, <1>2, <1>3, PaceInit, TypeCorrect, PTL DEF Spec

-----------------------------------------------------------------------------
\* What a poll leaves with the device was there before it, or is new.
LEMMA PollKeepsYoung ==
    ASSUME TypeOK, Young, Poll
    PROVE  Young'
  <1> USE DEF linkVars
  <1>0. cmd \in Seq(Command) /\ {"query", "heartbeat", "request"} = Answerable
    BY AgesHold DEF Ages, Answerable
  <1>1. CASE UNCHANGED <<cmd, link>>
    BY <1>1 DEF Young
  <1>2. ASSUME UNCHANGED link, NEW t \in Answerable, NEW o, cmd' = Sent(cmd, t, o)
        PROVE  Young'
    BY <1>0, <1>2, SentFacts DEF Young
  <1>3. ASSUME UNCHANGED link, NEW o, cmd' = Sent(Sent(cmd, "query", "ok"), "heartbeat", o)
        PROVE  Young'
    <2> DEFINE q == Sent(cmd, "query", "ok")
    <2>1. /\ q \in Seq(Command)
          /\ \A i \in DOMAIN q : (i \in DOMAIN cmd /\ q[i] = cmd[i]) \/ q[i].age = 0
      BY <1>0, SentFacts
    <2> HIDE DEF q
    <2>2. \A i \in DOMAIN Sent(q, "heartbeat", o) :
             \/ i \in DOMAIN q /\ Sent(q, "heartbeat", o)[i] = q[i]
             \/ Sent(q, "heartbeat", o)[i].age = 0
      BY <1>0, <2>1, SentFacts
    <2>3. \A i \in DOMAIN cmd' : (i \in DOMAIN cmd /\ cmd'[i] = cmd[i]) \/ cmd'[i].age = 0
      BY <1>3, <2>1, <2>2 DEF q
    <2> QED BY <1>3, <2>3 DEF Young
  <1>4. CASE GreetingFails \/ Connect
    <2>1. /\ UNCHANGED link
          /\ \E o : \/ cmd' = Sent(cmd, "query", o)
                    \/ cmd' = Sent(Sent(cmd, "query", "ok"), "heartbeat", o)
      BY <1>4 DEF GreetingFails, Connect
    <2> QED BY <1>0, <1>2, <1>3, <2>1
  <1>5. CASE SendHeartbeat \/ HeartbeatFails
    <2>1. UNCHANGED link /\ \E o : cmd' = Sent(cmd, "heartbeat", o)
      BY <1>5 DEF SendHeartbeat, HeartbeatFails
    <2> QED BY <1>0, <1>2, <2>1
  <1>6. CASE ReadBall
    <2>1. UNCHANGED link /\ \E o : cmd' = Sent(cmd, "request", o)
      BY <1>6 DEF ReadBall, Accept, TakeFrame
    <2> QED BY <1>0, <1>2, <2>1
  <1>7. CASE \/ IdentityFails \/ PollNotDue \/ ReadClosed \/ ReadTeardown \/ ReadFails
             \/ ReadNothing \/ ReadDuplicate \/ ReadClub \/ ReadAck \/ ReadNote \/ ReadQuiet
    <2>1. UNCHANGED <<cmd, link>>
      BY <1>7 DEF IdentityFails, PollNotDue, ReadClosed, ReadTeardown, ReadFails,
                  ReadNothing, ReadDuplicate, ReadClub, ReadAck, ReadNote, ReadQuiet,
                  Accept, TakeFrame
    <2> QED BY <1>1, <2>1
  <1> QED BY <1>4, <1>5, <1>6, <1>7 DEF Poll

\* No command is with the device for longer than it takes to answer.
LEMMA YoungStep == TypeOK /\ Young /\ [Next]_vars => Young'
  <1> SUFFICES ASSUME TypeOK, Young, [Next]_vars PROVE Young'
    OBVIOUS
  <1> USE DEF linkVars
  <1>0. cmd \in Seq(Command)
    BY AgesHold DEF Ages
  <1>1. CASE UNCHANGED <<cmd, link>>
    BY <1>1 DEF Young
  <1>2. CASE Poll
    BY <1>2, PollKeepsYoung
  <1>3. CASE Call
    <2>1. UNCHANGED <<cmd, link>>
      BY <1>3 DEF Call, Configure, SelectClub, Arm, CallReturns
    <2> QED BY <1>1, <2>1
  <1>4. CASE DeviceStep
    <2>1. CASE Hit \/ ServeRetained \/ Notify \/ ChangeState
      BY <1>1, <2>1 DEF Hit, ServeRetained, Notify, ChangeState
    <2>2. CASE Answer
      <3>1. UNCHANGED link /\ cmd' = Tail(cmd) /\ cmd # <<>>
        BY <2>2 DEF Answer
      <3>2. \A i \in DOMAIN cmd' : i + 1 \in DOMAIN cmd /\ cmd'[i] = cmd[i + 1]
        BY <1>0, <3>1
      <3> QED BY <3>1, <3>2 DEF Young
    <2>3. CASE Teardown \/ LinkLost
      BY <2>3 DEF Teardown, LinkLost, Young
    <2> QED BY <1>4, <2>1, <2>2, <2>3 DEF DeviceStep, OmniNext, DeviceNext
  <1>5. CASE Tick
    <2>1. /\ link' = link
          /\ link = "up" => \A i \in DOMAIN cmd : cmd[i].age < Latency
          /\ cmd' = [i \in DOMAIN cmd |-> [cmd[i] EXCEPT !.age = Older(@, Latency)]]
      BY <1>5 DEF Tick
    <2>2. ASSUME link = "up", NEW i \in DOMAIN cmd
          PROVE  cmd'[i].age <= Latency
      <3>1. cmd[i] \in Command /\ cmd[i].age < Latency
        BY <1>0, <2>1, <2>2
      <3>2. Older(cmd[i].age, Latency) <= Latency
        BY <3>1 DEF Older, Command
      <3>3. cmd'[i] = [cmd[i] EXCEPT !.age = Older(cmd[i].age, Latency)]
        BY <2>1
      <3> QED BY <3>1, <3>2, <3>3 DEF Command
    <2>3. DOMAIN cmd' = DOMAIN cmd
      BY <2>1
    <2> QED BY <2>1, <2>2, <2>3 DEF Young
  <1>6. CASE Reopen
    BY <1>6 DEF Reopen, Young
  <1>7. CASE UNCHANGED vars
    BY <1>1, <1>7 DEF vars
  <1> QED BY <1>2, <1>3, <1>4, <1>5, <1>6, <1>7 DEF Next, ClientStep, ClientNext

\* A poll reads only when it is connected.
Greeting == phase = "Connecting" => pc = "idle"

LEMMA GreetingStep == TypeOK /\ Greeting /\ [Next]_vars => Greeting'
  <1> SUFFICES ASSUME TypeOK, Greeting, [Next]_vars PROVE Greeting'
    OBVIOUS
  <1>1. phase \in {"Connecting", "Active"}
    BY DEF TypeOK, ClientTypeOK
  <1>2. CASE Poll
    BY <1>1, <1>2
       DEF Poll, IdentityFails, GreetingFails, Connect, PollNotDue, SendHeartbeat,
           HeartbeatFails, ReadClosed, ReadTeardown, ReadFails, ReadNothing, ReadDuplicate,
           ReadBall, ReadClub, ReadAck, ReadNote, ReadQuiet, Accept, Returns, Disconnected,
           Greeting
  <1>3. CASE Call
    BY <1>3 DEF Call, Configure, SelectClub, Arm, CallReturns, Greeting
  <1>4. CASE DeviceStep
    BY <1>4 DEF DeviceStep, clientVars, callVars, Greeting
  <1>5. CASE Tick
    BY <1>5 DEF Tick, Greeting
  <1>6. CASE Reopen
    BY <1>6 DEF Reopen, New, Greeting
  <1>7. CASE UNCHANGED vars
    BY <1>7 DEF vars, clientVars, callVars, Greeting
  <1> QED BY <1>2, <1>3, <1>4, <1>5, <1>6, <1>7 DEF Next, ClientStep, ClientNext

\* Nobody else ends a connection as tripped, and none that did comes back up.
LEMMA PromptStep ==
    ASSUME Latency + HeartbeatInterval + 1 < LINK_TIMEOUT, Prompt
    PROVE  TypeOK /\ Heard /\ Young /\ Greeting /\ NoFalseDisconnect /\ [Next]_vars
             => NoFalseDisconnect'
  <1> SUFFICES ASSUME TypeOK, Heard, Young, Greeting, NoFalseDisconnect, [Next]_vars,
                      status' = "tripped"
               PROVE  link' # "up"
    BY DEF NoFalseDisconnect
  <1> USE DEF linkVars
  <1>1. CASE ReadNothing
    <2> SUFFICES ASSUME link = "up" PROVE FALSE
      BY <1>1 DEF ReadNothing
    <2>1. PresumedDead /\ evt = <<>> /\ status = "open" /\ phase = "Active"
      BY <1>1 DEF ReadNothing, Reading, Returns, Greeting, TypeOK, ClientTypeOK
    <2>2. Clock /\ cmd \in Seq(Command)
      BY ClockHolds, AgesHold DEF Ages
    <2>3. PICK i \in DOMAIN cmd : last_data <= cmd[i].age + HeartbeatInterval + 1
      BY <2>1, <2>2 DEF Heard, Beating, PresumedDead, UNANSWERED_HEARTBEATS, Clock
    <2>4. cmd[i].age \in Nat /\ cmd[i].age <= Latency
      <3>1. cmd[i] \in Command
        BY <2>2
      <3> QED BY <3>1 DEF Young, Command
    <2>5. last_data >= LINK_TIMEOUT
      BY <2>1 DEF PresumedDead
    <2> QED BY <2>2, <2>3, <2>4, <2>5 DEF Clock, LINK_TIMEOUT
  <1>2. CASE Poll /\ ~ReadNothing
    BY <1>2 DEF Poll, IdentityFails, GreetingFails, Connect, PollNotDue, SendHeartbeat,
                HeartbeatFails, ReadClosed, ReadTeardown, ReadFails, ReadDuplicate,
                ReadBall, ReadClub, ReadAck, ReadNote, ReadQuiet, Accept, Returns,
                Disconnected, CanCall, Reading, TakeFrame
  <1>3. CASE Call
    BY <1>3 DEF Call, Configure, SelectClub, Arm, CallReturns, CanCall
  <1>4. CASE DeviceStep
    BY <1>4 DEF DeviceStep, OmniNext, DeviceNext, Hit, Answer, ServeRetained, Notify,
                ChangeState, Teardown, LinkLost, clientVars, callVars, NoFalseDisconnect
  <1>5. CASE Tick
    BY <1>5 DEF Tick, NoFalseDisconnect
  <1>6. CASE Reopen
    BY <1>6 DEF Reopen, New
  <1>7. CASE UNCHANGED vars
    BY <1>7 DEF vars, clientVars, callVars, NoFalseDisconnect
  <1> QED BY <1>1, <1>2, <1>3, <1>4, <1>5, <1>6, <1>7 DEF Next, ClientStep, ClientNext

\* The watchdog never fires on a connection that is up although the device
\* takes longer than a heartbeat interval to answer, if the caller polls in
\* every tick and no heartbeat fails without the caller giving up (client.rs
\* poll).
THEOREM PromptCallerSafe ==
    ASSUME Latency + HeartbeatInterval + 1 < LINK_TIMEOUT, Prompt,
           AfterError = {"closed"} \/ Faults = {}
    PROVE  Spec => []NoFalseDisconnect
  <1>1. Init => Young /\ Greeting /\ NoFalseDisconnect
    BY DEF Init, LinkInit, ClientInit, Young, Greeting, NoFalseDisconnect
  <1>2. TypeOK /\ Pace /\ Heard /\ [Next]_vars => Pace' /\ Heard'
    BY PaceStep
  <1>3. TypeOK /\ Heard /\ Young /\ Greeting /\ NoFalseDisconnect /\ [Next]_vars
          => NoFalseDisconnect'
    BY PromptStep
  <1> QED BY <1>1, <1>2, <1>3, PaceInit, YoungStep, GreetingStep, TypeCorrect, PTL DEF Spec
=============================================================================
