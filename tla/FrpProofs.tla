----------------------------- MODULE FrpProofs -----------------------------
(***************************************************************************)
(* The FRP adapter, for every number of connections and shots, and with or *)
(* without I/O failures: its types, the accounting of connections, that a  *)
(* controller it has is up to date, and that the shots controllers see are *)
(* whole, in order, and no controller's shots are another's.               *)
(***************************************************************************)
EXTENDS FrpDevice, TLAPS

USE FrpAssumption DEF FrpAssumption

LEMMA TelemetryType ==
    ASSUME NEW ready, NEW percent \in Percents \cup {None}
    PROVE  Telemetry(ready, percent) \in TelemetryEnvelope
  <1>1. (ready = TRUE) \in BOOLEAN
    OBVIOUS
  <1> QED BY <1>1 DEF Telemetry, TelemetryEnvelope

LEMMA MessagesType ==
    ASSUME NEW n \in 1..MaxShotNumber, NEW detail
    PROVE  /\ ShotMessages(n, detail) \in Seq(ShotEnvelope)
           /\ Len(ShotMessages(n, detail)) \in Nat
  <1>1. \A kind \in ShotKinds : ShotMessage(kind, n) \in ShotEnvelope
    BY DEF ShotMessage, ShotEnvelope
  <1> DEFINE start == <<ShotMessage("trigger", n), ShotMessage("flight", n)>>
             path == IF detail = "ball" THEN <<>> ELSE <<ShotMessage("path", n)>>
             impact == IF detail = "impact" THEN <<ShotMessage("impact", n)>> ELSE <<>>
             end == <<ShotMessage("finished", n)>>
  <1>2. /\ start \in Seq(ShotEnvelope) /\ path \in Seq(ShotEnvelope)
        /\ impact \in Seq(ShotEnvelope) /\ end \in Seq(ShotEnvelope)
    BY <1>1 DEF ShotKinds
  <1>3. ShotMessages(n, detail) = start \o path \o impact \o end
    BY DEF ShotMessages
  <1> HIDE DEF start, path, impact, end
  <1>4. start \o path \in Seq(ShotEnvelope)
    BY <1>2
  <1>5. start \o path \o impact \in Seq(ShotEnvelope)
    BY <1>2, <1>4
  <1> QED BY <1>2, <1>3, <1>5

-----------------------------------------------------------------------------
(* What a call leaves in the adapter, the channel and the history. *)
SendTypes ==
    /\ conn \in Conns \cup {None}
    /\ pending \in BOOLEAN
    /\ asked \in Nat
    /\ told \in [Conns -> TelemetryEnvelope \cup {None}]
    /\ shots \in [Conns -> Seq(ShotEnvelope)]
    /\ failed \subseteq Conns

LEMMA HandedTypes ==
    ASSUME SendTypes, NEW c \in Conns, NEW news \in Seq(TelemetryEnvelope),
           NEW messages \in Seq(ShotEnvelope), NEW o \in Outcomes(c, news, messages),
           Handed(c, news, messages, o)
    PROVE  /\ told' \in [Conns -> TelemetryEnvelope \cup {None}]
           /\ shots' \in [Conns -> Seq(ShotEnvelope)]
           /\ failed' \subseteq Conns
           /\ o.end \in {"ok", "closed", "failed"}
           /\ o.sent \in Nat
           /\ o.end = "ok" => o.sent = Len(news) + Len(messages)
  <1>1. /\ Len(news) \in Nat /\ Len(messages) \in Nat
        /\ o.sent \in Nat /\ o.sent <= Len(news) + Len(messages)
        /\ o.end \in {"ok", "closed", "failed"}
        /\ o.end = "ok" => o.sent = Len(news) + Len(messages)
    BY DEF Outcomes
  <1>2. told' \in [Conns -> TelemetryEnvelope \cup {None}]
    <2>1. news # <<>> => news[1] \in TelemetryEnvelope
      OBVIOUS
    <2> QED BY <2>1 DEF Handed, SendTypes
  <1>3. shots' \in [Conns -> Seq(ShotEnvelope)]
    <2> DEFINE part == SubSeq(messages, 1, o.sent - Len(news))
    <2>1. part \in Seq(ShotEnvelope)
      BY <1>1
    <2> HIDE DEF part
    <2>2. shots[c] \o part \in Seq(ShotEnvelope)
      BY <2>1 DEF SendTypes
    <2>3. shots' = [shots EXCEPT ![c] = shots[c] \o part]
      BY DEF Handed, part
    <2> QED BY <2>2, <2>3 DEF SendTypes
  <1>4. failed' \subseteq Conns
    BY DEF Handed, SendTypes
  <1> QED BY <1>1, <1>2, <1>3, <1>4

AdapterInv == FrpTypeOK /\ ConnectionAccounted /\ ControllerUpToDate

LEMMA Parts ==
    FrpTypeOK <=> /\ SendTypes
                  /\ telemetry \in TelemetryEnvelope \cup {None}
                  /\ last_ready \in BOOLEAN \cup {None}
                  /\ shot_number \in 0..MaxShotNumber
                  /\ working \in BOOLEAN
                  /\ incoming \in Seq(Conns)
                  /\ established \in 0..MaxConns
                  /\ gone \subseteq Conns
  BY DEF FrpTypeOK, SendTypes

\* Sending over the connection in use.
LEMMA SendingKeeps ==
    ASSUME AdapterInv, conn # None,
           NEW news \in Seq(TelemetryEnvelope), NEW messages \in Seq(ShotEnvelope),
           NEW o \in Outcomes(conn, news, messages), Transmit(news, messages, o),
           telemetry' = IF news = <<>> THEN telemetry ELSE news[1],
           Len(news) <= 1,
           UNCHANGED <<working, incoming>>
    PROVE  SendTypes' /\ ConnectionAccounted' /\ ControllerUpToDate'
  <1>1. SendTypes /\ conn \in Conns /\ None \notin Conns
    <2>1. SendTypes
      BY Parts DEF AdapterInv
    <2>2. None \notin Conns
      BY DEF Conns
    <2> QED BY <2>1, <2>2 DEF SendTypes
  <1>2. /\ told' \in [Conns -> TelemetryEnvelope \cup {None}]
        /\ shots' \in [Conns -> Seq(ShotEnvelope)]
        /\ failed' \subseteq Conns
        /\ o.end \in {"ok", "closed", "failed"}
        /\ o.sent \in Nat
        /\ o.end = "ok" => o.sent = Len(news) + Len(messages)
    BY <1>1, HandedTypes DEF Transmit
  <1>3. CASE o.end = "closed"
    <2>1. DropConnection
      BY <1>3 DEF Transmit
    <2>2. conn' = None /\ pending' = TRUE /\ asked' = asked + 1 /\ ~pending
      BY <1>1, <2>1 DEF DropConnection, RequestConnection, AdapterInv, ConnectionAccounted
    <2>3. SendTypes'
      BY <1>1, <1>2, <2>2 DEF SendTypes
    <2>4. asked' + (IF working' THEN 1 ELSE 0) + Len(incoming') = 1
      <3>1. asked + (IF working THEN 1 ELSE 0) + Len(incoming) = 0
        BY <2>2 DEF AdapterInv, ConnectionAccounted
      <3>2. Len(incoming) \in Nat
        BY Parts DEF AdapterInv
      <3> QED BY <1>1, <2>2, <3>1, <3>2 DEF SendTypes
    <2> QED BY <2>2, <2>3, <2>4 DEF ConnectionAccounted, ControllerUpToDate
  <1>4. CASE o.end # "closed"
    <2>1. UNCHANGED <<conn, pending, asked>>
      BY <1>4 DEF Transmit
    <2>2. SendTypes' /\ ConnectionAccounted'
      BY <1>1, <1>2, <2>1 DEF SendTypes, AdapterInv, ConnectionAccounted
    <2>3. ControllerUpToDate'
      <3>1. CASE o.end = "failed"
        BY <1>1, <2>1, <3>1 DEF Transmit, Handed, ControllerUpToDate
      <3>2. CASE o.end = "ok"
        <4>1. Handed(conn, news, messages, o) /\ failed' = failed
          BY <3>2 DEF Transmit, Handed
        <4>2. CASE news = <<>>
          BY <2>1, <4>1, <4>2 DEF Handed, AdapterInv, ControllerUpToDate
        <4>3. CASE news # <<>>
          <5>1. o.sent > 0
            BY <1>2, <3>2, <4>3
          <5>2. told' = [told EXCEPT ![conn] = news[1]]
            BY <4>1, <4>3, <5>1 DEF Handed
          <5> QED BY <1>1, <2>1, <4>1, <4>3, <5>2 DEF ControllerUpToDate, SendTypes
        <4> QED BY <4>2, <4>3
      <3> QED BY <1>2, <1>4, <3>1, <3>2
    <2> QED BY <2>2, <2>3
  <1> QED BY <1>3, <1>4

\* With no connection in use, nothing is sent and only the cache changes.
LEMMA UnsentKeeps ==
    ASSUME AdapterInv, Unsent, conn = None \/ UNCHANGED telemetry,
           UNCHANGED <<working, incoming>>
    PROVE  SendTypes' /\ ConnectionAccounted' /\ ControllerUpToDate'
  <1>1. SendTypes
    BY Parts DEF AdapterInv
  <1> QED BY <1>1 DEF Unsent, historyVars, SendTypes, AdapterInv, ConnectionAccounted,
                      ControllerUpToDate

LEMMA PollConnectionKeeps ==
    ASSUME AdapterInv, PollConnection
    PROVE  AdapterInv'
  <1>1. /\ SendTypes /\ incoming \in Seq(Conns) /\ None \notin Conns
        /\ telemetry \in TelemetryEnvelope \cup {None} /\ working \in BOOLEAN
    BY Parts DEF AdapterInv, Conns
  <1> DEFINE c == Head(incoming)
             news == IF telemetry = None THEN <<>> ELSE <<telemetry>>
  <1>2. /\ c \in Conns /\ incoming' \in Seq(Conns)
        /\ Len(incoming) \in Nat /\ Len(incoming) > 0 /\ Len(incoming') = Len(incoming) - 1
    BY <1>1 DEF PollConnection
  <1>3. /\ news \in Seq(TelemetryEnvelope) /\ Len(news) \in {0, 1}
        /\ telemetry # None => news # <<>> /\ news[1] = telemetry /\ Len(news) = 1
    BY <1>1
  <1>4. conn = None /\ pending /\ asked = 0 /\ ~working /\ Len(incoming) = 1
    BY <1>1, <1>2 DEF PollConnection, AdapterInv, ConnectionAccounted, SendTypes
  <1>5. PICK o \in Outcomes(c, news, <<>>) :
          /\ Handed(c, news, <<>>, o)
          /\ IF o.end = "closed"
             THEN conn' = None /\ RequestConnection(FALSE)
             ELSE conn' = c /\ pending' = FALSE /\ UNCHANGED asked
    BY DEF PollConnection
  <1>6. UNCHANGED <<telemetry, last_ready, shot_number, working, established, gone>>
    BY DEF PollConnection
  <1> HIDE DEF c, news
  <1>7. /\ told' \in [Conns -> TelemetryEnvelope \cup {None}]
        /\ shots' \in [Conns -> Seq(ShotEnvelope)]
        /\ failed' \subseteq Conns
        /\ o.end \in {"ok", "closed", "failed"}
        /\ o.end = "ok" => o.sent = Len(news)
    <2> DEFINE messages == <<>>
    <2>1. messages \in Seq(ShotEnvelope) /\ Len(messages) = 0 /\ Len(news) \in Nat
      BY <1>3
    <2>2. o \in Outcomes(c, news, messages) /\ Handed(c, news, messages, o)
      BY <1>5
    <2> HIDE DEF messages
    <2>3. /\ told' \in [Conns -> TelemetryEnvelope \cup {None}]
          /\ shots' \in [Conns -> Seq(ShotEnvelope)]
          /\ failed' \subseteq Conns
          /\ o.end \in {"ok", "closed", "failed"}
          /\ o.end = "ok" => o.sent = Len(news) + Len(messages)
      BY <1>1, <1>2, <1>3, <2>1, <2>2, HandedTypes
    <2> QED BY <2>1, <2>3
  <1>8. SendTypes' /\ ConnectionAccounted'
    <2>1. CASE o.end = "closed"
      <3>1. conn' = None /\ pending' = TRUE /\ asked' = 1
        BY <1>4, <1>5, <2>1 DEF RequestConnection
      <3>2. SendTypes'
        BY <1>7, <3>1 DEF SendTypes
      <3>3. asked' + (IF working' THEN 1 ELSE 0) + Len(incoming') = 1
        BY <1>2, <1>4, <1>6, <3>1
      <3> QED BY <3>1, <3>2, <3>3 DEF ConnectionAccounted
    <2>2. CASE o.end # "closed"
      <3>1. conn' = c /\ pending' = FALSE /\ asked' = 0 /\ c # None
        BY <1>1, <1>2, <1>4, <1>5, <2>2
      <3>2. SendTypes'
        BY <1>2, <1>7, <3>1 DEF SendTypes
      <3>3. asked' + (IF working' THEN 1 ELSE 0) + Len(incoming') = 0
        BY <1>2, <1>4, <1>6, <3>1
      <3>4. (conn' = None) = FALSE
        BY <3>1
      <3> QED BY <3>1, <3>2, <3>3, <3>4 DEF ConnectionAccounted
    <2> QED BY <2>1, <2>2
  <1>9. ControllerUpToDate'
    <2> SUFFICES ASSUME conn' # None, conn' \notin failed', telemetry # None
                 PROVE  told'[conn'] = telemetry
      BY <1>6 DEF ControllerUpToDate
    <2>1. conn' = c /\ o.end = "ok"
      BY <1>5, <1>7 DEF Handed
    <2>2. news # <<>> /\ news[1] = telemetry /\ o.sent > 0
      BY <1>3, <1>7, <2>1
    <2>3. told' = [told EXCEPT ![c] = news[1]]
      BY <1>5, <2>2 DEF Handed
    <2> QED BY <1>1, <1>2, <2>1, <2>2, <2>3 DEF SendTypes
  <1>10. FrpTypeOK'
    <2>1. /\ SendTypes'
          /\ telemetry' \in TelemetryEnvelope \cup {None}
          /\ last_ready' \in BOOLEAN \cup {None}
          /\ shot_number' \in 0..MaxShotNumber
          /\ working' \in BOOLEAN
          /\ incoming' \in Seq(Conns)
          /\ established' \in 0..MaxConns
          /\ gone' \subseteq Conns
      BY <1>2, <1>6, <1>8, Parts DEF AdapterInv
    <2> QED BY <2>1 DEF FrpTypeOK, SendTypes
  <1> QED BY <1>8, <1>9, <1>10 DEF AdapterInv

LEMMA SendTelemetryKeeps ==
    ASSUME AdapterInv, NEW ready \in BOOLEAN \cup {None}, NEW percent \in Percents \cup {None},
           SendTelemetry(ready, percent)
    PROVE  AdapterInv'
  <1>1. UNCHANGED <<shot_number, working, incoming, established, gone>>
    BY DEF SendTelemetry
  <1>2. /\ SendTypes' /\ ConnectionAccounted' /\ ControllerUpToDate'
        /\ telemetry' \in TelemetryEnvelope \cup {None}
        /\ last_ready' \in BOOLEAN \cup {None}
    <2>1. CASE SaysNothingNew(ready, percent)
      <3>1. Unsent /\ UNCHANGED <<telemetry, last_ready>>
        BY <2>1 DEF SendTelemetry
      <3> QED BY <1>1, <3>1, UnsentKeeps, Parts DEF AdapterInv
    <2>2. CASE ~SaysNothingNew(ready, percent)
      <3>1. /\ last_ready' = ReadyNow(ready)
            /\ telemetry' = Telemetry(last_ready', percent)
        BY <2>2 DEF SendTelemetry
      <3>2. /\ last_ready' \in BOOLEAN \cup {None}
            /\ telemetry' \in TelemetryEnvelope
        BY <3>1, TelemetryType, Parts DEF AdapterInv, ReadyNow
      <3>3. CASE conn = None
        <4>1. Unsent
          BY <2>2, <3>3 DEF SendTelemetry
        <4> QED BY <1>1, <3>2, <3>3, <4>1, UnsentKeeps
      <3>4. CASE conn # None
        <4> DEFINE envelope == Telemetry(ReadyNow(ready), percent)
                   news == <<envelope>>
                   none == <<>>
        <4>0. telemetry' = envelope
          BY <3>1
        <4>1. PICK o \in Outcomes(conn, news, none) : Transmit(news, none, o)
          BY <2>2, <3>4, <4>0 DEF SendTelemetry
        <4>2. /\ news \in Seq(TelemetryEnvelope) /\ none \in Seq(ShotEnvelope)
              /\ Len(news) <= 1 /\ telemetry' = IF news = <<>> THEN telemetry ELSE news[1]
          BY <3>2, <4>0
        <4> HIDE DEF envelope, news, none
        <4>3. SendTypes' /\ ConnectionAccounted' /\ ControllerUpToDate'
          BY <1>1, <3>4, <4>1, <4>2, SendingKeeps
        <4> QED BY <3>2, <4>3
      <3> QED BY <3>3, <3>4
    <2> QED BY <2>1, <2>2
  <1> QED BY <1>1, <1>2, Parts DEF AdapterInv, FrpTypeOK, SendTypes

LEMMA HandleShotKeeps ==
    ASSUME AdapterInv, NEW detail \in Details, HandleShot(detail)
    PROVE  AdapterInv'
  <1> DEFINE news == IF SaysNothingNew(FALSE, None) THEN <<>> ELSE <<Telemetry(FALSE, None)>>
             messages == ShotMessages(shot_number + 1, detail)
  <1>1. UNCHANGED <<working, incoming, established, gone>>
    BY DEF HandleShot
  <1>2. /\ telemetry' = IF news = <<>> THEN telemetry ELSE news[1]
        /\ last_ready' = FALSE
    BY DEF HandleShot
  <1>3. shot_number + 1 \in 1..MaxShotNumber /\ shot_number \in 0..MaxShotNumber
    BY Parts DEF AdapterInv, HandleShot
  <1>4. messages \in Seq(ShotEnvelope)
    BY <1>3, MessagesType
  <1>5. /\ news \in Seq(TelemetryEnvelope) /\ Len(news) <= 1
        /\ news # <<>> => news[1] \in TelemetryEnvelope
    <2>1. Telemetry(FALSE, None) \in TelemetryEnvelope
      BY TelemetryType
    <2>2. CASE SaysNothingNew(FALSE, None)
      BY <2>2
    <2>3. CASE ~SaysNothingNew(FALSE, None)
      <3> DEFINE envelope == Telemetry(FALSE, None)
      <3>1. news = <<envelope>>
        BY <2>3
      <3> HIDE DEF envelope
      <3>2. envelope \in TelemetryEnvelope
        BY <2>1 DEF envelope
      <3>3. <<envelope>> \in Seq(TelemetryEnvelope) /\ Len(<<envelope>>) = 1
        BY <3>2
      <3> HIDE DEF news
      <3> QED BY <3>1, <3>2, <3>3
    <2> QED BY <2>2, <2>3
  <1>6. telemetry' \in TelemetryEnvelope \cup {None}
    <2> HIDE DEF news
    <2> QED BY <1>2, <1>5, Parts DEF AdapterInv
  <1>7. /\ SendTypes' /\ ConnectionAccounted' /\ ControllerUpToDate'
        /\ shot_number' \in 0..MaxShotNumber
    <2>1. CASE conn = None
      <3>1. Unsent /\ shot_number' = shot_number + 1
        BY <2>1 DEF HandleShot
      <3> QED BY <1>1, <1>3, <2>1, <3>1, UnsentKeeps
    <2>2. CASE conn # None
      <3>1. PICK o \in Outcomes(conn, news, messages) :
              /\ Transmit(news, messages, o)
              /\ shot_number' = IF o.end = "failed" /\ o.sent < Len(news)
                                THEN shot_number ELSE shot_number + 1
        BY <2>2 DEF HandleShot
      <3> HIDE DEF news, messages
      <3>2. SendTypes' /\ ConnectionAccounted' /\ ControllerUpToDate'
        BY <1>1, <1>2, <1>4, <1>5, <2>2, <3>1, SendingKeeps
      <3> QED BY <1>3, <3>1, <3>2
    <2> QED BY <2>1, <2>2
  <1>8. last_ready' \in BOOLEAN \cup {None}
    BY <1>2
  <1> QED BY <1>1, <1>6, <1>7, <1>8, Parts DEF AdapterInv, FrpTypeOK, SendTypes

LEMMA LoseControllerKeeps ==
    ASSUME AdapterInv, LoseController
    PROVE  AdapterInv'
  <1>1. conn' = None /\ pending' = TRUE /\ asked' = asked + 1 /\ ~pending
    BY DEF LoseController, DropConnection, RequestConnection, AdapterInv, ConnectionAccounted
  <1>2. UNCHANGED <<telemetry, last_ready, shot_number, working, incoming, established, gone,
                    historyVars>>
    BY DEF LoseController
  <1>3. FrpTypeOK'
    BY <1>1, <1>2 DEF AdapterInv, FrpTypeOK, historyVars
  <1>4. asked' + (IF working' THEN 1 ELSE 0) + Len(incoming') = 1
    <2>1. asked + (IF working THEN 1 ELSE 0) + Len(incoming) = 0
      BY <1>1 DEF AdapterInv, ConnectionAccounted
    <2>2. asked \in Nat /\ Len(incoming) \in Nat
      BY DEF AdapterInv, FrpTypeOK
    <2> QED BY <1>1, <1>2, <2>1, <2>2
  <1> QED BY <1>1, <1>2, <1>3, <1>4 DEF AdapterInv, ConnectionAccounted, ControllerUpToDate

-----------------------------------------------------------------------------
LEMMA AcceptorKeeps ==
    ASSUME AdapterInv, Acceptor \/ Hangup
    PROVE  AdapterInv'
  <1>1. /\ FrpTypeOK /\ Len(incoming) \in Nat
        /\ asked + (IF working THEN 1 ELSE 0) + Len(incoming) = IF pending THEN 1 ELSE 0
    BY DEF AdapterInv, FrpTypeOK, ConnectionAccounted
  <1>2. UNCHANGED <<adapterVars, historyVars>>
    BY DEF Acceptor, TakeRequest, Establish, Hangup
  <1>3. ControllerUpToDate' /\ (conn' = None) = pending'
    BY <1>2 DEF AdapterInv, ConnectionAccounted, ControllerUpToDate, adapterVars, historyVars
  <1>4. CASE TakeRequest
    <2>1. asked' + (IF working' THEN 1 ELSE 0) + Len(incoming') = IF pending' THEN 1 ELSE 0
      BY <1>1, <1>2, <1>4 DEF TakeRequest, FrpTypeOK, adapterVars
    <2>2. FrpTypeOK'
      BY <1>1, <1>2, <1>4 DEF TakeRequest, FrpTypeOK, adapterVars, historyVars
    <2> QED BY <1>3, <2>1, <2>2 DEF AdapterInv, ConnectionAccounted
  <1>5. CASE Establish
    <2>1. /\ established + 1 \in Conns /\ established' \in 0..MaxConns
          /\ incoming' = Append(incoming, established + 1)
      BY <1>1, <1>5 DEF Establish, FrpTypeOK, Conns
    <2>2. incoming' \in Seq(Conns) /\ Len(incoming') = Len(incoming) + 1
      BY <1>1, <2>1 DEF FrpTypeOK
    <2>3. asked' + (IF working' THEN 1 ELSE 0) + Len(incoming') = IF pending' THEN 1 ELSE 0
      BY <1>1, <1>2, <1>5, <2>2 DEF Establish, FrpTypeOK, adapterVars
    <2>4. FrpTypeOK'
      BY <1>1, <1>2, <1>5, <2>1, <2>2 DEF Establish, FrpTypeOK, adapterVars, historyVars
    <2> QED BY <1>3, <2>3, <2>4 DEF AdapterInv, ConnectionAccounted
  <1>6. CASE Hangup
    <2>1. gone' \subseteq Conns
      <3>1. PICK c \in 1..established : gone' = gone \cup {c}
        BY <1>6 DEF Hangup
      <3>2. c \in Conns
        BY <1>1 DEF FrpTypeOK, Conns
      <3> QED BY <1>1, <3>1, <3>2 DEF FrpTypeOK
    <2>2. FrpTypeOK'
      BY <1>1, <1>2, <1>6, <2>1 DEF Hangup, FrpTypeOK, adapterVars, historyVars
    <2>3. asked' + (IF working' THEN 1 ELSE 0) + Len(incoming') = IF pending' THEN 1 ELSE 0
      BY <1>1, <1>2, <1>6 DEF Hangup, adapterVars
    <2> QED BY <1>3, <2>2, <2>3 DEF AdapterInv, ConnectionAccounted
  <1> QED BY <1>4, <1>5, <1>6 DEF Acceptor

LEMMA AdapterInitially ==
    FrpInit => AdapterInv
  <1> SUFFICES ASSUME FrpInit PROVE AdapterInv
    OBVIOUS
  <1>1. FrpTypeOK
    <2>1. /\ conn \in Conns \cup {None} /\ pending \in BOOLEAN
          /\ telemetry \in TelemetryEnvelope \cup {None} /\ last_ready \in BOOLEAN \cup {None}
          /\ working \in BOOLEAN /\ gone \subseteq Conns /\ failed \subseteq Conns
      BY DEF FrpInit
    <2>2. shot_number \in 0..MaxShotNumber /\ asked \in Nat /\ established \in 0..MaxConns
      BY DEF FrpInit
    <2>3. incoming \in Seq(Conns)
      BY DEF FrpInit
    <2>4. told \in [Conns -> TelemetryEnvelope \cup {None}]
      BY DEF FrpInit
    <2>5. shots \in [Conns -> Seq(ShotEnvelope)]
      <3>1. <<>> \in Seq(ShotEnvelope)
        OBVIOUS
      <3> QED BY <3>1 DEF FrpInit
    <2> QED BY <2>1, <2>2, <2>3, <2>4, <2>5 DEF FrpTypeOK
  <1>2. ConnectionAccounted
    <2>1. conn = None /\ pending = TRUE /\ asked = 1 /\ working = FALSE /\ Len(incoming) = 0
      BY DEF FrpInit
    <2>2. (conn = None) = TRUE
      BY <2>1
    <2>3. (conn = None) = pending
      BY <2>1, <2>2
    <2>4. asked + (IF working THEN 1 ELSE 0) + Len(incoming) = IF pending THEN 1 ELSE 0
      BY <2>1
    <2> QED BY <2>3, <2>4 DEF ConnectionAccounted
  <1>3. ControllerUpToDate
    BY DEF FrpInit, ControllerUpToDate
  <1> QED BY <1>1, <1>2, <1>3 DEF AdapterInv

LEMMA AdapterStep ==
    AdapterInv /\ [FrpNext]_frpVars => AdapterInv'
  <1> SUFFICES ASSUME AdapterInv, [FrpNext]_frpVars PROVE AdapterInv'
    OBVIOUS
  <1>1. CASE Acceptor \/ Hangup
    BY <1>1, AcceptorKeeps
  <1>2. CASE PollConnection
    BY <1>2, PollConnectionKeeps
  <1>3. CASE LoseController
    BY <1>3, LoseControllerKeeps
  <1>4. CASE SendDeviceInfo
    BY <1>4, SendTelemetryKeeps DEF SendDeviceInfo
  <1>5. CASE \E ready \in BOOLEAN : HandleState(ready)
    BY <1>5, SendTelemetryKeeps DEF HandleState
  <1>6. CASE \E percent \in Percents : HandleBattery(percent)
    BY <1>6, SendTelemetryKeeps DEF HandleBattery
  <1>7. CASE \E detail \in Details : HandleShot(detail)
    BY <1>7, HandleShotKeeps
  <1>8. CASE UNCHANGED frpVars
    BY <1>8 DEF frpVars, adapterVars, acceptorVars, historyVars, AdapterInv, FrpTypeOK,
                ConnectionAccounted, ControllerUpToDate
  <1> QED BY <1>1, <1>2, <1>3, <1>4, <1>5, <1>6, <1>7, <1>8 DEF FrpNext, Adapter

LEMMA AdapterInvariant == FrpSpec => []AdapterInv
  BY AdapterInitially, AdapterStep, PTL DEF FrpSpec

-----------------------------------------------------------------------------
\* The adapter's state and everything it hands over keeps its type.
THEOREM FrpTypeCorrect == FrpSpec => []FrpTypeOK
  <1>1. AdapterInv => FrpTypeOK
    BY DEF AdapterInv
  <1> QED BY <1>1, AdapterInvariant, PTL

\* However connections come, go and fail, exactly one is on its way while the
\* adapter has no controller, and none otherwise (mod.rs request_connection).
THEOREM ConnectionsAccounted == FrpSpec => []ConnectionAccounted
  <1>1. AdapterInv => ConnectionAccounted
    BY DEF AdapterInv
  <1> QED BY <1>1, AdapterInvariant, PTL

\* A controller in use to which no send failed knows the current telemetry,
\* whenever it connected (mod.rs poll_connection, send_telemetry).
THEOREM UpToDate == FrpSpec => []ControllerUpToDate
  <1>1. AdapterInv => ControllerUpToDate
    BY DEF AdapterInv
  <1> QED BY <1>1, AdapterInvariant, PTL

-----------------------------------------------------------------------------
(***************************************************************************)
(* That no two controllers get envelopes of the same shot, and shot        *)
(* numbers grow from one controller to the next, is not inductive: it      *)
(* needs that a controller not yet adopted has been sent nothing, and that *)
(* nobody has been sent a number that is still to come.                    *)
(***************************************************************************)

\* Controllers are adopted in the order in which they were accepted, and from the
\* one after the last adopted on nothing has been sent.
Untouched(first) == \A d \in Conns : d >= first => shots[d] = <<>>

InOrder ==
    /\ conn # None => conn <= established /\ Untouched(conn + 1)
    /\ \A i \in DOMAIN incoming : incoming[i] <= established /\ Untouched(incoming[i])
    /\ Untouched(established + 1)

\* No number beyond the last one given has been sent.
NumbersGiven ==
    \A c \in Conns : \A i \in DOMAIN shots[c] : shots[c][i].key <= shot_number

NumbersInv == InOrder /\ NumbersGiven /\ ShotNumbersFresh

\* The envelopes that carry a number.
Numbered(n) == [kind : ShotKinds, key : {n}]

\* All envelopes of a shot carry its number.
LEMMA MessagesKey ==
    ASSUME NEW n, NEW detail
    PROVE  ShotMessages(n, detail) \in Seq(Numbered(n))
  <1>1. \A kind \in ShotKinds : ShotMessage(kind, n) \in Numbered(n)
    BY DEF ShotMessage, Numbered
  <1> DEFINE start == <<ShotMessage("trigger", n), ShotMessage("flight", n)>>
             path == IF detail = "ball" THEN <<>> ELSE <<ShotMessage("path", n)>>
             impact == IF detail = "impact" THEN <<ShotMessage("impact", n)>> ELSE <<>>
             end == <<ShotMessage("finished", n)>>
  <1>2. /\ start \in Seq(Numbered(n)) /\ path \in Seq(Numbered(n))
        /\ impact \in Seq(Numbered(n)) /\ end \in Seq(Numbered(n))
    BY <1>1 DEF ShotKinds
  <1>3. ShotMessages(n, detail) = start \o path \o impact \o end
    BY DEF ShotMessages
  <1> HIDE DEF start, path, impact, end
  <1>4. start \o path \in Seq(Numbered(n))
    BY <1>2
  <1>5. start \o path \o impact \in Seq(Numbered(n))
    BY <1>2, <1>4
  <1> QED BY <1>2, <1>3, <1>5

\* What is appended for a shot is some of its envelopes.
LEMMA Appended ==
    ASSUME NEW n, NEW s \in Seq(ShotEnvelope), NEW part \in Seq(Numbered(n)),
           NEW i \in DOMAIN (s \o part)
    PROVE  \/ i \in DOMAIN s /\ (s \o part)[i] = s[i]
           \/ (s \o part)[i].key = n
  <1>1. /\ Len(s) \in Nat /\ Len(part) \in Nat /\ DOMAIN s = 1..Len(s)
        /\ \A k \in 1..Len(part) : part[k] \in Numbered(n)
    OBVIOUS
  <1>2. i \in 1..Len(s) + Len(part)
    BY <1>1
  <1>3. CASE i <= Len(s)
    BY <1>1, <1>2, <1>3
  <1>4. CASE i > Len(s)
    <2>1. (s \o part)[i] = part[i - Len(s)] /\ i - Len(s) \in 1..Len(part)
      BY <1>1, <1>2, <1>4
    <2>2. part[i - Len(s)] \in Numbered(n)
      BY <1>1, <2>1
    <2> QED BY <2>1, <2>2 DEF Numbered
  <1> QED BY <1>2, <1>3, <1>4

\* Numbers are natural.
LEMMA KeysAreNumbers ==
    ASSUME FrpTypeOK, NEW c \in Conns, NEW i \in DOMAIN shots[c]
    PROVE  shots[c][i].key \in Nat
  <1>1. shots[c] \in Seq(ShotEnvelope)
    BY DEF FrpTypeOK
  <1>2. shots[c][i] \in ShotEnvelope
    BY <1>1
  <1>3. shots[c][i].key \in 1..MaxShotNumber
    BY <1>2 DEF ShotEnvelope
  <1> QED BY <1>3

-----------------------------------------------------------------------------
\* A step that sends no shot and adopts nobody.
LEMMA NothingSent ==
    ASSUME NumbersInv, FrpTypeOK, UNCHANGED shots, shot_number' >= shot_number,
           UNCHANGED <<incoming, established>>, conn' \in {conn, None},
           shot_number' \in Nat
    PROVE  NumbersInv'
  <1>1. InOrder'
    BY DEF NumbersInv, InOrder, Untouched
  <1>2. NumbersGiven'
    <2> SUFFICES ASSUME NEW c \in Conns, NEW i \in DOMAIN shots[c]
                 PROVE  shots[c][i].key <= shot_number'
      BY DEF NumbersGiven
    <2>1. shots[c][i].key \in Nat /\ shot_number \in Nat
      BY KeysAreNumbers DEF FrpTypeOK
    <2>2. shots[c][i].key <= shot_number
      BY DEF NumbersInv, NumbersGiven
    <2> QED BY <2>1, <2>2
  <1>3. ShotNumbersFresh'
    BY DEF NumbersInv, ShotNumbersFresh
  <1> QED BY <1>1, <1>2, <1>3 DEF NumbersInv

\* A shot goes to the controller in use, and to those before it nothing goes any more.
LEMMA ShotSent ==
    ASSUME AdapterInv, NumbersInv, conn # None,
           NEW part \in Seq(Numbered(shot_number + 1)),
           shots' = [shots EXCEPT ![conn] = @ \o part],
           \/ shot_number' = shot_number + 1
           \/ shot_number' = shot_number /\ part = <<>>,
           UNCHANGED <<incoming, established>>, conn' \in {conn, None}
    PROVE  NumbersInv'
  <1>1. /\ conn \in Conns /\ shot_number \in Nat /\ established \in Nat /\ Conns \subseteq Nat
        /\ shots \in [Conns -> Seq(ShotEnvelope)] /\ None \notin Conns
        /\ \A c \in Conns : \A i \in DOMAIN shots[c] : shots[c][i].key \in Nat
    <2>1. FrpTypeOK
      BY DEF AdapterInv
    <2>2. None \notin Conns
      BY DEF Conns
    <2> QED BY <2>1, <2>2, KeysAreNumbers DEF FrpTypeOK, Conns
  <1>2. incoming = <<>>
    <2>1. ~pending /\ asked \in Nat /\ Len(incoming) \in Nat /\ incoming \in Seq(Conns)
      BY DEF AdapterInv, FrpTypeOK, ConnectionAccounted
    <2>2. Len(incoming) = 0
      BY <2>1 DEF AdapterInv, ConnectionAccounted
    <2> QED BY <2>1, <2>2
  <1>3. /\ shots'[conn] = shots[conn] \o part
        /\ \A d \in Conns \ {conn} : shots'[d] = shots[d]
    BY <1>1
  <1>4. conn <= established /\ Untouched(conn + 1) /\ Untouched(established + 1)
    BY DEF NumbersInv, InOrder
  <1>5. \A d \in Conns : d >= conn + 1 => shots'[d] = <<>>
    BY <1>1, <1>3, <1>4 DEF Untouched
  <1>6. InOrder'
    <2>1. \A d \in Conns : d >= established' + 1 => shots'[d] = <<>>
      BY <1>1, <1>4, <1>5
    <2>2. incoming' = <<>> /\ established' = established
      BY <1>2
    <2>3. Untouched(established + 1)'
      BY <2>1 DEF Untouched
    <2>4. conn' # None => conn' <= established' /\ Untouched(conn + 1)'
      BY <1>4, <1>5, <2>2 DEF Untouched
    <2> QED BY <2>2, <2>3, <2>4 DEF InOrder
  <1>7. ASSUME NEW i \in DOMAIN shots'[conn]
        PROVE  \/ i \in DOMAIN shots[conn] /\ shots'[conn][i] = shots[conn][i]
               \/ shots'[conn][i].key = shot_number + 1 /\ shot_number' = shot_number + 1
    <2>1. CASE part = <<>>
      BY <1>1, <1>3, <2>1
    <2>2. CASE part # <<>>
      BY <1>1, <1>3, <2>2, Appended
    <2> QED BY <2>1, <2>2
  <1>8. NumbersGiven'
    <2> SUFFICES ASSUME NEW c \in Conns, NEW i \in DOMAIN shots'[c]
                 PROVE  shots'[c][i].key <= shot_number'
      BY DEF NumbersGiven
    <2>1. \A d \in Conns : \A j \in DOMAIN shots[d] : shots[d][j].key <= shot_number
      BY DEF NumbersInv, NumbersGiven
    <2>2. CASE c = conn
      BY <1>1, <1>7, <2>1, <2>2
    <2>3. CASE c # conn
      BY <1>1, <1>3, <2>1, <2>3
    <2> QED BY <2>2, <2>3
  <1>9. ShotNumbersFresh'
    <2> SUFFICES ASSUME NEW c \in Conns, NEW d \in Conns, c < d,
                        NEW i \in DOMAIN shots'[c], NEW j \in DOMAIN shots'[d]
                 PROVE  shots'[c][i].key < shots'[d][j].key
      BY DEF ShotNumbersFresh
    <2>1. /\ \A e \in Conns : \A k \in DOMAIN shots[e] : shots[e][k].key <= shot_number
          /\ \A e, f \in Conns : e < f =>
                \A k \in DOMAIN shots[e], l \in DOMAIN shots[f] :
                    shots[e][k].key < shots[f][l].key
      BY DEF NumbersInv, NumbersGiven, ShotNumbersFresh
    <2>2. CASE c = conn
      <3>1. shots'[d] = <<>>
        BY <1>1, <1>5, <2>2
      <3> QED BY <3>1
    <2>3. CASE d = conn
      <3>1. shots'[c] = shots[c]
        BY <1>1, <1>3, <2>3
      <3> QED BY <1>1, <1>7, <2>1, <2>3, <3>1
    <2>4. CASE c # conn /\ d # conn
      BY <1>3, <2>1, <2>4
    <2> QED BY <2>2, <2>3, <2>4
  <1> QED BY <1>6, <1>8, <1>9 DEF NumbersInv

-----------------------------------------------------------------------------
\* The telemetry alone does not touch the shots.
LEMMA TelemetrySends ==
    ASSUME AdapterInv, NumbersInv, NEW ready, NEW percent, SendTelemetry(ready, percent)
    PROVE  NumbersInv'
  <1>1. FrpTypeOK /\ shot_number \in Nat /\ shots \in [Conns -> Seq(ShotEnvelope)]
    BY DEF AdapterInv, FrpTypeOK
  <1>2. UNCHANGED <<shot_number, incoming, established>>
    BY DEF SendTelemetry
  <1>3. shots' = shots /\ conn' \in {conn, None}
    <2>1. CASE Unsent
      BY <2>1 DEF Unsent, historyVars
    <2>2. CASE ~Unsent
      <3>1. conn # None
        BY <2>2 DEF SendTelemetry
      <3>2. PICK o \in Outcomes(conn, <<telemetry'>>, <<>>) :
              Transmit(<<telemetry'>>, <<>>, o)
        BY <2>2, <3>1 DEF SendTelemetry
      <3>3. conn' \in {conn, None}
        BY <3>2 DEF Transmit, DropConnection
      <3>4. shots' = [shots EXCEPT ![conn] = @ \o SubSeq(<<>>, 1, o.sent - 1)]
        BY <3>2 DEF Transmit, Handed
      <3>5. SubSeq(<<>>, 1, o.sent - 1) = <<>>
        <4>1. o.sent \in 0..1
          BY <3>2 DEF Outcomes
        <4> QED BY <4>1
      <3>6. conn \in Conns /\ shots[conn] \in Seq(ShotEnvelope)
        BY <1>1, <3>1 DEF FrpTypeOK
      <3>7. shots[conn] \o <<>> = shots[conn]
        BY <3>6
      <3> QED BY <1>1, <3>3, <3>4, <3>5, <3>7
    <2> QED BY <2>1, <2>2
  <1> QED BY <1>1, <1>2, <1>3, NothingSent

LEMMA ShotSends ==
    ASSUME AdapterInv, NumbersInv, NEW detail, HandleShot(detail)
    PROVE  NumbersInv'
  <1> DEFINE news == IF SaysNothingNew(FALSE, None) THEN <<>> ELSE <<Telemetry(FALSE, None)>>
             messages == ShotMessages(shot_number + 1, detail)
  <1>1. FrpTypeOK /\ shot_number \in Nat
    BY DEF AdapterInv, FrpTypeOK
  <1>2. UNCHANGED <<incoming, established>>
    BY DEF HandleShot
  <1>3. CASE conn = None
    <2>1. shot_number' = shot_number + 1 /\ UNCHANGED <<conn, shots>>
      BY <1>3 DEF HandleShot, Unsent, historyVars
    <2> QED BY <1>1, <1>2, <2>1, NothingSent
  <1>4. CASE conn # None
    <2>1. PICK o \in Outcomes(conn, news, messages) :
            /\ Transmit(news, messages, o)
            /\ shot_number' = IF o.end = "failed" /\ o.sent < Len(news)
                              THEN shot_number ELSE shot_number + 1
      BY <1>4 DEF HandleShot
    <2>2. messages \in Seq(Numbered(shot_number + 1)) /\ Len(messages) \in Nat
      BY MessagesKey
    <2>3. Len(news) \in Nat
      OBVIOUS
    <2> HIDE DEF news, messages
    <2> DEFINE part == SubSeq(messages, 1, o.sent - Len(news))
    <2>4. o.sent \in 0..Len(news) + Len(messages)
      BY <2>2, <2>3 DEF Outcomes
    <2>5. part \in Seq(Numbered(shot_number + 1)) /\ (o.sent < Len(news) => part = <<>>)
      BY <2>2, <2>3, <2>4
    <2>6. shots' = [shots EXCEPT ![conn] = @ \o part] /\ conn' \in {conn, None}
      BY <2>1 DEF Transmit, Handed, DropConnection
    <2>7. \/ shot_number' = shot_number + 1
          \/ shot_number' = shot_number /\ part = <<>>
      BY <2>1, <2>5
    <2> HIDE DEF part
    <2> QED BY <1>2, <1>4, <2>5, <2>6, <2>7, ShotSent
  <1> QED BY <1>3, <1>4

\* Adopting a controller sends it telemetry at most.
LEMMA AdoptionSends ==
    ASSUME AdapterInv, NumbersInv, PollConnection
    PROVE  NumbersInv'
  <1> DEFINE c == Head(incoming)
             news == IF telemetry = None THEN <<>> ELSE <<telemetry>>
  <1>1. /\ FrpTypeOK /\ incoming \in Seq(Conns) /\ incoming # <<>>
        /\ shots \in [Conns -> Seq(ShotEnvelope)] /\ established \in Nat
    BY DEF AdapterInv, FrpTypeOK, PollConnection
  <1>2. c = incoming[1] /\ c \in Conns /\ 1 \in DOMAIN incoming /\ Conns \subseteq Nat
    BY <1>1 DEF Conns
  <1>3. c <= established /\ Untouched(c)
    BY <1>2 DEF NumbersInv, InOrder
  <1>4. Tail(incoming) = <<>>
    <2>1. asked \in Nat /\ Len(incoming) \in Nat /\ Len(incoming) > 0
      BY <1>1 DEF FrpTypeOK
    <2>2. pending
      BY DEF AdapterInv, ConnectionAccounted, PollConnection
    <2>3. asked + (IF working THEN 1 ELSE 0) + Len(incoming) = 1
      BY <2>2 DEF AdapterInv, ConnectionAccounted
    <2> HIDE DEF c, news
    <2>4. Len(incoming) = 1
      <3>1. (IF working THEN 1 ELSE 0) \in Nat
        OBVIOUS
      <3>2. \A a, w, n \in Nat : n > 0 /\ a + w + n = 1 => n = 1
        OBVIOUS
      <3> QED BY <2>1, <2>3, <3>1, <3>2, Zenon
    <2>5. Tail(incoming) \in Seq(Conns) /\ Len(Tail(incoming)) = 0
      BY <1>1, <2>4
    <2>6. \A s \in Seq(Conns) : Len(s) = 0 => s = <<>>
      OBVIOUS
    <2> QED BY <2>5, <2>6, Zenon
  <1>5. PICK o \in Outcomes(c, news, <<>>) :
          Handed(c, news, <<>>, o) /\ conn' \in {c, None}
    BY DEF PollConnection
  <1>6. /\ incoming' = <<>> /\ UNCHANGED <<shot_number, established>>
    BY <1>4 DEF PollConnection
  <1>7. shots' = shots
    <2>1. Len(news) \in Nat
      OBVIOUS
    <2> HIDE DEF news
    <2>2. o.sent \in Nat /\ o.sent <= Len(news)
      BY <1>5, <2>1 DEF Outcomes
    <2>3. SubSeq(<<>>, 1, o.sent - Len(news)) = <<>>
      BY <2>1, <2>2
    <2>4. shots' = [shots EXCEPT ![c] = @ \o <<>>]
      BY <1>5, <2>3 DEF Handed
    <2>5. shots[c] \o <<>> = shots[c]
      BY <1>1, <1>2
    <2> QED BY <1>1, <2>4, <2>5
  <1> HIDE DEF c, news
  <1>8. InOrder'
    <2>1. \A d \in Conns : d >= c + 1 => shots'[d] = <<>>
      BY <1>2, <1>3, <1>7 DEF Untouched
    <2>2. conn' # None => conn' <= established' /\ Untouched(conn + 1)'
      BY <1>3, <1>5, <1>6, <2>1 DEF Untouched
    <2>3. Untouched(established + 1)'
      BY <1>6, <1>7 DEF NumbersInv, InOrder, Untouched
    <2> QED BY <1>6, <2>2, <2>3 DEF InOrder
  <1>9. NumbersGiven' /\ ShotNumbersFresh'
    BY <1>6, <1>7 DEF NumbersInv, NumbersGiven, ShotNumbersFresh
  <1> QED BY <1>8, <1>9 DEF NumbersInv

LEMMA AcceptorSends ==
    ASSUME AdapterInv, NumbersInv, Acceptor \/ Hangup
    PROVE  NumbersInv'
  <1>1. FrpTypeOK /\ shot_number \in Nat /\ established \in Nat /\ Conns \subseteq Nat
    BY DEF AdapterInv, FrpTypeOK, Conns
  <1>2. UNCHANGED <<conn, shot_number, shots>>
    BY DEF Acceptor, TakeRequest, Establish, Hangup, adapterVars, historyVars
  <1>3. CASE TakeRequest \/ Hangup
    <2>1. UNCHANGED <<incoming, established>>
      BY <1>3 DEF TakeRequest, Hangup
    <2> QED BY <1>1, <1>2, <2>1, NothingSent
  <1>4. CASE Establish
    <2>1. established' = established + 1 /\ incoming' = Append(incoming, established + 1)
      BY <1>4 DEF Establish
    <2>2. incoming = <<>>
      <3>1. asked + 1 + Len(incoming) = IF pending THEN 1 ELSE 0
        BY <1>4 DEF AdapterInv, ConnectionAccounted, Establish
      <3>2. asked \in Nat /\ Len(incoming) \in Nat /\ incoming \in Seq(Conns)
        BY <1>1 DEF FrpTypeOK
      <3> QED BY <3>1, <3>2
    <2>3. incoming' = <<established + 1>>
      BY <2>1, <2>2
    <2>4. /\ conn # None => conn <= established /\ Untouched(conn + 1)
          /\ Untouched(established + 1)
      BY DEF NumbersInv, InOrder
    <2>5. conn' # None => conn' <= established' /\ Untouched(conn + 1)'
      <3>1. conn # None => conn \in Nat
        BY <1>1 DEF FrpTypeOK
      <3> QED BY <1>1, <1>2, <2>1, <2>4, <3>1 DEF Untouched
    <2>6. \A i \in DOMAIN incoming' : incoming'[i] = established + 1
      BY <2>3
    <2>7. \A i \in DOMAIN incoming' : incoming'[i] <= established' /\ Untouched(incoming[i])'
      BY <1>1, <1>2, <2>1, <2>4, <2>6 DEF Untouched
    <2>8. Untouched(established + 1)'
      BY <1>1, <1>2, <2>1, <2>4 DEF Untouched
    <2>9. InOrder'
      BY <2>5, <2>7, <2>8 DEF InOrder
    <2> QED BY <1>2, <2>9 DEF NumbersInv, NumbersGiven, ShotNumbersFresh
  <1> QED BY <1>3, <1>4 DEF Acceptor

-----------------------------------------------------------------------------
LEMMA FreshStep ==
    AdapterInv /\ NumbersInv /\ [FrpNext]_frpVars => NumbersInv'
  <1> SUFFICES ASSUME AdapterInv, NumbersInv, [FrpNext]_frpVars PROVE NumbersInv'
    OBVIOUS
  <1>1. CASE Acceptor \/ Hangup
    BY <1>1, AcceptorSends
  <1>2. CASE PollConnection
    BY <1>2, AdoptionSends
  <1>3. CASE LoseController \/ UNCHANGED frpVars
    <2>1. FrpTypeOK /\ shot_number \in Nat
      BY DEF AdapterInv, FrpTypeOK
    <2>2. UNCHANGED <<shots, shot_number, incoming, established>> /\ conn' \in {conn, None}
      BY <1>3 DEF LoseController, DropConnection, frpVars, adapterVars, acceptorVars,
                  historyVars
    <2> QED BY <2>1, <2>2, NothingSent
  <1>4. CASE \/ SendDeviceInfo
             \/ \E ready \in BOOLEAN : HandleState(ready)
             \/ \E percent \in Percents : HandleBattery(percent)
    BY <1>4, TelemetrySends DEF SendDeviceInfo, HandleState, HandleBattery
  <1>5. CASE \E detail \in Details : HandleShot(detail)
    BY <1>5, ShotSends
  <1> QED BY <1>1, <1>2, <1>3, <1>4, <1>5 DEF FrpNext, Adapter

\* No shot is split between controllers or numbered twice, however often controllers
\* come and go and whichever sends fail (mod.rs handle_event, shot_number).
THEOREM NumbersFresh == FrpSpec => []ShotNumbersFresh
  <1>1. FrpInit => NumbersInv
    BY DEF FrpInit, NumbersInv, InOrder, Untouched, NumbersGiven, ShotNumbersFresh
  <1>2. NumbersInv => ShotNumbersFresh
    BY DEF NumbersInv
  <1> QED BY <1>1, <1>2, FreshStep, AdapterInvariant, PTL DEF FrpSpec

-----------------------------------------------------------------------------
(* The stream of one connection: shots in the documented order, the last one perhaps cut. *)
Chained(s) ==
    /\ s # <<>> => s[1].kind = "trigger"
    /\ \A i \in 1..Len(s) - 1 : Follows(s[i + 1], s[i])

Finished(s) == s # <<>> => s[Len(s)].kind = "finished"

\* One more envelope, of a kind that may follow.
LEMMA LinkedOn ==
    ASSUME NEW S, NEW s \in Seq(S), NEW x \in S, s # <<>>, Chained(s), Follows(x, s[Len(s)])
    PROVE  LET t == s \o <<x>>
           IN  t \in Seq(S) /\ t # <<>> /\ Chained(t) /\ t[Len(t)] = x
  <1> DEFINE t == s \o <<x>>
  <1>1. /\ Len(s) \in Nat /\ Len(s) > 0
        /\ t \in Seq(S) /\ Len(t) = Len(s) + 1
        /\ \A i \in 1..Len(s) : t[i] = s[i]
        /\ t[Len(s) + 1] = x
    OBVIOUS
  <1> HIDE DEF t
  <1>2. t # <<>>
    BY <1>1
  <1>3. t[1].kind = "trigger"
    BY <1>1 DEF Chained
  <1>4. ASSUME NEW i \in 1..Len(t) - 1 PROVE Follows(t[i + 1], t[i])
    <2>1. CASE i = Len(s)
      BY <1>1, <2>1
    <2>2. CASE i # Len(s)
      <3>1. i \in 1..Len(s) - 1 /\ i \in 1..Len(s) /\ i + 1 \in 1..Len(s)
        BY <1>1, <2>2
      <3> QED BY <1>1, <3>1 DEF Chained
    <2> QED BY <2>1, <2>2
  <1> QED BY <1>1, <1>2, <1>3, <1>4 DEF Chained, t

LEMMA MessagesChained ==
    ASSUME NEW n \in Nat, NEW detail \in Details
    PROVE  Chained(ShotMessages(n, detail)) /\ Finished(ShotMessages(n, detail))
  <1> DEFINE S == Numbered(n)
             flight == ShotMessage("flight", n)
             path == ShotMessage("path", n)
             impact == ShotMessage("impact", n)
             finished == ShotMessage("finished", n)
             start == <<ShotMessage("trigger", n), flight>>
  <1>1. /\ flight \in S /\ path \in S /\ impact \in S /\ finished \in S
        /\ finished.kind = "finished"
    BY DEF ShotMessage, Numbered, ShotKinds
  <1>2. start \in Seq(S) /\ start # <<>> /\ Len(start) = 2 /\ start[2] = flight /\ Chained(start)
    <2>1. ShotMessage("trigger", n) \in S
      BY DEF ShotMessage, Numbered, ShotKinds
    <2>2. start \in Seq(S) /\ start # <<>> /\ Len(start) = 2 /\ start[2] = flight
          /\ start[1] = ShotMessage("trigger", n)
      BY <1>1, <2>1
    <2>3. Follows(flight, ShotMessage("trigger", n))
      BY DEF Follows, ShotMessage
    <2>4. ShotMessage("trigger", n).kind = "trigger"
      BY DEF ShotMessage
    <2> HIDE DEF start, flight
    <2> QED BY <2>2, <2>3, <2>4 DEF Chained
  <1>3. /\ Follows(finished, flight) /\ Follows(path, flight)
        /\ Follows(finished, path) /\ Follows(impact, path) /\ Follows(finished, impact)
    BY DEF Follows, ShotMessage
  <1>4. /\ detail = "ball" => ShotMessages(n, detail) = start \o <<>> \o <<>> \o <<finished>>
        /\ detail = "club" => ShotMessages(n, detail) = start \o <<path>> \o <<>> \o <<finished>>
        /\ detail = "impact" =>
             ShotMessages(n, detail) = start \o <<path>> \o <<impact>> \o <<finished>>
    BY DEF ShotMessages
  <1> HIDE DEF S, flight, path, impact, finished, start
  <1>5. \A s \in Seq(S) : s \o <<>> = s
    OBVIOUS
  <1>6. ASSUME NEW s \in Seq(S), s # <<>>, Chained(s), Follows(finished, s[Len(s)])
        PROVE  Chained(s \o <<finished>>) /\ Finished(s \o <<finished>>)
    BY <1>1, <1>6, LinkedOn DEF Finished
  <1>7. CASE detail = "ball"
    <2>1. ShotMessages(n, detail) = start \o <<finished>>
      BY <1>2, <1>4, <1>5, <1>7
    <2> QED BY <1>2, <1>3, <1>6, <2>1
  <1> DEFINE second == start \o <<path>>
  <1>8. second \in Seq(S) /\ second # <<>> /\ Chained(second) /\ second[Len(second)] = path
    BY <1>1, <1>2, <1>3, LinkedOn
  <1> HIDE DEF second
  <1>9. CASE detail = "club"
    <2>1. ShotMessages(n, detail) = second \o <<finished>>
      BY <1>4, <1>5, <1>8, <1>9 DEF second
    <2> QED BY <1>3, <1>6, <1>8, <2>1
  <1>10. CASE detail = "impact"
    <2> DEFINE third == second \o <<impact>>
    <2>1. third \in Seq(S) /\ third # <<>> /\ Chained(third) /\ third[Len(third)] = impact
      BY <1>1, <1>3, <1>8, LinkedOn
    <2>2. ShotMessages(n, detail) = third \o <<finished>>
      BY <1>4, <1>10 DEF second
    <2> HIDE DEF third
    <2> QED BY <1>3, <1>6, <2>1, <2>2
  <1> QED BY <1>7, <1>9, <1>10 DEF Details

\* The start of a new shot after whole ones leaves whole ones and that start.
LEMMA ChainedOn ==
    ASSUME NEW S, NEW n \in Nat, NEW s \in Seq(S), NEW m \in Seq(S), \A x \in S : x.key \in Int,
           Chained(s), Finished(s), \A i \in DOMAIN s : s[i].key < n,
           \A i \in DOMAIN m : m[i].key = n,
           Chained(m), Finished(m), NEW k \in 0..Len(m)
    PROVE  /\ Chained(s \o SubSeq(m, 1, k))
           /\ k = Len(m) => Finished(s \o SubSeq(m, 1, k))
  <1> DEFINE part == SubSeq(m, 1, k)
             all == s \o part
  <1>1. /\ Len(s) \in Nat /\ k \in Nat /\ Len(m) \in Nat /\ k <= Len(m)
        /\ DOMAIN s = 1..Len(s) /\ DOMAIN m = 1..Len(m)
    OBVIOUS
  <1>2. /\ Len(all) = Len(s) + k
        /\ all # <<>> => Len(s) + k > 0
        /\ \A i \in 1..Len(s) : all[i] = s[i]
        /\ \A i \in 1..k : all[Len(s) + i] = m[i]
    <2>1. part \in Seq(S) /\ Len(part) = k /\ \A i \in 1..k : part[i] = m[i]
      BY <1>1
    <2> HIDE DEF part
    <2>2. Len(all) = Len(s) + k /\ (all # <<>> => Len(s) + k > 0)
      <3>1. all \in Seq(S) /\ Len(all) = Len(s) + k
        BY <1>1, <2>1
      <3> HIDE DEF all
      <3>2. all # <<>> => Len(all) > 0
        BY <3>1
      <3> QED BY <3>1, <3>2
    <2>3. \A i \in 1..Len(s) : all[i] = s[i]
      BY <1>1, <2>1
    <2>4. \A i \in 1..k : all[Len(s) + i] = part[i]
      BY <1>1, <2>1
    <2> QED BY <2>1, <2>2, <2>3, <2>4
  <1>3. /\ s # <<>> => Len(s) > 0
        /\ m # <<>> => Len(m) > 0
        /\ k > 0 => m # <<>>
    BY <1>1
  <1> HIDE DEF part, all
  <1>4. all # <<>> => all[1].kind = "trigger"
    <2> SUFFICES ASSUME all # <<>> PROVE all[1].kind = "trigger"
      OBVIOUS
    <2>1. CASE Len(s) > 0
      BY <1>1, <1>2, <2>1 DEF Chained
    <2>2. CASE Len(s) = 0
      <3>1. k > 0 /\ all[1] = m[1]
        BY <1>1, <1>2, <2>2
      <3> QED BY <1>3, <3>1 DEF Chained
    <2> QED BY <1>1, <2>1, <2>2
  <1>5. ASSUME NEW i \in 1..Len(s) + k - 1
        PROVE  Follows(all[i + 1], all[i])
    <2>1. CASE i < Len(s)
      BY <1>1, <1>2, <2>1 DEF Chained
    <2>2. CASE i = Len(s)
      <3>1. /\ k > 0 /\ s # <<>> /\ i \in DOMAIN s /\ 1 \in 1..k /\ 1 \in 1..Len(m)
            /\ all[i] = s[i] /\ all[i + 1] = m[1]
        BY <1>1, <1>2, <2>2
      <3>2. s[i].kind = "finished" /\ m[1].kind = "trigger"
        BY <1>3, <2>2, <3>1 DEF Chained, Finished
      <3>3. s[i].key < n /\ m[1].key = n /\ s[i].key \in Int
        <4>1. s[i] \in S
          BY <3>1
        <4> QED BY <1>1, <3>1, <4>1
      <3> QED BY <3>1, <3>2, <3>3 DEF Follows
    <2>3. CASE i > Len(s)
      <3> DEFINE j == i - Len(s)
      <3>1. j \in 1..k - 1 /\ j \in 1..k /\ j + 1 \in 1..k /\ j \in 1..Len(m) - 1
            /\ Len(s) + j = i /\ Len(s) + (j + 1) = i + 1
        BY <1>1, <2>3
      <3>2. all[i] = m[j] /\ all[i + 1] = m[j + 1]
        BY <1>2, <3>1
      <3> QED BY <3>1, <3>2 DEF Chained
    <2>4. i < Len(s) \/ i = Len(s) \/ i > Len(s)
      <3>1. \A a, b \in Nat : \A j \in 1..a + b - 1 : j < a \/ j = a \/ j > a
        OBVIOUS
      <3>2. Len(s) \in Nat /\ k \in Nat
        BY <1>1
      <3> QED BY <3>1, <3>2
    <2> QED BY <2>1, <2>2, <2>3, <2>4
  <1>6. k = Len(m) => Finished(all)
    <2> SUFFICES ASSUME k = Len(m), all # <<>>
                 PROVE  all[Len(s) + k].kind = "finished"
      BY <1>2 DEF Finished
    <2>1. CASE k > 0
      BY <1>1, <1>2, <1>3, <2>1 DEF Finished
    <2>2. CASE k = 0
      BY <1>1, <1>2, <1>3, <2>2 DEF Finished
    <2> QED BY <1>1, <2>1, <2>2
  <1> QED BY <1>2, <1>4, <1>5, <1>6 DEF Chained, all, part

-----------------------------------------------------------------------------
ShotsInv == AdapterInv /\ NumbersInv /\ ShotsWhole

LEMMA WholeIsChained ==
    ShotsWhole <=> \A c \in Conns \ failed :
                      Chained(shots[c]) /\ (conn = c => Finished(shots[c]))
  BY DEF ShotsWhole, Chained, Finished

\* A step that sends no shot, and after which no other connection is in use.
LEMMA NothingBroken ==
    ASSUME ShotsWhole, UNCHANGED shots, conn' \in {conn, None}, failed \subseteq failed',
           None \notin Conns
    PROVE  ShotsWhole'
  <1>1. \A c \in Conns \ failed' : c \in Conns \ failed /\ (conn' = c => conn = c)
    OBVIOUS
  <1> QED BY <1>1 DEF ShotsWhole

LEMMA TelemetryBreaksNothing ==
    ASSUME ShotsInv, NEW ready, NEW percent, SendTelemetry(ready, percent)
    PROVE  ShotsWhole'
  <1>1. FrpTypeOK /\ shots \in [Conns -> Seq(ShotEnvelope)] /\ None \notin Conns
    BY DEF ShotsInv, AdapterInv, FrpTypeOK, Conns
  <1>2. CASE Unsent
    BY <1>1, <1>2, NothingBroken DEF Unsent, historyVars, ShotsInv
  <1>3. CASE ~Unsent
    <2>1. conn # None
      BY <1>3 DEF SendTelemetry
    <2>2. PICK o \in Outcomes(conn, <<telemetry'>>, <<>>) : Transmit(<<telemetry'>>, <<>>, o)
      BY <1>3, <2>1 DEF SendTelemetry
    <2>3. conn' \in {conn, None} /\ failed \subseteq failed'
      BY <2>2 DEF Transmit, DropConnection, Handed
    <2>4. shots' = shots
      <3>1. SubSeq(<<>>, 1, o.sent - 1) = <<>>
        <4>1. o.sent \in 0..1
          BY <2>2 DEF Outcomes
        <4> QED BY <4>1
      <3>2. shots' = [shots EXCEPT ![conn] = @ \o SubSeq(<<>>, 1, o.sent - 1)]
        BY <2>2 DEF Transmit, Handed
      <3>3. shots[conn] \o <<>> = shots[conn]
        BY <1>1, <2>1 DEF FrpTypeOK
      <3> QED BY <1>1, <3>1, <3>2, <3>3
    <2> QED BY <1>1, <2>3, <2>4, NothingBroken DEF ShotsInv
  <1> QED BY <1>2, <1>3

\* A shot starts where the last one has ended; if it ends the connection stays in use,
\* and if not, it is dropped or has failed.
LEMMA ShotBreaksNothing ==
    ASSUME ShotsInv, NEW detail \in Details, HandleShot(detail)
    PROVE  ShotsWhole'
  <1> DEFINE news == IF SaysNothingNew(FALSE, None) THEN <<>> ELSE <<Telemetry(FALSE, None)>>
             n == shot_number + 1
             messages == ShotMessages(n, detail)
  <1>1. /\ FrpTypeOK /\ shots \in [Conns -> Seq(ShotEnvelope)] /\ None \notin Conns
        /\ n \in 1..MaxShotNumber /\ n \in Nat /\ shot_number \in Nat
    BY DEF ShotsInv, AdapterInv, FrpTypeOK, Conns, HandleShot
  <1>2. CASE conn = None
    <2>1. UNCHANGED <<conn, shots, failed>>
      BY <1>2 DEF HandleShot, Unsent, historyVars
    <2> QED BY <1>1, <2>1, NothingBroken DEF ShotsInv
  <1>3. CASE conn # None
    <2>1. PICK o \in Outcomes(conn, news, messages) : Transmit(news, messages, o)
      BY <1>3 DEF HandleShot
    <2>2. /\ messages \in Seq(Numbered(n)) /\ messages \in Seq(ShotEnvelope)
          /\ Len(messages) \in Nat
          /\ Chained(messages) /\ Finished(messages)
      BY <1>1, MessagesKey, MessagesType, MessagesChained
    <2>3. \A i \in DOMAIN messages : messages[i].key = n
      <3> SUFFICES ASSUME NEW i \in DOMAIN messages PROVE messages[i].key = n
        OBVIOUS
      <3> HIDE DEF messages, n
      <3>1. messages[i] \in Numbered(n)
        BY <2>2
      <3> QED BY <3>1 DEF Numbered
    <2>4. Len(news) \in Nat
      OBVIOUS
    <2> HIDE DEF news, messages, n
    <2>5. conn \in Conns /\ shots[conn] \in Seq(ShotEnvelope)
      BY <1>1, <1>3 DEF FrpTypeOK
    <2> DEFINE k == IF o.sent < Len(news) THEN 0 ELSE o.sent - Len(news)
               part == SubSeq(messages, 1, k)
    <2>6. /\ k \in 0..Len(messages)
          /\ o.end \in {"ok", "closed", "failed"}
          /\ o.end = "ok" => k = Len(messages)
      BY <2>1, <2>2, <2>4 DEF Outcomes
    <2>7. shots' = [shots EXCEPT ![conn] = shots[conn] \o part]
      <3>1. o.sent < Len(news) => SubSeq(messages, 1, o.sent - Len(news)) = SubSeq(messages, 1, 0)
        <4>1. o.sent \in Nat
          BY <2>1, <2>2, <2>4 DEF Outcomes
        <4>2. \A a, b \in Nat : a < b => a - b \in Int /\ a - b < 1
          OBVIOUS
        <4> QED BY <2>2, <2>4, <4>1, <4>2
      <3> QED BY <2>1, <3>1 DEF Transmit, Handed
    <2> HIDE DEF k
    <2>8. \A i \in DOMAIN shots[conn] : shots[conn][i].key < n
      <3> SUFFICES ASSUME NEW i \in DOMAIN shots[conn] PROVE shots[conn][i].key < n
        OBVIOUS
      <3>1. shots[conn][i].key <= shot_number /\ shots[conn][i].key \in Nat
        BY <1>1, <2>5, KeysAreNumbers DEF ShotsInv, NumbersInv, NumbersGiven
      <3> QED BY <1>1, <3>1 DEF n
    <2>9. \A x \in ShotEnvelope : x.key \in Int
      BY DEF ShotEnvelope
    <2>10. conn \notin failed =>
             /\ Chained(shots[conn] \o part)
             /\ k = Len(messages) => Finished(shots[conn] \o part)
      <3> SUFFICES ASSUME conn \notin failed
                   PROVE  /\ Chained(shots[conn] \o part)
                          /\ k = Len(messages) => Finished(shots[conn] \o part)
        OBVIOUS
      <3>1. Chained(shots[conn]) /\ Finished(shots[conn])
        BY <2>5, WholeIsChained DEF ShotsInv
      <3> QED BY <1>1, <2>2, <2>3, <2>5, <2>6, <2>8, <2>9, <3>1, ChainedOn
    <2>11. /\ conn' = IF o.end = "closed" THEN None ELSE conn
           /\ failed' = IF o.end = "failed" THEN failed \cup {conn} ELSE failed
      BY <2>1 DEF Transmit, Handed, DropConnection
    <2> HIDE DEF part
    <2>12. ASSUME NEW c \in Conns \ failed'
           PROVE  Chained(shots'[c]) /\ (conn' = c => Finished(shots'[c]))
      <3>1. CASE c = conn
        <4>1. shots'[c] = shots[conn] \o part /\ conn \notin failed /\ o.end # "failed"
          BY <1>1, <2>5, <2>7, <2>11, <2>12, <3>1
        <4>2. conn' = c => o.end = "ok"
          BY <1>1, <2>6, <2>11, <4>1
        <4> QED BY <2>6, <2>10, <4>1, <4>2
      <3>2. CASE c # conn
        <4>1. shots'[c] = shots[c] /\ c \notin failed /\ conn' # c
          BY <1>1, <2>7, <2>11, <2>12, <3>2
        <4> QED BY <4>1, WholeIsChained DEF ShotsInv
      <3> QED BY <3>1, <3>2
    <2> QED BY <2>12 DEF ShotsWhole, Chained, Finished
  <1> QED BY <1>2, <1>3

\* A connection that comes into use has been sent no shot.
LEMMA AdoptionBreaksNothing ==
    ASSUME ShotsInv, PollConnection, NumbersInv'
    PROVE  ShotsWhole'
  <1> DEFINE c == Head(incoming)
             news == IF telemetry = None THEN <<>> ELSE <<telemetry>>
  <1>1. /\ FrpTypeOK /\ shots \in [Conns -> Seq(ShotEnvelope)] /\ None \notin Conns
        /\ incoming \in Seq(Conns) /\ incoming # <<>>
    BY DEF ShotsInv, AdapterInv, FrpTypeOK, Conns, PollConnection
  <1>2. c = incoming[1] /\ c \in Conns /\ 1 \in DOMAIN incoming /\ Conns \subseteq Int
    BY <1>1 DEF Conns
  <1>3. shots[c] = <<>>
    <2>1. Untouched(incoming[1])
      BY <1>2 DEF ShotsInv, NumbersInv, InOrder
    <2> HIDE DEF c
    <2>2. c >= c
      BY <1>2
    <2> QED BY <1>2, <2>1, <2>2 DEF Untouched
  <1>4. PICK o \in Outcomes(c, news, <<>>) :
          /\ Handed(c, news, <<>>, o)
          /\ conn' \in {None, c}
    BY DEF PollConnection
  <1>5. shots' = shots /\ failed \subseteq failed'
    <2>1. Len(news) \in Nat
      OBVIOUS
    <2> HIDE DEF news
    <2>2. o.sent \in Nat /\ o.sent <= Len(news)
      BY <1>4, <2>1 DEF Outcomes
    <2>3. SubSeq(<<>>, 1, o.sent - Len(news)) = <<>>
      BY <2>1, <2>2
    <2>4. shots' = [shots EXCEPT ![c] = @ \o <<>>] /\ failed \subseteq failed'
      BY <1>4, <2>3 DEF Handed
    <2>5. shots[c] \o <<>> = shots[c]
      BY <1>1, <1>2
    <2> QED BY <1>1, <2>4, <2>5
  <1> HIDE DEF c, news
  <1>6. ASSUME NEW d \in Conns \ failed'
        PROVE  Chained(shots'[d]) /\ (conn' = d => Finished(shots'[d]))
    <2>1. Chained(shots[d])
      BY <1>5, <1>6, WholeIsChained DEF ShotsInv
    <2>2. conn' = d => Finished(shots[d])
      BY <1>1, <1>3, <1>4 DEF Finished
    <2> QED BY <1>5, <2>1, <2>2
  <1> QED BY <1>6 DEF ShotsWhole, Chained, Finished

LEMMA WholeStep ==
    ShotsInv /\ [FrpNext]_frpVars => ShotsInv'
  <1> SUFFICES ASSUME ShotsInv, [FrpNext]_frpVars PROVE ShotsInv'
    OBVIOUS
  <1>1. AdapterInv' /\ NumbersInv'
    BY AdapterStep, FreshStep DEF ShotsInv
  <1>2. None \notin Conns
    BY DEF Conns
  <1>3. CASE Acceptor \/ Hangup \/ LoseController \/ UNCHANGED frpVars
    <2>1. UNCHANGED <<shots, failed>> /\ conn' \in {conn, None}
      BY <1>3 DEF Acceptor, TakeRequest, Establish, Hangup, LoseController, DropConnection,
                  frpVars, adapterVars, acceptorVars, historyVars
    <2> QED BY <1>1, <1>2, <2>1, NothingBroken DEF ShotsInv
  <1>4. CASE PollConnection
    BY <1>1, <1>4, AdoptionBreaksNothing DEF ShotsInv
  <1>5. CASE \/ SendDeviceInfo
             \/ \E ready \in BOOLEAN : HandleState(ready)
             \/ \E percent \in Percents : HandleBattery(percent)
    BY <1>1, <1>5, TelemetryBreaksNothing
       DEF SendDeviceInfo, HandleState, HandleBattery, ShotsInv
  <1>6. CASE \E detail \in Details : HandleShot(detail)
    BY <1>1, <1>6, ShotBreaksNothing DEF ShotsInv
  <1> QED BY <1>3, <1>4, <1>5, <1>6 DEF FrpNext, Adapter

\* However often controllers come and go, each sees whole shots in the documented order:
\* only the last may be cut, by its leaving or a failed send (mod.rs handle_event).
THEOREM ShotsAreWhole == FrpSpec => []ShotsWhole
  <1>1. FrpInit => ShotsInv
    <2> SUFFICES ASSUME FrpInit PROVE ShotsInv
      OBVIOUS
    <2>1. NumbersInv
      BY DEF FrpInit, NumbersInv, InOrder, Untouched, NumbersGiven, ShotNumbersFresh
    <2>2. ShotsWhole
      BY DEF FrpInit, ShotsWhole
    <2> QED BY <2>1, <2>2, AdapterInitially DEF ShotsInv
  <1>2. ShotsInv => ShotsWhole
    BY DEF ShotsInv
  <1> QED BY <1>1, <1>2, WholeStep, PTL DEF FrpSpec
=============================================================================
