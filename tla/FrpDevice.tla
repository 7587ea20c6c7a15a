----------------------------- MODULE FrpDevice -----------------------------
(***************************************************************************)
(* `FrpDevice` of src/src/frp/mod.rs: the adapter that turns the client's  *)
(* events into FRP envelopes for one controller at a time.  Connections    *)
(* are made by an acceptor thread, which the adapter asks over one channel *)
(* and which hands connections back over another.                          *)
(*                                                                         *)
(* A connection is numbered by the order in which it was established.  The *)
(* flightrelay crate is external: `send_envelope` on a connection may      *)
(* succeed, find the peer gone (FrpError::Closed), or fail otherwise, as a *)
(* non-blocking socket does when its buffer is full.                       *)
(***************************************************************************)
EXTENDS Integers, Sequences, Options

CONSTANTS MaxConns,     \* bound: connections established
          MaxShotNumber,\* bound: shots handed to the adapter
          Percents,     \* battery levels reported
          IoFails       \* TRUE: a socket call may fail though the peer is there

ASSUME FrpAssumption ==
    /\ MaxConns \in Nat
    /\ MaxShotNumber \in Nat
    /\ IoFails \in BOOLEAN
    /\ None \notin BOOLEAN
    /\ None \notin Nat
    /\ None \notin Percents

Conns == 1..MaxConns

VARIABLES conn,        \* the connection in use, or None
          pending,     \* a connection was asked for and not adopted yet
          telemetry,   \* the last telemetry envelope, or None
          last_ready,  \* last `ready` reported, or None
          shot_number

VARIABLES asked,       \* the request channel: how many () are in it
          working,     \* the acceptor is inside its retry loop
          incoming,    \* the connection channel
          established, \* connections made so far
          gone         \* connections whose peer has closed them

(* History: what was handed to each connection. *)
VARIABLES told,        \* told[c]: the last telemetry, or None
          shots,       \* shots[c]: the shot envelopes
          failed       \* connections on which a send failed and that were kept

adapterVars  == <<conn, pending, telemetry, last_ready, shot_number>>
acceptorVars == <<asked, working, incoming, established, gone>>
historyVars  == <<told, shots, failed>>
frpVars      == <<adapterVars, acceptorVars, historyVars>>

-----------------------------------------------------------------------------
(* Envelopes: a device_telemetry, or one event of the shot with a number. *)
\* Mutant of Telemetry: an unknown readiness is sent as it is.
TelemetryUnknown(ready, percent) ==
    [kind |-> "telemetry", ready |-> ready, percent |-> percent]

Telemetry(ready, percent) ==
    [kind |-> "telemetry", ready |-> ready = TRUE, percent |-> percent]

ShotKinds == {"trigger", "flight", "path", "impact", "finished"}

ShotMessage(kind, n) == [kind |-> kind, key |-> n]

\* What the event has beside the ball: nothing, club data, also a face impact.
Details == {"ball", "club", "impact"}

\* The envelopes of handle_event(Event::Shot), in order.
ShotMessages(n, detail) ==
    <<ShotMessage("trigger", n), ShotMessage("flight", n)>>
    \o (IF detail = "ball" THEN <<>> ELSE <<ShotMessage("path", n)>>)
    \o (IF detail = "impact" THEN <<ShotMessage("impact", n)>> ELSE <<>>)
    \o <<ShotMessage("finished", n)>>

TelemetryEnvelope == [kind : {"telemetry"}, ready : BOOLEAN, percent : Percents \cup {None}]
ShotEnvelope == [kind : ShotKinds, key : 1..MaxShotNumber]

FrpTypeOK ==
    /\ conn \in Conns \cup {None}
    /\ pending \in BOOLEAN
    /\ telemetry \in TelemetryEnvelope \cup {None}
    /\ last_ready \in BOOLEAN \cup {None}
    /\ shot_number \in 0..MaxShotNumber
    /\ asked \in Nat
    /\ working \in BOOLEAN
    /\ incoming \in Seq(Conns)
    /\ established \in 0..MaxConns
    /\ gone \subseteq Conns
    /\ told \in [Conns -> TelemetryEnvelope \cup {None}]
    /\ shots \in [Conns -> Seq(ShotEnvelope)]
    /\ failed \subseteq Conns

\* spawn: the adapter starts by asking for a connection.
FrpInit ==
    /\ conn = None
    /\ pending = TRUE
    /\ telemetry = None
    /\ last_ready = None
    /\ shot_number = 0
    /\ asked = 1
    /\ working = FALSE
    /\ incoming = <<>>
    /\ established = 0
    /\ gone = {}
    /\ told = [c \in Conns |-> None]
    /\ shots = [c \in Conns |-> <<>>]
    /\ failed = {}

-----------------------------------------------------------------------------
(* The acceptor thread: one request, one connection, however many attempts. *)
TakeRequest ==
    /\ ~working
    /\ asked > 0
    /\ asked' = asked - 1
    /\ working' = TRUE
    /\ UNCHANGED <<adapterVars, incoming, established, gone, historyVars>>

Establish ==
    /\ working
    /\ established < MaxConns
    /\ established' = established + 1
    /\ incoming' = Append(incoming, established + 1)
    /\ working' = FALSE
    /\ UNCHANGED <<adapterVars, asked, gone, historyVars>>

\* A controller closes its connection; nobody notices yet.
Hangup ==
    /\ \E c \in 1..established \ gone : gone' = gone \cup {c}
    /\ UNCHANGED <<adapterVars, asked, working, incoming, established,
                   historyVars>>

-----------------------------------------------------------------------------
\* request_connection, after the adapter's `pending` became p.
RequestConnection(p) ==
    /\ pending' = TRUE
    /\ asked' = IF p THEN asked ELSE asked + 1

\* Mutant of DropConnection: no replacement is asked for.
DropForGood ==
    /\ conn' = None
    /\ UNCHANGED <<pending, asked>>

DropConnection ==
    /\ conn' = None
    /\ RequestConnection(pending)

(***************************************************************************)
(* Sending over connection c the telemetry in news, then the messages of a *)
(* shot: how many were handed over, and what became of the next one.  That *)
(* the peer has gone may not be found out at once.                         *)
(***************************************************************************)
Outcomes(c, news, messages) ==
    LET all == Len(news) + Len(messages)
    IN  [sent : {all}, end : {"ok"}]
        \cup [sent : 0..all - 1,
              end  : (IF c \in gone THEN {"closed"} ELSE {})
                     \cup (IF IoFails THEN {"failed"} ELSE {})]

Handed(c, news, messages, o) ==
    /\ told' = IF o.sent > 0 /\ news # <<>> THEN [told EXCEPT ![c] = news[1]] ELSE told
    /\ shots' = [shots EXCEPT ![c] = @ \o SubSeq(messages, 1, o.sent - Len(news))]
    /\ failed' = IF o.end = "failed" THEN failed \cup {c} ELSE failed

\* Mutant of Transmit: a connection found closed is kept.
TransmitKeeps(news, messages, o) ==
    /\ Handed(conn, news, messages, o)
    /\ UNCHANGED <<conn, pending, asked>>

\* send_envelope for each in turn.  Closed drops the connection and is no error;
\* any other error ends the call and leaves the connection as it is.
Transmit(news, messages, o) ==
    /\ Handed(conn, news, messages, o)
    /\ IF o.end = "closed" THEN DropConnection ELSE UNCHANGED <<conn, pending, asked>>

Unsent == UNCHANGED <<conn, pending, asked, historyVars>>

-----------------------------------------------------------------------------
\* Mutants of PollConnection: the telemetry is not sent again; `pending` stays.
AdoptSilently ==
    /\ conn = None
    /\ incoming # <<>>
    /\ incoming' = Tail(incoming)
    /\ conn' = Head(incoming)
    /\ pending' = FALSE
    /\ UNCHANGED <<telemetry, last_ready, shot_number, asked, working, established,
                   gone, historyVars>>

AdoptPending ==
    /\ conn = None
    /\ incoming # <<>>
    /\ incoming' = Tail(incoming)
    /\ conn' = Head(incoming)
    /\ UNCHANGED <<pending, telemetry, last_ready, shot_number, asked, working,
                   established, gone, historyVars>>

\* poll_connection: adopt what the acceptor has made, and tell it the telemetry.
PollConnection ==
    /\ conn = None
    /\ incoming # <<>>
    /\ incoming' = Tail(incoming)
    /\ LET c == Head(incoming)
           news == IF telemetry = None THEN <<>> ELSE <<telemetry>>
       IN  \E o \in Outcomes(c, news, <<>>) :
             /\ Handed(c, news, <<>>, o)
             /\ IF o.end = "closed"
                THEN conn' = None /\ RequestConnection(FALSE)
                ELSE conn' = c /\ pending' = FALSE /\ UNCHANGED asked
    /\ UNCHANGED <<telemetry, last_ready, shot_number, working, established, gone>>

\* Mutant of LoseController: the error is taken for "no message".
LoseNothing ==
    /\ conn # None
    /\ conn \in gone \/ IoFails
    /\ UNCHANGED frpVars

\* check_controller on a connection that turns out to be lost.
LoseController ==
    /\ conn # None
    /\ conn \in gone \/ IoFails
    /\ DropConnection
    /\ UNCHANGED <<telemetry, last_ready, shot_number, working, incoming, established,
                   gone, historyVars>>

\* Mutant of SaysNothingNew: only the first readiness and batteries are news.
SaidOnce(ready, percent) == percent = None /\ last_ready # None

\* send_telemetry: what it leaves in the adapter, and the envelope.
SaysNothingNew(ready, percent) ==
    percent = None /\ ready # None /\ ready = last_ready

ReadyNow(ready) == IF ready = None THEN last_ready ELSE ready

SendTelemetry(ready, percent) ==
    /\ IF SaysNothingNew(ready, percent)
       THEN Unsent /\ UNCHANGED <<telemetry, last_ready>>
       ELSE /\ last_ready' = ReadyNow(ready)
            /\ telemetry' = Telemetry(last_ready', percent)
            /\ IF conn = None
               THEN Unsent
               ELSE \E o \in Outcomes(conn, <<telemetry'>>, <<>>) :
                      Transmit(<<telemetry'>>, <<>>, o)
    /\ UNCHANGED <<shot_number, working, incoming, established, gone>>

\* send_device_info, and handle_event of the events that become telemetry.
SendDeviceInfo == SendTelemetry(None, None)
HandleState(ready) == SendTelemetry(ready, None)
HandleBattery(percent) == SendTelemetry(None, percent)

\* Mutant of HandleShot: the number is only used up by a shot that was sent.
NumberIfSent(detail) ==
    /\ shot_number < MaxShotNumber
    /\ LET news == IF SaysNothingNew(FALSE, None) THEN <<>> ELSE <<Telemetry(FALSE, None)>>
           messages == ShotMessages(shot_number + 1, detail)
       IN  /\ telemetry' = IF news = <<>> THEN telemetry ELSE news[1]
           /\ last_ready' = FALSE
           /\ IF conn = None
              THEN Unsent /\ UNCHANGED shot_number
              ELSE \E o \in Outcomes(conn, news, messages) :
                     /\ Transmit(news, messages, o)
                     /\ shot_number' = IF o.end = "ok" THEN shot_number + 1 ELSE shot_number
    /\ UNCHANGED <<working, incoming, established, gone>>

\* handle_event(Event::Shot): not ready, then the shot.  An error on the way to
\* the telemetry loses the shot before it gets its number.
HandleShot(detail) ==
    /\ shot_number < MaxShotNumber
    /\ LET news == IF SaysNothingNew(FALSE, None) THEN <<>> ELSE <<Telemetry(FALSE, None)>>
           messages == ShotMessages(shot_number + 1, detail)
       IN  /\ telemetry' = IF news = <<>> THEN telemetry ELSE news[1]
           /\ last_ready' = FALSE
           /\ IF conn = None
              THEN Unsent /\ shot_number' = shot_number + 1
              ELSE \E o \in Outcomes(conn, news, messages) :
                     /\ Transmit(news, messages, o)
                     /\ shot_number' = IF o.end = "failed" /\ o.sent < Len(news)
                                       THEN shot_number ELSE shot_number + 1
    /\ UNCHANGED <<working, incoming, established, gone>>

Acceptor == TakeRequest \/ Establish

Adapter == \/ PollConnection \/ LoseController \/ SendDeviceInfo
           \/ \E ready \in BOOLEAN : HandleState(ready)
           \/ \E percent \in Percents : HandleBattery(percent)
           \/ \E detail \in Details : HandleShot(detail)

FrpNext == Acceptor \/ Hangup \/ Adapter

FrpSpec == FrpInit /\ [][FrpNext]_frpVars

-----------------------------------------------------------------------------
\* One request, one connection: while the adapter has no controller exactly one
\* connection is asked for, being made or waiting to be adopted, and none while
\* it has one (mod.rs request_connection, spawn, drop_connection).
ConnectionAccounted ==
    /\ (conn = None) = pending
    /\ asked + (IF working THEN 1 ELSE 0) + Len(incoming) = IF pending THEN 1 ELSE 0

\* A connected controller knows the current telemetry, also one that connected
\* after it was produced, unless a send to it failed (mod.rs poll_connection).
ControllerUpToDate ==
    conn # None /\ conn \notin failed /\ telemetry # None => told[conn] = telemetry

\* What may follow an envelope of a shot, in the stream of one connection.
Follows(next, previous) ==
    \/ previous.kind = "finished" /\ next.kind = "trigger" /\ next.key > previous.key
    \/ /\ next.key = previous.key
       /\ <<previous.kind, next.kind>> \in
            {<<"trigger", "flight">>, <<"flight", "path">>, <<"flight", "finished">>,
             <<"path", "impact">>, <<"path", "finished">>, <<"impact", "finished">>}

\* A controller sees whole shots, in the documented order; only the shot during
\* which it left, or on which a send failed, is cut (mod.rs handle_event).
ShotsWhole ==
    \A c \in Conns \ failed :
        /\ shots[c] # <<>> => shots[c][1].kind = "trigger"
        /\ \A i \in 1..Len(shots[c]) - 1 : Follows(shots[c][i + 1], shots[c][i])
        /\ conn = c /\ shots[c] # <<>> => shots[c][Len(shots[c])].kind = "finished"

\* No shot is split between controllers or numbered twice (mod.rs shot_number).
ShotNumbersFresh ==
    \A c, d \in Conns : c < d =>
        \A i \in DOMAIN shots[c], j \in DOMAIN shots[d] : shots[c][i].key < shots[d][j].key

(***************************************************************************)
(* Fairness: the acceptor runs, a controller keeps trying to connect, and  *)
(* the caller calls poll_connection and check_controller in its loop.      *)
(***************************************************************************)
FrpFairSpec ==
    /\ FrpSpec
    /\ WF_frpVars(TakeRequest)
    /\ WF_frpVars(Establish)
    /\ WF_frpVars(PollConnection)
    /\ WF_frpVars(LoseController)

\* A dropped connection is made again (mod.rs, module doc).
Reconnects ==
    \A n \in 0..MaxConns - 1 :
        (conn = None /\ established = n) ~> (conn # None \/ established > n)

\* A controller that has gone is let go of (mod.rs check_controller).
GoneNoticed == \A c \in Conns : (conn = c /\ c \in gone) ~> conn # c
=============================================================================
