------------------------------- MODULE Bluez -------------------------------
(***************************************************************************)
(* src/src/bluez.rs: a program that connects to the one device through     *)
(* BlueZ, again and again, and the signal threads of the transports it     *)
(* gets.                                                                   *)
(*                                                                         *)
(* Every attempt opens a D-Bus connection of its own; they are numbered    *)
(* from 1, and the last is the one in use.  BlueZ and the device are       *)
(* external: BlueZ ends what a D-Bus client asked for (discovery,          *)
(* notifications, signals) with that client's connection, but not a link;  *)
(* it keeps an object for a device it has seen, unless that is neither     *)
(* trusted nor linked; and it learns some time later that a link is lost.  *)
(***************************************************************************)
EXTENDS Integers, Sequences, FiniteSets

CONSTANTS MaxConns,    \* bound: attempts to connect
          MaxSent,     \* bound: notifications of the device
          MaxQueued,   \* bound: signals in a connection's queue (the code's is 64)
          Deadline,    \* bound: turns of a loop in its 20 s (the code's are 80 and 200)
          Disconnects  \* TRUE: the caller disconnects before it drops a transport

ASSUME BluezAssumption ==
    /\ MaxConns \in Nat
    /\ MaxSent \in Nat
    /\ MaxQueued \in Nat
    /\ Deadline \in Nat
    /\ Disconnects \in BOOLEAN

Conns == 1..MaxConns

(* The program. *)
VARIABLES pc,        \* where the attempt is; "up": there is a transport
          conns,     \* connections opened so far
          told,      \* disconnect was called on the transport
          waited,    \* the time since the loop of find, or of connect, set its deadline
          thread,    \* thread[c]: "none", "running" or "ended"
          inbox,     \* inbox[c]: the channel from the thread to the transport
          handed     \* handed[c]: the last notification that read returned, or 0

(* BlueZ.  A signal is the number of a notification, or 0: another property. *)
VARIABLES known,     \* it has an object for the device
          trusted,
          linked,    \* "no", "wanted" or "yes"
          resolved,  \* ServicesResolved
          discovering, \* connections that have discovery on
          notifying, \* connections with StartNotify in force
          matched,   \* connections with a match rule
          signals,   \* signals[c]: queued for the connection c
          cut        \* connections that the bus has closed

(* The device. *)
VARIABLES held,      \* it has a link
          sent       \* notifications sent

(* History. *)
VARIABLES since,     \* since[c]: what was sent when StartNotify took effect
          unstopped  \* connections whose StopDiscovery failed

callerVars == <<pc, conns, told, waited>>
threadVars == <<thread, inbox, handed>>
linkVars   == <<known, trusted, linked, resolved, held>>
busVars    == <<discovering, notifying, matched, signals, cut>>
pastVars   == <<since, unstopped>>
bluezVars  == <<callerVars, threadVars, linkVars, busVars, sent, pastVars>>

Attempting == {"look", "scan", "trust", "ask", "resolve", "characteristics", "match", "notify",
               "spawn"}

BluezInit ==
    /\ pc = "idle"
    /\ conns = 0
    /\ told = FALSE
    /\ waited = 0
    /\ thread = [c \in Conns |-> "none"]
    /\ inbox = [c \in Conns |-> <<>>]
    /\ handed = [c \in Conns |-> 0]
    /\ known \in BOOLEAN
    /\ trusted \in {FALSE, known} \* by an earlier run of the program
    /\ linked = "no"
    /\ resolved = FALSE
    /\ discovering = {}
    /\ notifying = {}
    /\ matched = {}
    /\ signals = [c \in Conns |-> <<>>]
    /\ cut = {}
    /\ held = FALSE
    /\ sent = 0
    /\ since = [c \in Conns |-> 0]
    /\ unstopped = {}

-----------------------------------------------------------------------------
(* BlueZ and the device. *)

\* The link is over for BlueZ, and with it all notifications.
Unlinked ==
    /\ linked' = "no"
    /\ resolved' = FALSE
    /\ notifying' = {}

Discovered ==
    /\ discovering # {}
    /\ ~held
    /\ known' = TRUE
    /\ UNCHANGED <<callerVars, threadVars, trusted, linked, resolved, held, busVars, sent,
                   pastVars>>

Forgotten ==
    /\ known /\ ~trusted /\ linked = "no"
    /\ known' = FALSE
    /\ UNCHANGED <<callerVars, threadVars, trusted, linked, resolved, held, busVars, sent,
                   pastVars>>

LinkMade ==
    /\ linked = "wanted"
    /\ ~held
    /\ linked' = "yes"
    /\ held' = TRUE
    /\ UNCHANGED <<callerVars, threadVars, known, trusted, resolved, busVars, sent, pastVars>>

LinkRefused ==
    /\ linked = "wanted"
    /\ linked' = "no"
    /\ UNCHANGED <<callerVars, threadVars, known, trusted, resolved, held, busVars, sent,
                   pastVars>>

\* Of an untrusted device the services never resolve.
ServicesResolve ==
    /\ linked = "yes" /\ held /\ trusted
    /\ resolved' = TRUE
    /\ UNCHANGED <<callerVars, threadVars, known, trusted, linked, held, busVars, sent, pastVars>>

LinkLost ==
    /\ held
    /\ held' = FALSE
    /\ UNCHANGED <<callerVars, threadVars, known, trusted, linked, resolved, busVars, sent,
                   pastVars>>

LossNoticed ==
    /\ linked = "yes" /\ ~held
    /\ Unlinked
    /\ UNCHANGED <<callerVars, threadVars, known, trusted, held, discovering, matched, signals,
                   cut, sent, pastVars>>

\* PropertiesChanged goes to every connection that has a match rule.
Signal(v) ==
    signals' = [c \in Conns |-> IF c \in matched \ cut THEN Append(signals[c], v) ELSE signals[c]]

Notification ==
    /\ linked = "yes" /\ held
    /\ notifying # {}
    /\ sent < MaxSent
    /\ \A c \in matched \ cut : Len(signals[c]) < MaxQueued
    /\ sent' = sent + 1
    /\ Signal(sent + 1)
    /\ UNCHANGED <<callerVars, threadVars, linkVars, discovering, notifying, matched, cut,
                   pastVars>>

\* The bus closes a connection: what is queued stays readable.
BusLost(c) ==
    /\ c \in matched \ cut
    /\ cut' = cut \cup {c}
    /\ notifying' = notifying \ {c}
    /\ discovering' = discovering \ {c}
    /\ UNCHANGED <<callerVars, threadVars, linkVars, matched, signals, sent, pastVars>>

\* The program closes a connection.
Closed(c) ==
    /\ discovering' = discovering \ {c}
    /\ notifying' = notifying \ {c}
    /\ matched' = matched \ {c}
    /\ signals' = [signals EXCEPT ![c] = <<>>]

-----------------------------------------------------------------------------
(* connect. *)
Step(from, to) == pc = from /\ pc' = to

Begin ==
    /\ Step("idle", "look")
    /\ conns < MaxConns
    /\ conns' = conns + 1
    /\ told' = FALSE
    /\ UNCHANGED <<waited, threadVars, linkVars, busVars, sent, pastVars>>

\* An error drops the connection and does nothing else.
GiveUp ==
    /\ pc' = "idle"
    /\ waited' = 0
    /\ Closed(conns)
    /\ UNCHANGED <<conns, told, threadVars, linkVars, cut, sent, pastVars>>

\* find: the device is among BlueZ's objects already, linked or not.
Look ==
    /\ Step("look", "trust")
    /\ known
    /\ UNCHANGED <<conns, told, waited, threadVars, linkVars, busVars, sent, pastVars>>

\* find: the result of StartDiscovery is ignored.
Scan ==
    /\ Step("look", "scan")
    /\ ~known
    /\ discovering' \in {discovering, discovering \cup {conns}}
    /\ UNCHANGED <<conns, told, waited, threadVars, linkVars, notifying, matched, signals, cut,
                   sent, pastVars>>

\* A turn of a loop: one sleep at least, and the call to BlueZ may take longer.
Turn(loop) ==
    /\ pc = loop
    /\ waited < Deadline
    /\ waited' \in waited + 1..Deadline
    /\ UNCHANGED <<pc, conns, told, threadVars, linkVars, busVars, sent, pastVars>>

ScanMiss == ~known /\ Turn("scan")

\* Mutant of ScanHit: discovery stays on.
ScanHitOnly ==
    /\ Step("scan", "trust")
    /\ waited < Deadline
    /\ known
    /\ waited' = 0
    /\ UNCHANGED <<conns, told, threadVars, linkVars, busVars, sent, pastVars>>

\* find: so is that of StopDiscovery.
ScanHit ==
    /\ Step("scan", "trust")
    /\ waited < Deadline
    /\ known
    /\ waited' = 0
    /\ \/ discovering' = discovering \ {conns} /\ UNCHANGED unstopped
       \/ unstopped' = unstopped \cup {conns} /\ UNCHANGED discovering
    /\ UNCHANGED <<conns, told, threadVars, linkVars, notifying, matched, signals, cut, sent,
                   since>>

\* The deadline is looked at before the device: after the last turn nothing is.
NotFound == pc = "scan" /\ waited = Deadline /\ GiveUp

Trust ==
    /\ Step("trust", "ask")
    /\ known
    /\ trusted' = TRUE
    /\ UNCHANGED <<conns, told, waited, threadVars, known, linked, resolved, held, busVars, sent,
                   pastVars>>

\* Connect without a reply.
Ask ==
    /\ Step("ask", "resolve")
    /\ linked' = IF known /\ linked = "no" THEN "wanted" ELSE linked
    /\ UNCHANGED <<conns, told, waited, threadVars, known, trusted, resolved, held, busVars, sent,
                   pastVars>>

\* Here the property is looked at before the deadline.
Resolved ==
    /\ Step("resolve", "characteristics")
    /\ resolved
    /\ waited' = 0
    /\ UNCHANGED <<conns, told, threadVars, linkVars, busVars, sent, pastVars>>

\* Mutant of Unresolved: the deadline is set inside the loop.
UnresolvedAnew ==
    /\ ~resolved
    /\ pc = "resolve"
    /\ waited < Deadline
    /\ UNCHANGED bluezVars

Unresolved == ~resolved /\ Turn("resolve")

NeverResolved == pc = "resolve" /\ ~resolved /\ waited = Deadline /\ GiveUp

\* CMD and EVT are among the objects; they are removed when services are lost.
Characteristics ==
    /\ Step("characteristics", "match")
    /\ resolved
    /\ UNCHANGED <<conns, told, waited, threadVars, linkVars, busVars, sent, pastVars>>

Match ==
    /\ Step("match", "notify")
    /\ matched' = matched \cup {conns}
    /\ UNCHANGED <<conns, told, waited, threadVars, linkVars, discovering, notifying, signals,
                   cut, sent, pastVars>>

\* The first StartNotify changes the property Notifying, which is a signal as well.
StartNotify ==
    /\ Step("notify", "spawn")
    /\ linked = "yes"
    /\ conns \notin cut
    /\ notifying' = notifying \cup {conns}
    /\ IF notifying = {} THEN Signal(0) ELSE UNCHANGED signals
    /\ since' = [since EXCEPT ![conns] = sent]
    /\ UNCHANGED <<conns, told, waited, threadVars, linkVars, discovering, matched, cut, sent,
                   unstopped>>

\* Mutant of Spawn: the thread makes the match rule.
SpawnAndMatch ==
    /\ Step("spawn", "up")
    /\ thread' = [thread EXCEPT ![conns] = "running"]
    /\ signals' = [signals EXCEPT ![conns] = <<>>]
    /\ UNCHANGED <<conns, told, waited, inbox, handed, linkVars, discovering, notifying, matched,
                   cut, sent, pastVars>>

Spawn ==
    /\ Step("spawn", "up")
    /\ thread' = [thread EXCEPT ![conns] = "running"]
    /\ UNCHANGED <<conns, told, waited, inbox, handed, linkVars, busVars, sent, pastVars>>

\* BlueZ cannot but refuse the call: the object, the services, the link or the bus is gone.
Refused ==
    /\ \/ pc = "trust" /\ ~known
       \/ pc = "characteristics" /\ ~resolved
       \/ pc = "notify" /\ (linked # "yes" \/ conns \in cut)
    /\ GiveUp

\* Any other error, which may come at any step and need not come.
Fails == pc \in Attempting /\ GiveUp

-----------------------------------------------------------------------------
(* The transport. *)

Dropped(c) == c < conns \/ (c = conns /\ pc = "idle")

\* read of a queued notification; with none it changes nothing.
Read ==
    /\ pc = "up"
    /\ inbox[conns] # <<>>
    /\ handed' = [handed EXCEPT ![conns] = Head(inbox[conns])]
    /\ inbox' = [inbox EXCEPT ![conns] = Tail(@)]
    /\ UNCHANGED <<callerVars, thread, linkVars, busVars, sent, pastVars>>

\* read returns Ok(0).
ReadsEnd(c) == thread[c] = "ended" /\ inbox[c] = <<>>

\* BlueZ ends the link and replies.
Disconnect ==
    /\ pc = "up"
    /\ conns \notin cut
    /\ told' = TRUE
    /\ Unlinked
    /\ held' = (held /\ linked # "yes")
    /\ UNCHANGED <<pc, conns, waited, threadVars, known, trusted, discovering, matched, signals,
                   cut, sent, pastVars>>

\* BlueZ refuses, or the bus is lost: the caller may call again, or drop the transport.
DisconnectFails ==
    /\ pc = "up"
    /\ told' = TRUE
    /\ UNCHANGED <<pc, conns, waited, threadVars, linkVars, busVars, sent, pastVars>>

\* There is no Drop: the thread and its connection stay.
Drop ==
    /\ Step("up", "idle")
    /\ Disconnects => told
    /\ inbox' = [inbox EXCEPT ![conns] = <<>>]
    /\ UNCHANGED <<conns, told, waited, thread, handed, linkVars, busVars, sent, pastVars>>

-----------------------------------------------------------------------------
(* The signal thread. *)

\* The receiver is gone: the thread ends, and the connection with it.
Ends(c) ==
    /\ thread' = [thread EXCEPT ![c] = "ended"]
    /\ Closed(c)
    /\ UNCHANGED inbox

Take(c) == signals' = [signals EXCEPT ![c] = Tail(@)]

\* Mutant of Forward: every signal is taken for a notification.
ForwardAll(c) ==
    /\ thread[c] = "running"
    /\ signals[c] # <<>>
    /\ IF Dropped(c) THEN Ends(c)
       ELSE /\ inbox' = [inbox EXCEPT ![c] = Append(@, Head(signals[c]))]
            /\ Take(c)
            /\ UNCHANGED <<thread, discovering, notifying, matched>>
    /\ UNCHANGED <<callerVars, handed, linkVars, cut, sent, pastVars>>

\* Mutant of Forward: a message without a value ends the thread.
ForwardOrEnd(c) ==
    /\ thread[c] = "running"
    /\ signals[c] # <<>>
    /\ IF Head(signals[c]) = 0 \/ Dropped(c) THEN Ends(c)
       ELSE /\ inbox' = [inbox EXCEPT ![c] = Append(@, Head(signals[c]))]
            /\ Take(c)
            /\ UNCHANGED <<thread, discovering, notifying, matched>>
    /\ UNCHANGED <<callerVars, handed, linkVars, cut, sent, pastVars>>

\* Mutant of Forward: a failed send is ignored.
ForwardAnyway(c) ==
    /\ thread[c] = "running"
    /\ signals[c] # <<>>
    /\ inbox' = IF Head(signals[c]) = 0 \/ Dropped(c) THEN inbox
                ELSE [inbox EXCEPT ![c] = Append(@, Head(signals[c]))]
    /\ Take(c)
    /\ UNCHANGED <<callerVars, thread, handed, linkVars, discovering, notifying, matched, cut,
                   sent, pastVars>>

Forward(c) ==
    /\ thread[c] = "running"
    /\ signals[c] # <<>>
    /\ IF Head(signals[c]) # 0 /\ Dropped(c) THEN Ends(c)
       ELSE /\ inbox' = IF Head(signals[c]) = 0 THEN inbox
                        ELSE [inbox EXCEPT ![c] = Append(@, Head(signals[c]))]
            /\ Take(c)
            /\ UNCHANGED <<thread, discovering, notifying, matched>>
    /\ UNCHANGED <<callerVars, handed, linkVars, cut, sent, pastVars>>

\* The iterator ends with the bus.
Finish(c) ==
    /\ thread[c] = "running"
    /\ signals[c] = <<>>
    /\ c \in cut
    /\ Ends(c)
    /\ UNCHANGED <<callerVars, handed, linkVars, cut, sent, pastVars>>

-----------------------------------------------------------------------------
Progress ==
    \/ Look \/ Scan \/ ScanMiss \/ ScanHit \/ NotFound
    \/ Trust \/ Ask \/ Resolved \/ Unresolved \/ NeverResolved
    \/ Characteristics \/ Match \/ StartNotify \/ Spawn \/ Refused

Attempt == Progress \/ Fails

Transport == Begin \/ Read \/ Disconnect \/ DisconnectFails \/ Drop

External ==
    \/ Discovered \/ Forgotten \/ LinkMade \/ LinkRefused \/ ServicesResolve
    \/ LinkLost \/ LossNoticed \/ Notification
    \/ \E c \in Conns : BusLost(c)

BluezNext ==
    \/ Attempt \/ Transport \/ External
    \/ \E c \in Conns : Forward(c) \/ Finish(c)

(***************************************************************************)
(* Fairness: a thread runs; an attempt goes on, for BlueZ answers or       *)
(* refuses every call but Connect, which nothing waits for.  No error is   *)
(* due that the state does not force: an attempt that ends without one,    *)
(* ends by itself.                                                         *)
(***************************************************************************)
BluezSpec ==
    /\ BluezInit /\ [][BluezNext]_bluezVars
    /\ WF_bluezVars(Progress)
    /\ \A c \in Conns : WF_bluezVars(Forward(c)) /\ WF_bluezVars(Finish(c))

-----------------------------------------------------------------------------
\* Types: what is in a channel is a notification, never a signal about another property,
\* for a read of no bytes means that the device tears the link down.
BluezTypeOK ==
    /\ pc \in {"idle", "up"} \cup Attempting
    /\ conns \in 0..MaxConns
    /\ told \in BOOLEAN
    /\ waited \in 0..Deadline
    /\ thread \in [Conns -> {"none", "running", "ended"}]
    /\ inbox \in [Conns -> Seq(1..MaxSent)]
    /\ handed \in [Conns -> 0..MaxSent]
    /\ known \in BOOLEAN
    /\ trusted \in BOOLEAN
    /\ linked \in {"no", "wanted", "yes"}
    /\ resolved \in BOOLEAN
    /\ discovering \subseteq Conns
    /\ notifying \subseteq Conns
    /\ matched \subseteq Conns
    /\ signals \in [Conns -> Seq(0..MaxSent)]
    /\ cut \subseteq Conns
    /\ held \in BOOLEAN
    /\ sent \in 0..MaxSent
    /\ since \in [Conns -> 0..MaxSent]
    /\ unstopped \subseteq Conns

\* What is on the way to the transport c, in the order of its reads; the notifications in it.
OnTheWay(c) == inbox[c] \o signals[c]

Numbers(way) == {way[i] : i \in DOMAIN way} \ {0}

\* They are new, and in order: none is handed out twice, or after a later one.
Ordered(way) ==
    \A i, j \in DOMAIN way : i < j /\ way[i] # 0 /\ way[j] # 0 => way[i] < way[j]

AheadOf(c) == \A v \in Numbers(OnTheWay(c)) : handed[c] < v /\ v <= sent

\* After u no notification is left out: one that was sent has been read, is on the way,
\* or was cut off with all that came after it.
NoneLostAfter(c, u) ==
    \A v \in u + 1..sent :
        \/ v <= handed[c]
        \/ v \in Numbers(OnTheWay(c))
        \/ c \in cut /\ \A w \in Numbers(OnTheWay(c)) : w < v

\* From the moment StartNotify takes effect a transport gets every notification, in
\* order and once, whatever threads earlier transports have left behind: "nothing is
\* missed" (bluez.rs:124-125, connect and the signal thread).
NothingMissed ==
    pc = "up" =>
        /\ Ordered(OnTheWay(conns))
        /\ AheadOf(conns)
        /\ \A u \in Numbers(OnTheWay(conns)) \cup ({handed[conns]} \ {0}) \cup {since[conns]} :
              NoneLostAfter(conns, u)

\* A read says that the connection has ended only if the bus has closed it: never for
\* a message that the thread cannot use, nor for an earlier transport's end.
EndIsBusLost == pc = "up" /\ ReadsEnd(conns) => conns \in cut

\* Discovery is on during a scan only, though every error leaves find with `?`, unless
\* BlueZ refused to stop it (bluez.rs find).
DiscoveryOff ==
    \A c \in discovering : c \in unstopped \/ (c = conns /\ pc = "scan")

\* No link is left to an idle program: "Always disconnect explicitly when done ... a
\* connection a host leaves open hides it from every later scan" (docs/SEQUENCE.md:190).
LinkHasOwner == pc = "idle" => linked # "yes"

\* Every attempt to connect comes to an end, with no error to end it, though Connect is
\* never answered, the device never found or its services never resolved: each loop has a
\* deadline, and keeps it (bluez.rs:8-12, 103-112, 201-206).
AttemptsEnd == pc \notin {"idle", "up"} ~> pc \in {"idle", "up"}

\* The thread of a dropped transport ends with the next notification that reaches it,
\* and its D-Bus connection with it (bluez.rs connect, "transport dropped").
ThreadsEnd ==
    \A c \in Conns :
        (thread[c] = "running" /\ Dropped(c) /\ \E i \in DOMAIN signals[c] : signals[c][i] # 0)
            ~> thread[c] = "ended"
=============================================================================
