------------------------------ MODULE Btleplug ------------------------------
(***************************************************************************)
(* src/src/btleplug_transport.rs: threads that connect to the one device   *)
(* over a shared slot of OS Bluetooth sessions (btleplug's adapters), and  *)
(* the life of the transports they get.                                    *)
(*                                                                         *)
(* A session is numbered by the order in which it was opened; 0 is none.   *)
(* A thread makes one attempt, or has one transport, at a time.  The OS is *)
(* external: it makes a link that was asked for when it can, lets go of it *)
(* when told to, and reports the end of a link some time after it ended.   *)
(* The device accepts one central and advertises while it has none.        *)
(***************************************************************************)
EXTENDS Integers, FiniteSets

CONSTANTS Callers,      \* the threads
          MaxOpened,    \* bound: sessions opened
          MaxQueued,    \* bound: notifications in a transport's channel
          LateConnects, \* TRUE: a link may be made though its connect has timed out
          Refuses       \* TRUE: the OS may ignore a disconnect

ASSUME BtleAssumption ==
    /\ MaxOpened \in Nat
    /\ MaxQueued \in Nat
    /\ LateConnects \in BOOLEAN
    /\ Refuses \in BOOLEAN

\* A program has finitely many threads.
ASSUME CallersFinite == IsFiniteSet(Callers)

Sessions == 1..MaxOpened

(* The process: SCANNER, and the sessions opened so far. *)
VARIABLES scanner,   \* the session in the slot, or 0
          opened

(* Each thread. *)
VARIABLES pc,        \* where its attempt is; "up": it has a transport
          session,   \* the session it uses, or 0
          closed,    \* of its transport: disconnect was called
          released,  \* ... Link::released
          pumping,   \* ... the pump runs
          queued     \* ... notifications in its channel

VARIABLE background  \* sessions that a dropped transport is to release

(* The OS and the device. *)
VARIABLES attempts,  \* sessions whose connect the OS still works on
          holder,    \* the session whose link the device holds, or 0
          unreported,\* sessions whose link ended, which the OS has not reported
          noticed    \* threads whose event stream holds a DeviceDisconnected

(* History. *)
VARIABLES held,      \* sessions that ever held the device
          retired,   \* sessions whose connect succeeded
          poweredOff,\* sessions given up because Bluetooth was off
          refused,   \* sessions for which the OS ignored a disconnect
          tainted,   \* sessions put into the slot though they had held the device
          overlaps   \* attempts that found the slot empty while another was under way

processVars   == <<scanner, opened>>
transportVars == <<closed, released, pumping, queued>>
callerVars    == <<pc, session, transportVars>>
osVars        == <<attempts, holder, unreported, noticed>>
pastVars      == <<held, retired, poweredOff, refused, tainted, overlaps>>
btleVars      == <<processVars, callerVars, background, osVars, pastVars>>

Attempting == {"open", "scan", "connect", "cancel", "subscribe", "abandon"}

\* Where a thread is subscribed to the events of its session.
Listening == {"connect", "cancel", "subscribe", "abandon", "up"}

BtleTypeOK ==
    /\ scanner \in Sessions \cup {0}
    /\ opened \in 0..MaxOpened
    /\ pc \in [Callers -> {"idle", "up"} \cup Attempting]
    /\ session \in [Callers -> Sessions \cup {0}]
    /\ closed \in [Callers -> BOOLEAN]
    /\ released \in [Callers -> BOOLEAN]
    /\ pumping \in [Callers -> BOOLEAN]
    /\ queued \in [Callers -> 0..MaxQueued]
    /\ background \subseteq Sessions
    /\ attempts \subseteq Sessions
    /\ holder \in Sessions \cup {0}
    /\ unreported \subseteq Sessions
    /\ noticed \subseteq Callers
    /\ held \subseteq Sessions
    /\ retired \subseteq Sessions
    /\ poweredOff \subseteq Sessions
    /\ refused \subseteq Sessions
    /\ tainted \subseteq Sessions
    /\ overlaps \in 0..MaxOpened

BtleInit ==
    /\ scanner = 0
    /\ opened = 0
    /\ pc = [p \in Callers |-> "idle"]
    /\ session = [p \in Callers |-> 0]
    /\ closed = [p \in Callers |-> FALSE]
    /\ released = [p \in Callers |-> FALSE]
    /\ pumping = [p \in Callers |-> FALSE]
    /\ queued = [p \in Callers |-> 0]
    /\ background = {}
    /\ attempts = {}
    /\ holder = 0
    /\ unreported = {}
    /\ noticed = {}
    /\ held = {}
    /\ retired = {}
    /\ poweredOff = {}
    /\ refused = {}
    /\ tainted = {}
    /\ overlaps = 0

-----------------------------------------------------------------------------
(* The OS and the device. *)

\* Somebody still awaits the connect of s.
Awaited(s) == \E p \in Callers : session[p] = s /\ pc[p] = "connect"

LinkMade(s) ==
    /\ s \in attempts
    /\ holder = 0
    /\ Awaited(s) \/ LateConnects
    /\ attempts' = attempts \ {s}
    /\ holder' = s
    /\ held' = held \cup {s}
    /\ UNCHANGED <<processVars, callerVars, background, unreported, noticed, retired,
                   poweredOff, refused, tainted, overlaps>>

LinkLost ==
    /\ holder # 0
    /\ holder' = 0
    /\ unreported' = unreported \cup {holder}
    /\ UNCHANGED <<processVars, callerVars, background, attempts, noticed, pastVars>>

\* The event reaches whoever is subscribed to the session's events by then.
LossReported(s) ==
    /\ s \in unreported
    /\ unreported' = unreported \ {s}
    /\ noticed' = noticed \cup {p \in Callers : session[p] = s /\ pc[p] \in Listening}
    /\ UNCHANGED <<processVars, callerVars, background, attempts, holder, pastVars>>

\* Peripheral::disconnect on s: it ends the link, or the attempt to make one.
Release(s) ==
    \/ /\ attempts' = attempts \ {s}
       /\ holder' = IF holder = s THEN 0 ELSE holder
       /\ unreported' = IF holder = s THEN unreported \cup {s} ELSE unreported
       /\ UNCHANGED refused
    \/ /\ Refuses
       /\ refused' = refused \cup {s}
       /\ UNCHANGED <<attempts, holder, unreported>>

-----------------------------------------------------------------------------
(* The slot. *)

Others(p) == {q \in Callers \ {p} : pc[q] \in Attempting}

\* Mutant of Take: the slot is read, not emptied.
TakeShared(p) ==
    /\ pc[p] = "idle"
    /\ \/ /\ scanner # 0
          /\ session' = [session EXCEPT ![p] = scanner]
          /\ pc' = [pc EXCEPT ![p] = "scan"]
          /\ UNCHANGED <<scanner, overlaps>>
       \/ /\ scanner = 0
          /\ pc' = [pc EXCEPT ![p] = "open"]
          /\ UNCHANGED <<scanner, session, overlaps>>
    /\ UNCHANGED <<opened, transportVars, background, osVars, held, retired, poweredOff,
                   refused, tainted>>

\* take_scanner: the cached session, or a new one, opened outside the lock.
Take(p) ==
    /\ pc[p] = "idle"
    /\ \/ /\ scanner # 0
          /\ session' = [session EXCEPT ![p] = scanner]
          /\ pc' = [pc EXCEPT ![p] = "scan"]
          /\ scanner' = 0
          /\ UNCHANGED overlaps
       \/ /\ scanner = 0
          /\ pc' = [pc EXCEPT ![p] = "open"]
          /\ overlaps' = IF Others(p) # {} /\ overlaps < MaxOpened
                         THEN overlaps + 1 ELSE overlaps
          /\ UNCHANGED <<scanner, session>>
    /\ UNCHANGED <<opened, transportVars, background, osVars, held, retired, poweredOff,
                   refused, tainted>>

Open(p) ==
    /\ pc[p] = "open"
    /\ opened < MaxOpened
    /\ opened' = opened + 1
    /\ session' = [session EXCEPT ![p] = opened + 1]
    /\ pc' = [pc EXCEPT ![p] = "scan"]
    /\ UNCHANGED <<scanner, transportVars, background, osVars, pastVars>>

\* No adapter, no permission, no answer: nothing is cached.
OpenFails(p) ==
    /\ pc[p] = "open"
    /\ pc' = [pc EXCEPT ![p] = "idle"]
    /\ UNCHANGED <<processVars, session, transportVars, background, osVars, pastVars>>

\* The attempt of p is over.
Finish(p) ==
    /\ pc' = [pc EXCEPT ![p] = "idle"]
    /\ session' = [session EXCEPT ![p] = 0]
    /\ noticed' = noticed \ {p}

\* park: a session that somebody parked meanwhile stays, and s is dropped.
Park(s) ==
    /\ scanner' = IF scanner = 0 THEN s ELSE scanner
    /\ tainted' = IF scanner = 0 /\ s \in held THEN tainted \cup {s} ELSE tainted

-----------------------------------------------------------------------------
(* A connection attempt. *)

\* The scan fails, finds nothing, or the events cannot be subscribed to.
NotFound(p) ==
    /\ pc[p] = "scan"
    /\ Park(session[p])
    /\ Finish(p)
    /\ UNCHANGED <<opened, transportVars, background, attempts, holder, unreported, held,
                   retired, poweredOff, refused, overlaps>>

\* wait_powered: a session that saw Bluetooth powered off is not used again.
PoweredOff(p) ==
    /\ pc[p] = "scan"
    /\ poweredOff' = poweredOff \cup {session[p]}
    /\ Finish(p)
    /\ UNCHANGED <<processVars, transportVars, background, attempts, holder, unreported, held,
                   retired, refused, tainted, overlaps>>

\* The device advertises, which it does not while it is held; p subscribes to events and
\* asks for the link.  That an OS may still list a device that is held is left out.
Find(p) ==
    /\ pc[p] = "scan"
    /\ holder = 0
    /\ pc' = [pc EXCEPT ![p] = "connect"]
    /\ attempts' = attempts \cup {session[p]}
    /\ UNCHANGED <<processVars, session, transportVars, background, holder, unreported,
                   noticed, pastVars>>

Connected(p) ==
    /\ pc[p] = "connect"
    /\ session[p] \notin attempts
    /\ pc' = [pc EXCEPT ![p] = "subscribe"]
    /\ retired' = retired \cup {session[p]}
    /\ UNCHANGED <<processVars, session, transportVars, background, osVars, held, poweredOff,
                   refused, tainted, overlaps>>

\* The connect fails or times out, perhaps just before its answer.
ConnectFails(p) ==
    /\ pc[p] = "connect"
    /\ session[p] \in attempts \/ LateConnects
    /\ pc' = [pc EXCEPT ![p] = "cancel"]
    /\ UNCHANGED <<processVars, session, transportVars, background, osVars, pastVars>>

\* Mutant of Cancel: the session is parked, its attempt left pending.
ParkPending(p) ==
    /\ pc[p] = "cancel"
    /\ Park(session[p])
    /\ Finish(p)
    /\ UNCHANGED <<opened, transportVars, background, attempts, holder, unreported, held,
                   retired, poweredOff, refused, overlaps>>

\* Mutant of Cancel: the session is not returned.
CancelOnly(p) ==
    /\ pc[p] = "cancel"
    /\ Release(session[p])
    /\ Finish(p)
    /\ UNCHANGED <<processVars, transportVars, background, held, retired, poweredOff, tainted,
                   overlaps>>

\* release with CANCEL_TIMEOUT, then park.
Cancel(p) ==
    /\ pc[p] = "cancel"
    /\ Release(session[p])
    /\ Park(session[p])
    /\ Finish(p)
    /\ UNCHANGED <<opened, transportVars, background, held, retired, poweredOff, overlaps>>

\* A transport as it is made, its pump running or not yet.
LinkDefault(p, pump) ==
    /\ closed' = [closed EXCEPT ![p] = FALSE]
    /\ released' = [released EXCEPT ![p] = FALSE]
    /\ pumping' = [pumping EXCEPT ![p] = pump]
    /\ queued' = [queued EXCEPT ![p] = 0]

\* Mutant of Subscribed: events are subscribed to only now.
SubscribedLate(p) ==
    /\ pc[p] = "subscribe"
    /\ pc' = [pc EXCEPT ![p] = "up"]
    /\ LinkDefault(p, TRUE)
    /\ noticed' = noticed \ {p}
    /\ UNCHANGED <<processVars, session, background, attempts, holder, unreported, pastVars>>

\* The subscription is made, the pump spawned, the transport returned.
Subscribed(p) ==
    /\ pc[p] = "subscribe"
    /\ pc' = [pc EXCEPT ![p] = "up"]
    /\ LinkDefault(p, TRUE)
    /\ UNCHANGED <<processVars, session, background, osVars, pastVars>>

SubscribeFails(p) ==
    /\ pc[p] = "subscribe"
    /\ pc' = [pc EXCEPT ![p] = "abandon"]
    /\ UNCHANGED <<processVars, session, transportVars, background, osVars, pastVars>>

\* Mutant of Abandon: the session goes back to the slot.
AbandonAndPark(p) ==
    /\ pc[p] = "abandon"
    /\ Release(session[p])
    /\ Park(session[p])
    /\ Finish(p)
    /\ UNCHANGED <<opened, transportVars, background, held, retired, poweredOff, overlaps>>

\* release; the session is dropped with the attempt.
Abandon(p) ==
    /\ pc[p] = "abandon"
    /\ Release(session[p])
    /\ Finish(p)
    /\ UNCHANGED <<processVars, transportVars, background, held, retired, poweredOff, tainted,
                   overlaps>>

-----------------------------------------------------------------------------
(* A transport. *)

Pumping(p) == pc[p] = "up" /\ pumping[p]

\* pump: a notification of the live link is forwarded.
PumpData(p) ==
    /\ Pumping(p)
    /\ holder = session[p]
    /\ queued[p] < MaxQueued
    /\ queued' = [queued EXCEPT ![p] = @ + 1]
    /\ UNCHANGED <<processVars, pc, session, closed, released, pumping, background, osVars,
                   pastVars>>

\* pump: the notification stream ends, whatever the reason.
PumpStreamEnds(p) ==
    /\ Pumping(p)
    /\ pumping' = [pumping EXCEPT ![p] = FALSE]
    /\ UNCHANGED <<processVars, pc, session, closed, released, queued, background, osVars,
                   pastVars>>

\* pump: the OS reported the device disconnected.
PumpGone(p) ==
    /\ Pumping(p)
    /\ p \in noticed
    /\ pumping' = [pumping EXCEPT ![p] = FALSE]
    /\ released' = [released EXCEPT ![p] = TRUE]
    /\ UNCHANGED <<processVars, pc, session, closed, queued, background, osVars, pastVars>>

\* Mutant of Read: an empty channel is not told apart.
ReadAnyway(p) ==
    /\ pc[p] = "up"
    /\ queued' = [queued EXCEPT ![p] = @ - 1]
    /\ UNCHANGED <<processVars, pc, session, closed, released, pumping, background, osVars,
                   pastVars>>

\* Transport::read of a queued notification; with none it changes nothing.
Read(p) ==
    /\ pc[p] = "up"
    /\ queued[p] > 0
    /\ queued' = [queued EXCEPT ![p] = @ - 1]
    /\ UNCHANGED <<processVars, pc, session, closed, released, pumping, background, osVars,
                   pastVars>>

\* Transport::read returns Ok(0).
ReadsEnd(p) == ~pumping[p] /\ queued[p] = 0

\* disconnect: it asks the OS unless the link is known to be gone.
Disconnect(p) ==
    /\ pc[p] = "up"
    /\ ~closed[p]
    /\ \/ released[p] /\ UNCHANGED <<attempts, holder, unreported, refused>>
       \/ ~released[p] /\ Release(session[p])
    /\ closed' = [closed EXCEPT ![p] = TRUE]
    /\ pumping' = [pumping EXCEPT ![p] = FALSE]
    /\ UNCHANGED <<processVars, pc, session, released, queued, background, noticed, held,
                   retired, poweredOff, tainted, overlaps>>

\* Drop: it releases the device, here or, inside a Tokio runtime, in the background.
Drop(p) ==
    /\ pc[p] = "up"
    /\ \/ /\ closed[p] \/ released[p]
          /\ UNCHANGED <<background, attempts, holder, unreported, refused>>
       \/ /\ ~closed[p] /\ ~released[p]
          /\ Release(session[p])
          /\ UNCHANGED background
       \/ /\ ~closed[p] /\ ~released[p]
          /\ background' = background \cup {session[p]}
          /\ UNCHANGED <<attempts, holder, unreported, refused>>
    /\ Finish(p)
    /\ LinkDefault(p, FALSE)
    /\ UNCHANGED <<processVars, held, retired, poweredOff, tainted, overlaps>>

ReleaseLater(s) ==
    /\ s \in background
    /\ background' = background \ {s}
    /\ Release(s)
    /\ UNCHANGED <<processVars, callerVars, noticed, held, retired, poweredOff, tainted,
                   overlaps>>

-----------------------------------------------------------------------------
Attempt(p) ==
    \/ Take(p) \/ Open(p) \/ OpenFails(p) \/ NotFound(p) \/ PoweredOff(p) \/ Find(p)
    \/ Connected(p) \/ ConnectFails(p) \/ Cancel(p)
    \/ Subscribed(p) \/ SubscribeFails(p) \/ Abandon(p)

Transport(p) ==
    PumpData(p) \/ PumpStreamEnds(p) \/ PumpGone(p) \/ Read(p) \/ Disconnect(p) \/ Drop(p)

BtleNext ==
    \/ \E p \in Callers : Attempt(p) \/ Transport(p)
    \/ \E s \in Sessions : LinkMade(s) \/ LossReported(s) \/ ReleaseLater(s)
    \/ LinkLost

BtleSpec == BtleInit /\ [][BtleNext]_btleVars

-----------------------------------------------------------------------------
\* No two threads use a session, nor does one while it is in the slot or about
\* to be disconnected in the background (module doc, Lifecycle; take_scanner).
SessionsExclusive ==
    \A p \in Callers : session[p] # 0 =>
        /\ session[p] # scanner
        /\ session[p] \notin background
        /\ \A q \in Callers : session[q] = session[p] => q = p

\* A session whose connect succeeded is never scanned with again (module doc,
\* Lifecycle; connect 303-304).
RetiredNotReused ==
    /\ scanner \notin retired
    /\ \A p \in Callers : pc[p] \in {"scan", "connect", "cancel"} => session[p] \notin retired

\* Who will still let go of the link of s: an attempt, a transport that does not
\* take it for gone, or a release in the background.
Owned(s) ==
    \/ s \in background
    \/ \E p \in Callers :
        /\ session[p] = s
        /\ \/ pc[p] \in Attempting
           \/ pc[p] = "up" /\ ~closed[p] /\ ~released[p]

\* The device is never held by a link that nobody will end: not by an attempt
\* given up, nor behind a dropped transport (connect 287-289, Drop), unless the
\* OS ignored a disconnect.  Sessions parked after a late connect are apart, see
\* NeverHeldParked.
LinkOwned == holder # 0 => holder \in refused \cup tainted \/ Owned(holder)

\* Beyond one session for each connection, and one for each time Bluetooth was
\* off, only overlapping attempts cost one (module doc, Lifecycle; park).
SessionsBounded == opened <= Cardinality(retired \cup poweredOff) + overlaps + 1

\* A parked session never held a connection (connect 297, module doc).
NeverHeldParked == scanner \notin held

(***************************************************************************)
(* Fairness: the OS reports the end of a link, the pump runs, and a        *)
(* transport is read in a loop.  That the notification stream ends is not  *)
(* assumed: not every backend ends it.                                     *)
(***************************************************************************)
BtleFairSpec ==
    /\ BtleSpec
    /\ \A s \in Sessions : WF_btleVars(LossReported(s))
    /\ \A p \in Callers : WF_btleVars(PumpGone(p)) /\ WF_btleVars(Read(p))

\* A lost link ends the reads of its transport (module doc, Lifecycle; pump).
LossSurfaces ==
    \A p \in Callers :
        (pc[p] = "up" /\ holder # session[p]) ~> (pc[p] # "up" \/ ReadsEnd(p))
=============================================================================
