---------------------------- MODULE BluezProofs ----------------------------
(***************************************************************************)
(* The BlueZ transport, for every number of attempts, notifications and    *)
(* queued signals: its types, that a transport misses no notification,     *)
(* that its reads end only with the bus, and that discovery is left off.   *)
(***************************************************************************)
EXTENDS Bluez, TLAPS

USE BluezAssumption DEF BluezAssumption

-----------------------------------------------------------------------------
(* The notifications in a sequence of signals. *)

LEMMA AppendedLast ==
    ASSUME NEW a \in Seq(Nat), NEW b \in Seq(Nat), NEW v \in Nat
    PROVE  a \o Append(b, v) = Append(a \o b, v)
  <1>1. Len(a \o Append(b, v)) = Len(Append(a \o b, v))
    OBVIOUS
  <1>2. \A i \in 1..Len(Append(a \o b, v)) : (a \o Append(b, v))[i] = Append(a \o b, v)[i]
    OBVIOUS
  <1>3. a \o Append(b, v) \in Seq(Nat) /\ Append(a \o b, v) \in Seq(Nat)
    OBVIOUS
  <1> QED BY <1>1, <1>2, <1>3

LEMMA TakenFirst ==
    ASSUME NEW a \in Seq(Nat), NEW b \in Seq(Nat), a # <<>>
    PROVE  a \o b # <<>> /\ Head(a \o b) = Head(a) /\ Tail(a \o b) = Tail(a) \o b
  <1>1. a \o b # <<>> /\ Head(a \o b) = Head(a)
    OBVIOUS
  <1>2. Tail(a \o b) = Tail(a) \o b
    OBVIOUS
  <1> QED BY <1>1, <1>2

LEMMA NumberAppended ==
    ASSUME NEW way \in Seq(Nat), NEW n \in Nat, Ordered(way),
           \A v \in Numbers(way) : v <= n
    PROVE  /\ Ordered(Append(way, n + 1))
           /\ Numbers(Append(way, n + 1)) = Numbers(way) \cup {n + 1}
  <1> DEFINE more == Append(way, n + 1)
  <1>1. /\ Len(way) \in Nat /\ DOMAIN way = 1..Len(way)
        /\ DOMAIN more = 1..Len(way) + 1
        /\ \A i \in 1..Len(way) : more[i] = way[i] /\ way[i] \in Nat
        /\ more[Len(way) + 1] = n + 1
    OBVIOUS
  <1>2. \A i \in 1..Len(way) : way[i] <= n
    BY <1>1 DEF Numbers
  <1> HIDE DEF more
  <1>3. Ordered(more)
    BY <1>1, <1>2 DEF Ordered
  <1>4. Numbers(more) = Numbers(way) \cup {n + 1}
    BY <1>1 DEF Numbers
  <1> QED BY <1>3, <1>4 DEF more

LEMMA OtherAppended ==
    ASSUME NEW way \in Seq(Nat), Ordered(way)
    PROVE  Ordered(Append(way, 0)) /\ Numbers(Append(way, 0)) = Numbers(way)
  <1> DEFINE more == Append(way, 0)
  <1>1. /\ Len(way) \in Nat /\ DOMAIN way = 1..Len(way)
        /\ DOMAIN more = 1..Len(way) + 1
        /\ \A i \in 1..Len(way) : more[i] = way[i] /\ way[i] \in Nat
        /\ more[Len(way) + 1] = 0
    OBVIOUS
  <1> HIDE DEF more
  <1>2. Ordered(more)
    BY <1>1 DEF Ordered
  <1>3. Numbers(more) = Numbers(way)
    BY <1>1 DEF Numbers
  <1> QED BY <1>2, <1>3 DEF more

LEMMA NumberTaken ==
    ASSUME NEW way \in Seq(Nat), way # <<>>, Head(way) # 0, Ordered(way)
    PROVE  /\ Ordered(Tail(way))
           /\ Numbers(way) = Numbers(Tail(way)) \cup {Head(way)}
           /\ \A v \in Numbers(Tail(way)) : Head(way) < v
  <1> DEFINE rest == Tail(way)
  <1>1. /\ Len(way) \in Nat \ {0} /\ DOMAIN way = 1..Len(way)
        /\ DOMAIN rest = 1..Len(way) - 1
        /\ \A i \in 1..Len(way) - 1 : rest[i] = way[i + 1]
        /\ Head(way) = way[1]
    OBVIOUS
  <1> HIDE DEF rest
  <1>2. /\ \A i \in DOMAIN rest : i \in Nat /\ i + 1 \in DOMAIN way /\ 1 < i + 1
                                  /\ rest[i] = way[i + 1]
        /\ 1 \in DOMAIN way
        /\ \A i \in DOMAIN way : i = 1 \/ (i - 1 \in DOMAIN rest /\ (i - 1) + 1 = i)
    BY <1>1
  <1>3. Ordered(rest)
    <2> SUFFICES ASSUME NEW i \in DOMAIN rest, NEW j \in DOMAIN rest, i < j,
                        rest[i] # 0, rest[j] # 0
                 PROVE  rest[i] < rest[j]
      BY DEF Ordered
    <2>1. i + 1 \in DOMAIN way /\ j + 1 \in DOMAIN way /\ i + 1 < j + 1
      BY <1>2
    <2> QED BY <1>2, <2>1 DEF Ordered
  <1>4. \A v \in Numbers(rest) : Head(way) < v
    <2> SUFFICES ASSUME NEW i \in DOMAIN rest, rest[i] # 0
                 PROVE  Head(way) < rest[i]
      BY DEF Numbers
    <2> QED BY <1>1, <1>2 DEF Ordered
  <1>5. Numbers(way) \subseteq Numbers(rest) \cup {Head(way)}
    <2> SUFFICES ASSUME NEW i \in DOMAIN way, way[i] # 0
                 PROVE  way[i] \in Numbers(rest) \cup {Head(way)}
      BY DEF Numbers
    <2>1. i = 1 \/ (i - 1 \in DOMAIN rest /\ rest[i - 1] = way[i])
      BY <1>2
    <2> QED BY <1>1, <2>1 DEF Numbers
  <1>6. Numbers(rest) \cup {Head(way)} \subseteq Numbers(way)
    BY <1>1, <1>2 DEF Numbers
  <1> QED BY <1>3, <1>4, <1>5, <1>6 DEF rest

LEMMA OtherTaken ==
    ASSUME NEW read \in Seq(Nat), NEW queue \in Seq(Nat), queue # <<>>, Head(queue) = 0,
           Ordered(read \o queue)
    PROVE  /\ Ordered(read \o Tail(queue))
           /\ Numbers(read \o Tail(queue)) = Numbers(read \o queue)
  <1> DEFINE way == read \o queue
             rest == read \o Tail(queue)
             n == Len(read)
  <1>1. /\ n \in Nat /\ Len(queue) \in Nat \ {0}
        /\ DOMAIN way = 1..n + Len(queue)
        /\ DOMAIN rest = 1..n + Len(queue) - 1
        /\ \A i \in 1..n : rest[i] = way[i]
        /\ \A i \in n + 1..n + Len(queue) - 1 : rest[i] = way[i + 1]
        /\ way[n + 1] = 0
    OBVIOUS
  <1>2. Ordered(way)
    OBVIOUS
  <1> DEFINE place(i) == IF i <= n THEN i ELSE i + 1
  <1> HIDE DEF way, rest, n
  <1>3. /\ \A i \in DOMAIN rest : place(i) \in DOMAIN way /\ rest[i] = way[place(i)]
        /\ \A i, j \in DOMAIN rest : i < j => place(i) < place(j)
    <2>1. ASSUME NEW i \in DOMAIN rest
          PROVE  place(i) \in DOMAIN way /\ rest[i] = way[place(i)]
      <3>1. CASE i <= n
        BY <1>1, <3>1
      <3>2. CASE i > n
        <4>1. \A a, b \in Nat : \A k \in 1..a + b - 1 :
                k > a => k \in a + 1..a + b - 1 /\ k + 1 \in 1..a + b
          OBVIOUS
        <4>2. i \in n + 1..n + Len(queue) - 1 /\ i + 1 \in DOMAIN way
          BY <1>1, <3>2, <4>1
        <4> QED BY <1>1, <3>2, <4>2
      <3> QED BY <1>1, <3>1, <3>2
    <2>2. \A i, j \in DOMAIN rest : i < j => place(i) < place(j)
      BY <1>1
    <2> QED BY <2>1, <2>2
  <1>4. \A i \in DOMAIN way : way[i] = 0 \/ \E j \in DOMAIN rest : place(j) = i
    <2> SUFFICES ASSUME NEW i \in DOMAIN way, way[i] # 0
                 PROVE  \E j \in DOMAIN rest : place(j) = i
      OBVIOUS
    <2>1. CASE i <= n
      BY <1>1, <2>1
    <2>2. CASE i > n
      <3>1. i # n + 1 /\ i \in Nat /\ i <= n + Len(queue)
        BY <1>1, <2>2
      <3>2. i - 1 > n /\ i - 1 \in 1..n + Len(queue) - 1 /\ (i - 1) + 1 = i
        <4>1. \A a, b, m \in Nat : a > m /\ a # m + 1 /\ a <= m + b
                => a - 1 > m /\ a - 1 \in 1..m + b - 1 /\ (a - 1) + 1 = a
          OBVIOUS
        <4> QED BY <1>1, <2>2, <3>1, <4>1
      <3>3. i - 1 \in DOMAIN rest /\ place(i - 1) = i
        BY <1>1, <3>2
      <3> QED BY <3>3
    <2> QED BY <1>1, <2>1, <2>2
  <1> HIDE DEF place
  <1>5. Ordered(rest)
    BY <1>2, <1>3 DEF Ordered
  <1>6. Numbers(rest) = Numbers(way)
    BY <1>3, <1>4 DEF Numbers
  <1> QED BY <1>5, <1>6 DEF way, rest

-----------------------------------------------------------------------------
(* Types. *)

LEMMA Parted ==
    ASSUME NEW S, NEW s \in Seq(S), s # <<>>
    PROVE  Head(s) \in S /\ Tail(s) \in Seq(S)
  OBVIOUS

LEMMA SignalTyped ==
    ASSUME signals \in [Conns -> Seq(0..MaxSent)], NEW v \in 0..MaxSent, Signal(v)
    PROVE  signals' \in [Conns -> Seq(0..MaxSent)]
  <1>1. \A c \in Conns : Append(signals[c], v) \in Seq(0..MaxSent)
    OBVIOUS
  <1> QED BY <1>1 DEF Signal

LEMMA ExternalTyped ==
    ASSUME BluezTypeOK, External
    PROVE  BluezTypeOK'
  <1> USE DEF BluezTypeOK, callerVars, threadVars, linkVars, busVars, pastVars
  <1>1. ASSUME Discovered \/ Forgotten \/ LinkMade \/ LinkRefused \/ ServicesResolve \/ LinkLost
        PROVE  BluezTypeOK'
    BY <1>1 DEF Discovered, Forgotten, LinkMade, LinkRefused, ServicesResolve, LinkLost
  <1>2. ASSUME LossNoticed PROVE BluezTypeOK'
    BY <1>2 DEF LossNoticed, Unlinked
  <1>3. ASSUME Notification PROVE BluezTypeOK'
    <2>1. sent' \in 0..MaxSent /\ sent + 1 \in 0..MaxSent
      BY <1>3 DEF Notification
    <2>2. signals' \in [Conns -> Seq(0..MaxSent)]
      BY <1>3, <2>1, SignalTyped DEF Notification
    <2> QED BY <1>3, <2>1, <2>2 DEF Notification
  <1>4. ASSUME NEW c \in Conns, BusLost(c) PROVE BluezTypeOK'
    BY <1>4 DEF BusLost
  <1> QED BY <1>1, <1>2, <1>3, <1>4 DEF External

\* Every step of an attempt but the errors, which all do the same.
LEMMA AttemptSteps ==
    ASSUME Attempt
    PROVE  \/ Look \/ Scan \/ ScanMiss \/ ScanHit \/ Trust \/ Ask \/ Resolved \/ Unresolved
           \/ Characteristics \/ Match \/ StartNotify \/ Spawn
           \/ (pc \in Attempting /\ GiveUp)
  BY DEF Attempt, Progress, NotFound, NeverResolved, Refused, Fails, Attempting

LEMMA AttemptTyped ==
    ASSUME BluezTypeOK, pc # "idle" => conns \in Conns, Attempt
    PROVE  BluezTypeOK'
  <1> USE DEF BluezTypeOK, callerVars, threadVars, linkVars, busVars, pastVars, Step, Attempting
  <1>0. 0 \in 0..Deadline /\ waited + 1..Deadline \subseteq 0..Deadline
    OBVIOUS
  <1>1. ASSUME Look \/ Resolved \/ Characteristics \/ Trust
        PROVE  BluezTypeOK'
    BY <1>0, <1>1 DEF Look, Resolved, Characteristics, Trust
  <1>2. ASSUME Ask PROVE BluezTypeOK'
    BY <1>2 DEF Ask
  <1>3. ASSUME Scan \/ ScanHit \/ Match PROVE BluezTypeOK'
    BY <1>0, <1>3 DEF Scan, ScanHit, Match
  <1>4. ASSUME StartNotify PROVE BluezTypeOK'
    <2>1. signals' \in [Conns -> Seq(0..MaxSent)]
      <3>1. 0 \in 0..MaxSent
        OBVIOUS
      <3>2. CASE notifying = {}
        BY <1>4, <3>1, <3>2, SignalTyped DEF StartNotify
      <3>3. CASE notifying # {}
        BY <1>4, <3>3 DEF StartNotify
      <3> QED BY <3>2, <3>3
    <2>2. since' \in [Conns -> 0..MaxSent]
      BY <1>4 DEF StartNotify
    <2> QED BY <1>4, <2>1, <2>2 DEF StartNotify
  <1>5. ASSUME Spawn PROVE BluezTypeOK'
    BY <1>5 DEF Spawn
  <1>6. ASSUME ScanMiss \/ Unresolved PROVE BluezTypeOK'
    BY <1>0, <1>6 DEF ScanMiss, Unresolved, Turn
  <1>7. ASSUME GiveUp PROVE BluezTypeOK'
    <2>1. <<>> \in Seq(0..MaxSent)
      OBVIOUS
    <2>2. signals' \in [Conns -> Seq(0..MaxSent)]
      BY <1>7, <2>1 DEF GiveUp, Closed
    <2>3. waited' \in 0..Deadline /\ pc' \in {"idle", "up"} \cup Attempting
      BY <1>0, <1>7 DEF GiveUp
    <2> QED BY <1>7, <2>2, <2>3 DEF GiveUp, Closed
  <1> HIDE DEF BluezTypeOK, Step, Attempting
  <1> QED BY <1>1, <1>2, <1>3, <1>4, <1>5, <1>6, <1>7, AttemptSteps

LEMMA TransportTyped ==
    ASSUME BluezTypeOK, Transport
    PROVE  BluezTypeOK'
  <1> USE DEF BluezTypeOK, callerVars, threadVars, linkVars, busVars, pastVars, Step, Attempting
  <1>1. ASSUME Begin PROVE BluezTypeOK'
    <2>1. conns' \in 0..MaxConns /\ pc' = "look" /\ told' = FALSE
      BY <1>1 DEF Begin
    <2> QED BY <1>1, <2>1 DEF Begin
  <1>2. ASSUME Read PROVE BluezTypeOK'
    <2>1. CASE conns \in Conns
      <3>1. inbox[conns] \in Seq(1..MaxSent) /\ inbox[conns] # <<>>
        BY <1>2, <2>1 DEF Read
      <3>2. Head(inbox[conns]) \in 1..MaxSent /\ Tail(inbox[conns]) \in Seq(1..MaxSent)
        BY <3>1, Parted
      <3>3. inbox' = [inbox EXCEPT ![conns] = Tail(inbox[conns])]
            /\ handed' = [handed EXCEPT ![conns] = Head(inbox[conns])]
        BY <1>2 DEF Read
      <3>4. inbox' \in [Conns -> Seq(1..MaxSent)]
        BY <3>2, <3>3
      <3>5. Head(inbox[conns]) \in 0..MaxSent
        BY <3>2
      <3>6. handed' \in [Conns -> 0..MaxSent]
        BY <3>3, <3>5
      <3> QED BY <1>2, <3>4, <3>6 DEF Read
    <2>2. CASE conns \notin Conns
      BY <1>2, <2>2 DEF Read
    <2> QED BY <2>1, <2>2
  <1>3. ASSUME Disconnect PROVE BluezTypeOK'
    <2>1. held' \in BOOLEAN /\ told' \in BOOLEAN /\ linked' = "no" /\ resolved' = FALSE
          /\ notifying' = {}
      BY <1>3 DEF Disconnect, Unlinked
    <2> QED BY <1>3, <2>1 DEF Disconnect
  <1>5. ASSUME DisconnectFails PROVE BluezTypeOK'
    BY <1>5 DEF DisconnectFails
  <1>4. ASSUME Drop PROVE BluezTypeOK'
    <2>1. <<>> \in Seq(1..MaxSent)
      OBVIOUS
    <2>2. inbox' \in [Conns -> Seq(1..MaxSent)]
      BY <1>4, <2>1 DEF Drop
    <2> QED BY <1>4, <2>2 DEF Drop
  <1> QED BY <1>1, <1>2, <1>3, <1>4, <1>5 DEF Transport

LEMMA ThreadTyped ==
    ASSUME BluezTypeOK, NEW c \in Conns, Forward(c) \/ Finish(c)
    PROVE  BluezTypeOK'
  <1> USE DEF BluezTypeOK, callerVars, threadVars, linkVars, busVars, pastVars
  <1>1. CASE Finish(c)
    BY <1>1 DEF Finish, Ends, Closed
  <1>2. CASE Forward(c) /\ Head(signals[c]) # 0 /\ Dropped(c)
    <2>1. Ends(c)
      BY <1>2 DEF Forward
    <2>2. <<>> \in Seq(0..MaxSent)
      OBVIOUS
    <2>3. signals' \in [Conns -> Seq(0..MaxSent)]
      BY <2>1, <2>2 DEF Ends, Closed
    <2> QED BY <1>2, <2>1, <2>3 DEF Forward, Ends, Closed
  <1>3. CASE Forward(c) /\ ~(Head(signals[c]) # 0 /\ Dropped(c))
    <2>1. signals[c] \in Seq(0..MaxSent) /\ signals[c] # <<>>
      BY <1>3 DEF Forward
    <2>2. Head(signals[c]) \in 0..MaxSent /\ Tail(signals[c]) \in Seq(0..MaxSent)
      BY <2>1
    <2>3. signals' \in [Conns -> Seq(0..MaxSent)]
      BY <1>3, <2>2 DEF Forward, Take
    <2>4. inbox' \in [Conns -> Seq(1..MaxSent)]
      <3>1. CASE Head(signals[c]) = 0
        BY <1>3, <3>1 DEF Forward
      <3>2. CASE Head(signals[c]) # 0
        <4>1. Append(inbox[c], Head(signals[c])) \in Seq(1..MaxSent)
          BY <2>2, <3>2
        <4>2. inbox' = [inbox EXCEPT ![c] = Append(inbox[c], Head(signals[c]))]
          BY <1>3, <3>2 DEF Forward
        <4> QED BY <4>1, <4>2
      <3> QED BY <3>1, <3>2
    <2> QED BY <1>3, <2>3, <2>4 DEF Forward
  <1> QED BY <1>1, <1>2, <1>3

-----------------------------------------------------------------------------
(* Where an attempt is, says what its connection and its thread have done. *)
Arriving == {"notify", "spawn", "up"}

Stages ==
    /\ pc # "idle" => conns \in Conns
    /\ \A c \in Conns : c > conns \/ (c = conns /\ pc \in Attempting \ Arriving) =>
          c \notin matched \cup cut /\ signals[c] = <<>>
    /\ \A c \in Conns : c > conns \/ (c = conns /\ pc \in Attempting) =>
          thread[c] = "none" /\ inbox[c] = <<>> /\ handed[c] = 0
    /\ pc \in Arriving /\ conns \notin cut => conns \in matched
    /\ pc = "up" => thread[conns] = "running" \/ (thread[conns] = "ended" /\ conns \in cut)

LEMMA StagesKept ==
    ASSUME BluezTypeOK, Stages, [BluezNext]_bluezVars
    PROVE  Stages'
  <1> USE DEF Stages, Arriving, callerVars, threadVars, linkVars, busVars, pastVars
  <1>0. conns \in Int /\ Conns \subseteq Int
    BY DEF BluezTypeOK, Conns
  <1>1. ASSUME UNCHANGED <<pc, conns, threadVars, matched, signals, cut>> PROVE Stages'
    BY <1>1
  <1>2. CASE External
    <2>1. CASE Discovered \/ Forgotten \/ LinkMade \/ LinkRefused \/ ServicesResolve \/ LinkLost
               \/ LossNoticed
      BY <2>1, <1>1 DEF Discovered, Forgotten, LinkMade, LinkRefused, ServicesResolve, LinkLost,
                  LossNoticed
    <2>2. CASE Notification
      <3>1. \A c \in Conns : c \notin matched => signals'[c] = signals[c]
        BY <2>2 DEF Notification, Signal, BluezTypeOK
      <3> QED BY <2>2, <3>1 DEF Notification
    <2>3. ASSUME NEW c \in Conns, BusLost(c) PROVE Stages'
      BY <2>3 DEF BusLost
    <2> QED BY <1>2, <2>1, <2>2, <2>3 DEF External
  <1>3. CASE Attempt
    <2> USE DEF Step, Attempting
    <2>1. CASE Look \/ Resolved \/ Characteristics
      BY <2>1 DEF Look, Resolved, Characteristics
    <2>2. CASE Trust \/ Ask
      BY <2>2 DEF Trust, Ask
    <2>3. CASE Scan \/ ScanHit
      BY <2>3 DEF Scan, ScanHit
    <2>4. CASE Match
      BY <1>0, <2>4 DEF Match
    <2>5. CASE StartNotify
      <3>1. \A c \in Conns : c \notin matched => signals'[c] = signals[c]
        BY <2>5 DEF StartNotify, Signal, BluezTypeOK
      <3> QED BY <1>0, <2>5, <3>1 DEF StartNotify
    <2>6. CASE Spawn
      <3>1. \A c \in Conns : thread'[c] = IF c = conns THEN "running" ELSE thread[c]
        BY <2>6 DEF Spawn, BluezTypeOK
      <3> QED BY <1>0, <2>6, <3>1 DEF Spawn
    <2>7. CASE ScanMiss \/ Unresolved
      BY <1>1, <2>7 DEF ScanMiss, Unresolved, Turn
    <2>8. CASE pc \in Attempting /\ GiveUp
      <3>1. /\ \A c \in Conns : signals'[c] = IF c = conns THEN <<>> ELSE signals[c]
            /\ matched' = matched \ {conns}
        BY <2>8 DEF GiveUp, Closed, BluezTypeOK
      <3> QED BY <1>0, <2>8, <3>1 DEF GiveUp
    <2> HIDE DEF Step, Attempting
    <2> QED BY <1>3, <2>1, <2>2, <2>3, <2>4, <2>5, <2>6, <2>7, <2>8, AttemptSteps
  <1>4. CASE Transport
    <2> USE DEF Step, Attempting
    <2>1. CASE Begin
      <3>1. conns + 1 \in Conns
        BY <2>1 DEF Begin, BluezTypeOK, Conns
      <3>2. \A c \in Conns : c > conns + 1 \/ c = conns + 1 => c > conns
        BY <1>0
      <3>3. /\ conns' = conns + 1 /\ pc' = "look"
            /\ UNCHANGED <<thread, inbox, handed, matched, cut, signals>>
        BY <2>1 DEF Begin
      <3> HIDE DEF Step, Attempting
      <3>4. pc' \notin Arriving
        BY <3>3
      <3> QED BY <3>1, <3>2, <3>3, <3>4
    <2>2. CASE Read
      <3>1. \A c \in Conns : c # conns => inbox'[c] = inbox[c] /\ handed'[c] = handed[c]
        BY <2>2 DEF Read, BluezTypeOK
      <3> QED BY <1>0, <2>2, <3>1 DEF Read
    <2>3. CASE Disconnect \/ DisconnectFails
      BY <1>1, <2>3 DEF Disconnect, DisconnectFails
    <2>4. CASE Drop
      <3>1. \A c \in Conns : c # conns => inbox'[c] = inbox[c]
        BY <2>4 DEF Drop, BluezTypeOK
      <3> QED BY <1>0, <2>4, <3>1 DEF Drop
    <2> QED BY <1>4, <2>1, <2>2, <2>3, <2>4 DEF Transport
  <1>5. ASSUME NEW c \in Conns, Forward(c) \/ Finish(c) PROVE Stages'
    <2>0. thread[c] = "running" /\ UNCHANGED <<callerVars, handed, cut>>
      BY <1>5 DEF Forward, Finish
    <2>1. c < conns \/ (c = conns /\ pc \in {"idle", "up"})
      BY <1>0, <2>0 DEF BluezTypeOK
    <2>2. \A d \in Conns : d # c => /\ thread'[d] = thread[d]
                                    /\ inbox'[d] = inbox[d]
                                    /\ signals'[d] = signals[d]
                                    /\ d \in matched' => d \in matched
                                    /\ d \in matched => d \in matched'
      BY <1>5 DEF Forward, Finish, Ends, Closed, Take, BluezTypeOK
    <2>3. c = conns /\ pc = "up" =>
            \/ thread'[c] = thread[c] /\ matched' = matched
            \/ thread'[c] = "ended" /\ c \in cut
      <3>1. CASE Finish(c)
        BY <3>1 DEF Finish, Ends, BluezTypeOK
      <3>2. CASE Forward(c) /\ Dropped(c)
        BY <3>2, <1>0 DEF Dropped
      <3>3. CASE Forward(c) /\ ~Dropped(c)
        BY <3>3 DEF Forward
      <3> QED BY <1>5, <3>1, <3>2, <3>3
    <2> QED BY <1>0, <2>0, <2>1, <2>2, <2>3 DEF Attempting
  <1>6. CASE UNCHANGED bluezVars
    BY <1>1, <1>6 DEF bluezVars
  <1> QED BY <1>2, <1>3, <1>4, <1>5, <1>6 DEF BluezNext

LEMMA DiscoveryKept ==
    ASSUME BluezTypeOK, Stages, DiscoveryOff, [BluezNext]_bluezVars
    PROVE  DiscoveryOff'
  <1> USE DEF DiscoveryOff, callerVars, threadVars, linkVars, busVars, pastVars
  <1>1. CASE External
    <2>1. CASE Discovered \/ Forgotten \/ LinkMade \/ LinkRefused \/ ServicesResolve \/ LinkLost
               \/ LossNoticed \/ Notification
      BY <2>1 DEF Discovered, Forgotten, LinkMade, LinkRefused, ServicesResolve, LinkLost,
                  LossNoticed, Notification
    <2>2. ASSUME NEW c \in Conns, BusLost(c) PROVE DiscoveryOff'
      BY <2>2 DEF BusLost
    <2> QED BY <1>1, <2>1, <2>2 DEF External
  <1>2. CASE Attempt
    <2> USE DEF Step
    <2>1. CASE Look \/ Trust \/ Ask \/ Resolved \/ Characteristics \/ Match
      BY <2>1 DEF Look, Trust, Ask, Resolved, Characteristics, Match
    <2>2. CASE StartNotify \/ Spawn
      BY <2>2 DEF StartNotify, Spawn
    <2>3. CASE Scan
      BY <2>3 DEF Scan
    <2>4. CASE ScanHit
      BY <2>4 DEF ScanHit
    <2>5. CASE ScanMiss \/ Unresolved
      BY <2>5 DEF ScanMiss, Unresolved, Turn
    <2>6. CASE GiveUp
      BY <2>6 DEF GiveUp, Closed
    <2> QED BY <1>2, <2>1, <2>2, <2>3, <2>4, <2>5, <2>6, AttemptSteps
  <1>3. CASE Transport
    BY <1>3 DEF Transport, Step, Begin, Read, Disconnect, DisconnectFails, Drop
  <1>4. ASSUME NEW c \in Conns, Forward(c) \/ Finish(c) PROVE DiscoveryOff'
    BY <1>4 DEF Forward, Finish, Ends, Closed
  <1>5. CASE UNCHANGED bluezVars
    BY <1>5 DEF bluezVars
  <1> QED BY <1>1, <1>2, <1>3, <1>4, <1>5 DEF BluezNext

-----------------------------------------------------------------------------
(* What is on the way is all there is: of a connection that has been read up to last, with *)
(* way still to be read, closed or not, after n notifications; none is left out after marks. *)
Whole(way, last, closed, n, marks) ==
    /\ last <= n
    /\ Ordered(way)
    /\ \A v \in Numbers(way) : last < v /\ v <= n
    /\ \A u \in Numbers(way) \cup ({last} \ {0}) \cup marks :
         \A v \in u + 1..n :
            v <= last \/ v \in Numbers(way) \/ (closed /\ \A w \in Numbers(way) : w < v)

Marks == IF pc \in {"spawn", "up"} THEN {since[conns]} ELSE {}

Arrives ==
    pc \in Arriving =>
        Whole(OnTheWay(conns), handed[conns], conns \in cut, sent, Marks)

LEMMA NumbersTyped ==
    ASSUME NEW way \in Seq(Nat)
    PROVE  Numbers(way) \subseteq Nat
  <1>1. \A i \in DOMAIN way : way[i] \in Nat
    OBVIOUS
  <1> QED BY <1>1 DEF Numbers

LEMMA WholeSent ==
    ASSUME NEW way \in Seq(Nat), NEW last \in Nat, NEW n \in Nat, NEW marks \in SUBSET Nat,
           NEW closed \in BOOLEAN, ~closed, Whole(way, last, closed, n, marks)
    PROVE  Whole(Append(way, n + 1), last, closed, n + 1, marks)
  <1>1. /\ Ordered(Append(way, n + 1))
        /\ Numbers(Append(way, n + 1)) = Numbers(way) \cup {n + 1}
    BY NumberAppended DEF Whole
  <1>2. Numbers(way) \subseteq Nat
    BY NumbersTyped
  <1> DEFINE more == Append(way, n + 1)
  <1> HIDE DEF more
  <1>3. Ordered(more) /\ Numbers(more) = Numbers(way) \cup {n + 1}
    BY <1>1 DEF more
  <1>4. last <= n + 1 /\ \A v \in Numbers(more) : last < v /\ v <= n + 1
    BY <1>2, <1>3 DEF Whole
  <1>5. ASSUME NEW u \in Numbers(more) \cup ({last} \ {0}) \cup marks, NEW v \in u + 1..n + 1
        PROVE  v <= last \/ v \in Numbers(more)
    <2>1. CASE v = n + 1
      BY <1>3, <2>1
    <2>2. CASE v # n + 1
      <3>1. u \in Nat /\ u # n + 1 /\ v \in u + 1..n
        <4>1. u \in Nat
          <5>1. Numbers(more) \subseteq Nat /\ marks \subseteq Nat
            BY <1>2, <1>3
          <5> QED BY <5>1
        <4>2. \A a, b \in Nat : \A w \in a + 1..b + 1 : w # b + 1 => a # b + 1 /\ w \in a + 1..b
          OBVIOUS
        <4> QED BY <2>2, <4>1, <4>2
      <3>2. u \in Numbers(way) \cup ({last} \ {0}) \cup marks
        BY <1>3, <3>1
      <3> QED BY <1>3, <3>1, <3>2 DEF Whole
    <2> QED BY <2>1, <2>2
  <1> QED BY <1>3, <1>4, <1>5 DEF Whole, more

LEMMA WholeCut ==
    ASSUME NEW way \in Seq(Nat), NEW last \in Nat, NEW n \in Nat, NEW marks \in SUBSET Nat,
           NEW closed, Whole(way, last, closed, n, marks), NEW m \in {n, n + 1}
    PROVE  Whole(way, last, TRUE, n, marks) /\ (closed => Whole(way, last, closed, m, marks))
  <1>1. Numbers(way) \subseteq Nat
    BY NumbersTyped
  <1>2. Whole(way, last, TRUE, n, marks)
    BY DEF Whole
  <1>3. ASSUME closed PROVE Whole(way, last, closed, m, marks)
    <2>1. \A v \in Numbers(way) : v <= n /\ v < n + 1 /\ v <= m
      BY <1>1 DEF Whole
    <2>2. ASSUME NEW u \in Numbers(way) \cup ({last} \ {0}) \cup marks, NEW v \in u + 1..m
          PROVE  v <= last \/ v \in Numbers(way) \/ (closed /\ \A w \in Numbers(way) : w < v)
      <3>1. u \in Nat
        BY <1>1
      <3>2. v \in u + 1..n \/ v = n + 1
        BY <3>1
      <3> QED BY <1>3, <2>1, <2>2, <3>2 DEF Whole
    <2> QED BY <2>1, <2>2 DEF Whole
  <1> QED BY <1>2, <1>3

LEMMA WholeRead ==
    ASSUME NEW way \in Seq(Nat), NEW last \in Nat, NEW n \in Nat, NEW marks \in SUBSET Nat,
           NEW closed, Whole(way, last, closed, n, marks), way # <<>>, Head(way) # 0
    PROVE  Whole(Tail(way), Head(way), closed, n, marks)
  <1> DEFINE rest == Tail(way)
             first == Head(way)
  <1>1. /\ Ordered(rest)
        /\ Numbers(way) = Numbers(rest) \cup {first}
        /\ \A v \in Numbers(rest) : first < v
    BY NumberTaken DEF Whole
  <1>2. Numbers(way) \subseteq Nat
    BY NumbersTyped
  <1> HIDE DEF rest, first
  <1>3. last < first /\ first <= n /\ \A v \in Numbers(rest) : first < v /\ v <= n
    BY <1>1 DEF Whole
  <1>4. ASSUME NEW u \in Numbers(rest) \cup ({first} \ {0}) \cup marks, NEW v \in u + 1..n
        PROVE  v <= first \/ v \in Numbers(rest) \/ (closed /\ \A w \in Numbers(rest) : w < v)
    <2>1. u \in Numbers(way) \cup ({last} \ {0}) \cup marks /\ u \in Nat /\ first \in Nat
      BY <1>1, <1>2
    <2>2. v <= last \/ v \in Numbers(way) \/ (closed /\ \A w \in Numbers(way) : w < v)
      BY <2>1 DEF Whole
    <2> QED BY <1>1, <1>3, <2>1, <2>2
  <1> QED BY <1>1, <1>3, <1>4 DEF Whole, rest, first

\* A signal about another property changes nothing, when it comes and when it is passed over.
LEMMA WholeOther ==
    ASSUME NEW way \in Seq(Nat), NEW read \in Seq(Nat), NEW queue \in Seq(Nat),
           NEW last, NEW n, NEW marks, NEW closed
    PROVE  /\ Whole(way, last, closed, n, marks) => Whole(Append(way, 0), last, closed, n, marks)
           /\ queue # <<>> /\ Head(queue) = 0 /\ Whole(read \o queue, last, closed, n, marks)
                => Whole(read \o Tail(queue), last, closed, n, marks)
  <1>1. ASSUME Whole(way, last, closed, n, marks)
        PROVE  Whole(Append(way, 0), last, closed, n, marks)
    <2>1. Ordered(Append(way, 0)) /\ Numbers(Append(way, 0)) = Numbers(way)
      BY <1>1, OtherAppended DEF Whole
    <2> QED BY <1>1, <2>1, Zenon DEF Whole
  <1>2. ASSUME queue # <<>>, Head(queue) = 0, Whole(read \o queue, last, closed, n, marks)
        PROVE  Whole(read \o Tail(queue), last, closed, n, marks)
    <2>1. /\ Ordered(read \o Tail(queue))
          /\ Numbers(read \o Tail(queue)) = Numbers(read \o queue)
      BY <1>2, OtherTaken DEF Whole
    <2> QED BY <1>2, <2>1, Zenon DEF Whole
  <1> QED BY <1>1, <1>2

LEMMA WholeStart ==
    ASSUME NEW n \in Nat
    PROVE  /\ \A closed : Whole(<<>>, 0, closed, n, {})
           /\ \A way \in Seq(Nat) : \A last, closed :
                 Whole(way, last, closed, n, {}) => Whole(way, last, closed, n, {n})
  <1> DEFINE none == <<>>
  <1>1. Numbers(none) = {} /\ Ordered(none)
    BY DEF Numbers, Ordered
  <1> HIDE DEF none
  <1>2. \A closed : Whole(none, 0, closed, n, {})
    BY <1>1 DEF Whole
  <1>3. \A way \in Seq(Nat) : \A last, closed :
           Whole(way, last, closed, n, {}) => Whole(way, last, closed, n, {n})
    <2>1. n + 1..n = {}
      OBVIOUS
    <2> QED BY <2>1 DEF Whole
  <1> QED BY <1>2, <1>3 DEF none

LEMMA ArrivesKept ==
    ASSUME BluezTypeOK, Stages, Arrives, [BluezNext]_bluezVars, pc' \in Arriving
    PROVE  Whole(OnTheWay(conns), handed[conns], conns \in cut, sent, Marks)'
  <1> USE DEF Arriving
  <1> DEFINE way == OnTheWay(conns)
             last == handed[conns]
             closed == conns \in cut
  <1>1. pc \notin Arriving => Match
    <2> USE DEF callerVars, threadVars, linkVars, busVars, pastVars, Step, Attempting
    <2>1. CASE Attempt
      <3>1. CASE pc \in Attempting /\ GiveUp
        BY <3>1 DEF GiveUp
      <3> QED BY <2>1, <3>1, AttemptSteps
              DEF Look, Scan, ScanMiss, ScanHit, Trust, Ask, Resolved, Unresolved, Turn,
                  Characteristics, StartNotify, Spawn
    <2>2. CASE Transport
      BY <2>2 DEF Transport, Begin, Read, Disconnect, DisconnectFails, Drop
    <2>3. CASE External
      BY <2>3 DEF External, Discovered, Forgotten, LinkMade, LinkRefused, ServicesResolve,
                  LinkLost, LossNoticed, Notification, BusLost
    <2>4. ASSUME NEW c \in Conns, Forward(c) \/ Finish(c) PROVE UNCHANGED pc
      BY <2>4 DEF Forward, Finish
    <2>5. CASE UNCHANGED bluezVars
      BY <2>5 DEF bluezVars
    <2> QED BY <2>1, <2>2, <2>3, <2>4, <2>5 DEF BluezNext
  <1>2. CASE Match
    <2>1. /\ conns' = conns /\ conns \in Conns /\ conns' \in Conns /\ pc' = "notify"
          /\ signals' = signals /\ inbox' = inbox /\ handed' = handed /\ sent' = sent
          /\ signals[conns] = <<>> /\ inbox[conns] = <<>> /\ handed[conns] = 0
      BY <1>2 DEF Match, Step, Stages, Attempting, threadVars
    <2>2. OnTheWay(conns)' = <<>> /\ Marks' = {} /\ handed'[conns'] = 0
      <3>1. <<>> \o <<>> = <<>>
        OBVIOUS
      <3> QED BY <2>1, <3>1 DEF OnTheWay, Marks
    <2>3. sent' \in Nat
      BY <2>1 DEF BluezTypeOK
    <2> QED BY <2>2, <2>3, WholeStart
  <1>3. CASE pc \in Arriving
    <2>1. /\ Whole(way, last, closed, sent, Marks)
          /\ conns \in Conns /\ sent \in Nat /\ last \in Nat /\ closed \in BOOLEAN
          /\ inbox[conns] \in Seq(Nat) /\ signals[conns] \in Seq(Nat) /\ way \in Seq(Nat)
          /\ Marks \in SUBSET Nat
          /\ since[conns] \in Nat
      <3>1. conns \in Conns
        BY <1>3 DEF Stages
      <3>2. inbox[conns] \in Seq(1..MaxSent) /\ signals[conns] \in Seq(0..MaxSent)
        BY <3>1 DEF BluezTypeOK
      <3>3. inbox[conns] \in Seq(Nat) /\ signals[conns] \in Seq(Nat)
        BY <3>2
      <3>4. since[conns] \in Nat /\ sent \in Nat /\ last \in Nat
        BY <3>1 DEF BluezTypeOK
      <3>5. way \in Seq(Nat)
        BY <3>3 DEF OnTheWay
      <3> QED BY <1>3, <3>1, <3>3, <3>4, <3>5 DEF Arrives, Marks
    <2>2. ASSUME UNCHANGED <<conns, sent>>, pc' = pc,
                 inbox'[conns] = inbox[conns], signals'[conns] = signals[conns],
                 handed'[conns] = handed[conns], since'[conns] = since[conns],
                 (conns \in cut') = (conns \in cut)
          PROVE  Whole(OnTheWay(conns), handed[conns], conns \in cut, sent, Marks)'
      <3>1. /\ OnTheWay(conns)' = way /\ Marks' = Marks /\ handed'[conns'] = last
            /\ (conns' \in cut') = closed
        BY <2>2 DEF OnTheWay, Marks
      <3> QED BY <2>1, <2>2, <3>1
    <2>3. CASE External
      <3> USE DEF callerVars, threadVars, linkVars, busVars, pastVars
      <3>1. CASE Discovered \/ Forgotten \/ LinkMade \/ LinkRefused \/ ServicesResolve
                 \/ LinkLost \/ LossNoticed
        BY <2>2, <3>1 DEF Discovered, Forgotten, LinkMade, LinkRefused, ServicesResolve,
                          LinkLost, LossNoticed
      <3>2. CASE Notification
        <4>1. /\ UNCHANGED <<pc, conns, inbox, handed, since, cut>> /\ sent' = sent + 1
              /\ Marks' = Marks
          BY <3>2 DEF Notification, Marks
        <4>2. CASE conns \in cut
          <5>1. signals'[conns] = signals[conns]
            BY <2>1, <3>2, <4>2 DEF Notification, Signal
          <5>2. OnTheWay(conns)' = way
            BY <4>1, <5>1 DEF OnTheWay
          <5>3. Whole(way, last, closed, sent + 1, Marks)
            <6>1. sent + 1 \in {sent, sent + 1}
              OBVIOUS
            <6> QED BY <2>1, <4>2, <6>1, WholeCut
          <5> QED BY <4>1, <5>2, <5>3
        <4>3. CASE conns \notin cut
          <5>1. conns \in matched \ cut
            BY <1>3, <4>3 DEF Stages
          <5>2. signals'[conns] = Append(signals[conns], sent + 1)
            BY <2>1, <3>2, <5>1 DEF Notification, Signal
          <5>3. OnTheWay(conns)' = Append(way, sent + 1)
            <6>1. inbox[conns] \o Append(signals[conns], sent + 1)
                    = Append(inbox[conns] \o signals[conns], sent + 1)
              <7>1. sent + 1 \in Nat /\ inbox[conns] \in Seq(Nat) /\ signals[conns] \in Seq(Nat)
                BY <2>1
              <7> QED BY <7>1, AppendedLast, Zenon
            <6> QED BY <4>1, <5>2, <6>1 DEF OnTheWay
          <5>4. Whole(Append(way, sent + 1), last, closed, sent + 1, Marks)
            BY <2>1, <4>3, WholeSent
          <5> QED BY <4>1, <5>3, <5>4
        <4> QED BY <4>2, <4>3
      <3>3. ASSUME NEW c \in Conns, BusLost(c)
            PROVE  Whole(OnTheWay(conns), handed[conns], conns \in cut, sent, Marks)'
        <4>1. CASE c # conns
          BY <2>2, <3>3, <4>1 DEF BusLost
        <4>2. CASE c = conns
          <5>1. /\ OnTheWay(conns)' = way /\ Marks' = Marks /\ handed'[conns'] = last
                /\ (conns' \in cut') = TRUE /\ sent' = sent
            BY <3>3, <4>2 DEF BusLost, OnTheWay, Marks
          <5>2. Whole(way, last, TRUE, sent, Marks)
            <6>1. sent \in {sent, sent + 1}
              OBVIOUS
            <6> QED BY <2>1, <6>1, WholeCut
          <5> QED BY <5>1, <5>2
        <4> QED BY <4>1, <4>2
      <3> QED BY <2>3, <3>1, <3>2, <3>3 DEF External
    <2>4. CASE Attempt
      <3> USE DEF callerVars, threadVars, linkVars, busVars, pastVars, Step
      <3>1. StartNotify \/ Spawn
        <4>1. ~GiveUp
          BY <1>3 DEF GiveUp
        <4> QED BY <1>3, <2>4, <4>1, AttemptSteps
                DEF Look, Scan, ScanMiss, ScanHit, Trust, Ask, Resolved, Unresolved, Turn,
                    Characteristics, Match
      <3>2. CASE StartNotify
        <4>1. /\ UNCHANGED <<conns, inbox, handed, sent, cut>> /\ conns \notin cut
              /\ pc = "notify" /\ pc' = "spawn" /\ Marks = {} /\ Marks' = {sent}
          BY <2>1, <3>2 DEF StartNotify, Marks, BluezTypeOK
        <4>2. Whole(way, last, closed, sent, {}) /\ conns \in matched \ cut
          BY <1>3, <2>1, <4>1 DEF Stages
        <4>3. Whole(OnTheWay(conns)', last, closed, sent, {}) /\ OnTheWay(conns)' \in Seq(Nat)
          <5>1. CASE notifying # {}
            <6>1. OnTheWay(conns)' = way
              BY <3>2, <4>1, <5>1 DEF StartNotify, OnTheWay
            <6> QED BY <2>1, <4>2, <6>1
          <5>2. CASE notifying = {}
            <6>1. signals'[conns] = Append(signals[conns], 0)
              BY <2>1, <3>2, <4>2, <5>2 DEF StartNotify, Signal
            <6>2. OnTheWay(conns)' = Append(way, 0)
              <7>1. inbox[conns] \o Append(signals[conns], 0)
                      = Append(inbox[conns] \o signals[conns], 0)
                <8>1. 0 \in Nat /\ inbox[conns] \in Seq(Nat) /\ signals[conns] \in Seq(Nat)
                  BY <2>1
                <8> QED BY <8>1, AppendedLast, Zenon
              <7> QED BY <4>1, <6>1, <7>1 DEF OnTheWay
            <6>3. Whole(Append(way, 0), last, closed, sent, {})
              BY <2>1, <4>2, WholeOther
            <6> QED BY <2>1, <6>2, <6>3
          <5> QED BY <5>1, <5>2
        <4>4. Whole(OnTheWay(conns)', last, closed, sent, {sent})
          BY <2>1, <4>3, WholeStart
        <4> QED BY <4>1, <4>4
      <3>3. CASE Spawn
        <4>1. /\ OnTheWay(conns)' = way /\ Marks' = Marks
              /\ UNCHANGED <<conns, handed, cut, sent>>
          BY <3>3 DEF Spawn, OnTheWay, Marks
        <4> QED BY <2>1, <4>1
      <3> QED BY <3>1, <3>2, <3>3
    <2>5. CASE Transport
      <3> USE DEF callerVars, threadVars, linkVars, busVars, pastVars, Step
      <3>1. Read \/ Disconnect \/ DisconnectFails
        BY <1>3, <2>5 DEF Transport, Begin, Drop
      <3>2. CASE Disconnect \/ DisconnectFails
        BY <2>2, <3>2 DEF Disconnect, DisconnectFails
      <3>3. CASE Read
        <4>1. /\ inbox[conns] # <<>> /\ inbox'[conns] = Tail(inbox[conns])
              /\ handed'[conns] = Head(inbox[conns])
              /\ UNCHANGED <<pc, conns, signals, cut, sent, since>> /\ Marks' = Marks
          BY <2>1, <3>3 DEF Read, Marks, BluezTypeOK
        <4>2. inbox[conns] \in Seq(1..MaxSent)
          BY <2>1 DEF BluezTypeOK
        <4>3. /\ way # <<>> /\ Head(way) = Head(inbox[conns]) /\ Head(inbox[conns]) # 0
              /\ Tail(way) = Tail(inbox[conns]) \o signals[conns]
          <5>1. Head(inbox[conns]) \in 1..MaxSent
            BY <4>1, <4>2, Parted
          <5>2. inbox[conns] \in Seq(Nat) /\ signals[conns] \in Seq(Nat) /\ inbox[conns] # <<>>
            BY <2>1, <4>1
          <5>3. /\ way # <<>> /\ Head(way) = Head(inbox[conns])
                /\ Tail(way) = Tail(inbox[conns]) \o signals[conns]
            BY <5>2, TakenFirst, Zenon DEF OnTheWay
          <5>4. \A v \in 1..MaxSent : v # 0
            OBVIOUS
          <5> QED BY <5>1, <5>3, <5>4, Zenon
        <4>4. OnTheWay(conns)' = Tail(way)
          BY <4>1, <4>3 DEF OnTheWay
        <4>5. Whole(Tail(way), Head(way), closed, sent, Marks)
          BY <2>1, <4>3, WholeRead
        <4> QED BY <4>1, <4>3, <4>4, <4>5
      <3> QED BY <3>1, <3>2, <3>3
    <2>6. ASSUME NEW c \in Conns, Forward(c) \/ Finish(c)
          PROVE  Whole(OnTheWay(conns), handed[conns], conns \in cut, sent, Marks)'
      <3> USE DEF callerVars, threadVars, linkVars, busVars, pastVars
      <3>1. UNCHANGED <<pc, conns, handed, cut, sent, since>> /\ Marks' = Marks
        BY <2>6 DEF Forward, Finish, Marks
      <3>2. CASE c # conns
        <4>1. inbox'[conns] = inbox[conns] /\ signals'[conns] = signals[conns]
          BY <2>1, <2>6, <3>2 DEF Forward, Finish, Ends, Closed, Take, BluezTypeOK
        <4> QED BY <2>2, <3>1, <4>1
      <3>3. CASE c = conns /\ Finish(c)
        <4>1. inbox'[conns] = inbox[conns] /\ signals'[conns] = signals[conns]
          BY <2>1, <3>3 DEF Finish, Ends, Closed, BluezTypeOK
        <4> QED BY <2>2, <3>1, <4>1
      <3>4. CASE c = conns /\ Forward(c)
        <4>1. ~Dropped(c)
          BY <1>3, <2>1, <3>4 DEF Dropped, Conns
        <4>2. signals'[conns] = Tail(signals[conns]) /\ signals[conns] # <<>>
          BY <2>1, <3>4, <4>1 DEF Forward, Take, BluezTypeOK
        <4>3. CASE Head(signals[conns]) = 0
          <5>1. OnTheWay(conns)' = inbox[conns] \o Tail(signals[conns])
            BY <3>1, <3>4, <4>1, <4>2, <4>3 DEF Forward, OnTheWay
          <5>2. Whole(inbox[conns] \o Tail(signals[conns]), last, closed, sent, Marks)
            BY <2>1, <4>2, <4>3, WholeOther DEF OnTheWay
          <5> QED BY <3>1, <5>1, <5>2
        <4>4. CASE Head(signals[conns]) # 0
          <5>1. inbox'[conns] = Append(inbox[conns], Head(signals[conns]))
            BY <2>1, <3>4, <4>1, <4>4 DEF Forward, BluezTypeOK
          <5>2. ASSUME NEW a \in Seq(Nat), NEW b \in Seq(Nat), b # <<>>
                PROVE  Append(a, Head(b)) \o Tail(b) = a \o b
            BY <5>2, SMTT(30)
          <5>3. OnTheWay(conns)' = way
            BY <2>1, <3>1, <4>2, <5>1, <5>2 DEF OnTheWay
          <5> QED BY <2>1, <3>1, <5>3
        <4> QED BY <4>3, <4>4
      <3> QED BY <2>6, <3>2, <3>3, <3>4
    <2>7. CASE UNCHANGED bluezVars
      BY <2>2, <2>7 DEF bluezVars, callerVars, threadVars, linkVars, busVars, pastVars
    <2> QED BY <2>3, <2>4, <2>5, <2>6, <2>7 DEF BluezNext
  <1> QED BY <1>1, <1>2, <1>3

-----------------------------------------------------------------------------
BluezInv == BluezTypeOK /\ Stages /\ DiscoveryOff /\ Arrives

LEMMA BluezInitially == BluezInit => BluezInv
  <1> SUFFICES ASSUME BluezInit PROVE BluezInv
    OBVIOUS
  <1>1. BluezTypeOK
    <2>1. <<>> \in Seq(1..MaxSent) /\ <<>> \in Seq(0..MaxSent)
      OBVIOUS
    <2>2. known \in BOOLEAN /\ trusted \in BOOLEAN
      BY DEF BluezInit
    <2>3. /\ inbox \in [Conns -> Seq(1..MaxSent)] /\ signals \in [Conns -> Seq(0..MaxSent)]
          /\ thread \in [Conns -> {"none", "running", "ended"}]
          /\ handed \in [Conns -> 0..MaxSent] /\ since \in [Conns -> 0..MaxSent]
      BY <2>1 DEF BluezInit
    <2>4. conns \in 0..MaxConns /\ sent \in 0..MaxSent /\ waited \in 0..Deadline
      <3>1. 0 \in 0..MaxConns /\ 0 \in 0..MaxSent /\ 0 \in 0..Deadline
        OBVIOUS
      <3> QED BY <3>1 DEF BluezInit
    <2>6. /\ pc \in {"idle", "up"} \cup Attempting
          /\ told \in BOOLEAN /\ linked \in {"no", "wanted", "yes"}
          /\ resolved \in BOOLEAN /\ held \in BOOLEAN
      BY DEF BluezInit
    <2>5. /\ discovering \subseteq Conns /\ notifying \subseteq Conns /\ matched \subseteq Conns
          /\ cut \subseteq Conns /\ unstopped \subseteq Conns
      BY DEF BluezInit
    <2> QED BY <2>2, <2>3, <2>4, <2>5, <2>6 DEF BluezTypeOK
  <1>2. Stages
    BY DEF BluezInit, Stages, Arriving, Attempting, Conns
  <1>3. DiscoveryOff /\ Arrives
    BY DEF BluezInit, DiscoveryOff, Arrives, Arriving
  <1> QED BY <1>1, <1>2, <1>3 DEF BluezInv

LEMMA BluezInductive == BluezInv /\ [BluezNext]_bluezVars => BluezInv'
  <1> SUFFICES ASSUME BluezInv, [BluezNext]_bluezVars PROVE BluezInv'
    OBVIOUS
  <1>1. BluezTypeOK'
    <2>1. ASSUME NEW c \in Conns, Forward(c) \/ Finish(c) PROVE BluezTypeOK'
      BY <2>1, ThreadTyped DEF BluezInv
    <2>2. CASE UNCHANGED bluezVars
      BY <2>2 DEF BluezInv, BluezTypeOK, bluezVars, callerVars, threadVars, linkVars, busVars,
                  pastVars
    <2> QED BY <2>1, <2>2, ExternalTyped, AttemptTyped, TransportTyped
            DEF BluezInv, BluezNext, Stages
  <1>2. Stages' /\ DiscoveryOff'
    BY StagesKept, DiscoveryKept DEF BluezInv
  <1>3. Arrives'
    <2>1. CASE pc' \in Arriving
      BY <2>1, ArrivesKept DEF BluezInv, Arrives
    <2>2. CASE pc' \notin Arriving
      BY <2>2 DEF Arrives, Arriving
    <2> QED BY <2>1, <2>2
  <1> QED BY <1>1, <1>2, <1>3 DEF BluezInv

LEMMA BluezInvariant == BluezSpec => []BluezInv
  <1> QED BY BluezInitially, BluezInductive, PTL DEF BluezSpec

\* Types: no signal about another property gets into a channel (bluez.rs signal thread).
THEOREM BluezTypeCorrect == BluezSpec => []BluezTypeOK
  <1>1. BluezInv => BluezTypeOK
    BY DEF BluezInv
  <1> QED BY <1>1, BluezInvariant, PTL

\* However many transports came before and whenever their threads end, a transport gets
\* every notification after StartNotify, in order and once (bluez.rs connect).
THEOREM NoneMissed == BluezSpec => []NothingMissed
  <1>1. BluezInv => NothingMissed
    <2> SUFFICES ASSUME BluezInv, pc = "up" PROVE NothingMissed
      BY DEF NothingMissed
    <2>1. Whole(OnTheWay(conns), handed[conns], conns \in cut, sent, {since[conns]})
      BY DEF BluezInv, Arrives, Arriving, Marks
    <2> QED BY <2>1 DEF NothingMissed, Whole, AheadOf, NoneLostAfter
  <1> QED BY <1>1, BluezInvariant, PTL

\* A read that says "ended" is the bus's doing (bluez.rs signal thread).
THEOREM EndsWithBus == BluezSpec => []EndIsBusLost
  <1>1. BluezInv => EndIsBusLost
    BY DEF BluezInv, Stages, EndIsBusLost, ReadsEnd
  <1> QED BY <1>1, BluezInvariant, PTL

\* No path out of a scan leaves discovery on, unless BlueZ refused (bluez.rs find).
THEOREM DiscoveryLeftOff == BluezSpec => []DiscoveryOff
  <1>1. BluezInv => DiscoveryOff
    BY DEF BluezInv
  <1> QED BY <1>1, BluezInvariant, PTL
=============================================================================
