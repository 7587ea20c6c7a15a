--------------------------- MODULE BtleplugProofs ---------------------------
(***************************************************************************)
(* The btleplug transport, for every number of threads and sessions: its   *)
(* types, that no session is shared or used again after a connection, that *)
(* no link is left to hold the device, and that sessions are not used up.  *)
(***************************************************************************)
EXTENDS Btleplug, FiniteSetTheorems, TLAPS

USE BtleAssumption DEF BtleAssumption, Sessions

\* The sessions named anywhere have been opened.
Counted ==
    /\ scanner <= opened
    /\ \A p \in Callers : session[p] <= opened
    /\ background \subseteq retired
    /\ \A s \in retired \cup held \cup attempts : s <= opened
    /\ unreported \subseteq held
    /\ holder \in held \cup {0}

\* A thread has a session from the scan on.
InUse == \A p \in Callers : session[p] = 0 <=> pc[p] \in {"idle", "open"}

\* What the position of a thread says about its session.
Stages ==
    /\ \A p \in Callers : pc[p] \in {"subscribe", "abandon", "up"} => session[p] \in retired
    /\ \A p \in noticed : pc[p] \in Listening

SessionInv == BtleTypeOK /\ InUse /\ Counted /\ Stages /\ SessionsExclusive /\ RetiredNotReused

\* Sessions for which nothing is promised.
Excused == refused \cup tainted

\* The OS works on a connect only while somebody waits for it or cancels it.
AttemptsAwaited ==
    \A s \in attempts \ Excused :
        \E p \in Callers : session[p] = s /\ pc[p] \in {"connect", "cancel"}

\* The link of s came and went, and s makes no other.
Spent(s) == s \in held /\ s \notin attempts /\ holder # s

\* A session makes one link, and reports its end once.
OneLink ==
    /\ holder \notin attempts
    /\ scanner \in held => scanner \in Excused
    /\ \A p \in Callers : pc[p] = "scan" /\ session[p] \in held => session[p] \in Excused
    /\ \A s \in unreported : s \in Excused \/ Spent(s)
    /\ \A p \in noticed : session[p] \in Excused \/ Spent(session[p])

\* A transport takes its link for gone only when it is.
ReleasedIsGone ==
    \A p \in Callers :
        pc[p] = "up" /\ released[p] /\ holder = session[p] => session[p] \in Excused

LinkInv == AttemptsAwaited /\ OneLink /\ ReleasedIsGone /\ LinkOwned

\* Sessions that will not be scanned with again, also those given up for Bluetooth.
Used == retired \cup poweredOff

PoweredNotReused ==
    /\ scanner \notin poweredOff
    /\ \A p \in Callers :
          pc[p] \in {"scan", "connect", "cancel"} => session[p] \notin poweredOff
    /\ \A s \in poweredOff : s <= opened

\* A session beyond those used is in the slot or with an attempt, and one attempt may
\* have it for nothing; every further one has been counted as an overlap.
Opening == {p \in Callers : pc[p] = "open"}
Searching == {"open", "scan", "connect", "cancel"}
Spare == scanner # 0 \/ \E p \in Callers : pc[p] \in Searching

Budget ==
    \/ overlaps = MaxOpened
    \/ opened + Cardinality(Opening) <=
          Cardinality(Used) + overlaps + (IF Spare THEN 1 ELSE 0)
-----------------------------------------------------------------------------
\* The types; that a thread which scans has a session is part of them.
LEMMA BtleTypeStep ==
    BtleTypeOK /\ InUse /\ [BtleNext]_btleVars => BtleTypeOK' /\ InUse'
  <1> SUFFICES ASSUME BtleTypeOK, InUse, [BtleNext]_btleVars
               PROVE  BtleTypeOK' /\ InUse'
    OBVIOUS
  <1> USE DEF BtleTypeOK, InUse, Attempting,
             processVars, transportVars, callerVars, osVars, pastVars
  <1>1. ASSUME NEW p \in Callers, Take(p)
        PROVE  BtleTypeOK' /\ InUse'
    BY <1>1 DEF Take, Others
  <1>2. ASSUME NEW p \in Callers, Open(p)
        PROVE  BtleTypeOK' /\ InUse'
    BY <1>2 DEF Open
  <1>3. ASSUME NEW p \in Callers, OpenFails(p)
        PROVE  BtleTypeOK' /\ InUse'
    BY <1>3 DEF OpenFails
  <1>4. ASSUME NEW p \in Callers, NotFound(p)
        PROVE  BtleTypeOK' /\ InUse'
    BY <1>4 DEF NotFound, Park, Finish
  <1>5. ASSUME NEW p \in Callers, PoweredOff(p)
        PROVE  BtleTypeOK' /\ InUse'
    BY <1>5 DEF PoweredOff, Finish
  <1>6. ASSUME NEW p \in Callers, Find(p)
        PROVE  BtleTypeOK' /\ InUse'
    BY <1>6 DEF Find
  <1>7. ASSUME NEW p \in Callers, Connected(p)
        PROVE  BtleTypeOK' /\ InUse'
    BY <1>7 DEF Connected
  <1>8. ASSUME NEW p \in Callers, ConnectFails(p)
        PROVE  BtleTypeOK' /\ InUse'
    BY <1>8 DEF ConnectFails
  <1>9. ASSUME NEW p \in Callers, Cancel(p)
        PROVE  BtleTypeOK' /\ InUse'
    BY <1>9 DEF Cancel, Release, Park, Finish
  <1>10. ASSUME NEW p \in Callers, Subscribed(p)
        PROVE  BtleTypeOK' /\ InUse'
    BY <1>10 DEF Subscribed, LinkDefault
  <1>11. ASSUME NEW p \in Callers, SubscribeFails(p)
        PROVE  BtleTypeOK' /\ InUse'
    BY <1>11 DEF SubscribeFails
  <1>12. ASSUME NEW p \in Callers, Abandon(p)
        PROVE  BtleTypeOK' /\ InUse'
    BY <1>12 DEF Abandon, Release, Finish
  <1>13. ASSUME NEW p \in Callers, PumpData(p)
        PROVE  BtleTypeOK' /\ InUse'
    BY <1>13 DEF PumpData, Pumping
  <1>14. ASSUME NEW p \in Callers, PumpStreamEnds(p)
        PROVE  BtleTypeOK' /\ InUse'
    BY <1>14 DEF PumpStreamEnds, Pumping
  <1>15. ASSUME NEW p \in Callers, PumpGone(p)
        PROVE  BtleTypeOK' /\ InUse'
    BY <1>15 DEF PumpGone, Pumping
  <1>16. ASSUME NEW p \in Callers, Read(p)
        PROVE  BtleTypeOK' /\ InUse'
    BY <1>16 DEF Read
  <1>17. ASSUME NEW p \in Callers, Disconnect(p)
        PROVE  BtleTypeOK' /\ InUse'
    BY <1>17 DEF Disconnect, Release
  <1>18. ASSUME NEW p \in Callers, Drop(p)
        PROVE  BtleTypeOK' /\ InUse'
    <2>1. session[p] \in Sessions
      BY <1>18 DEF Drop
    <2>2. background' \subseteq Sessions
      BY <1>18, <2>1 DEF Drop
    <2>3. /\ attempts' \subseteq Sessions /\ holder' \in Sessions \cup {0}
          /\ unreported' \subseteq Sessions /\ refused' \subseteq Sessions
      BY <1>18 DEF Drop, Release
    <2> QED BY <1>18, <2>2, <2>3 DEF Drop, Finish, LinkDefault
  <1>19. ASSUME NEW s \in Sessions, LinkMade(s)
        PROVE  BtleTypeOK' /\ InUse'
    BY <1>19 DEF LinkMade, Awaited
  <1>20. ASSUME NEW s \in Sessions, LossReported(s)
        PROVE  BtleTypeOK' /\ InUse'
    BY <1>20 DEF LossReported
  <1>21. ASSUME NEW s \in Sessions, ReleaseLater(s)
        PROVE  BtleTypeOK' /\ InUse'
    BY <1>21 DEF ReleaseLater, Release
  <1>22. CASE LinkLost
    BY <1>22 DEF LinkLost
  <1>23. CASE UNCHANGED btleVars
    BY <1>23 DEF btleVars
  <1> QED BY <1>1, <1>2, <1>3, <1>4, <1>5, <1>6, <1>7, <1>8, <1>9, <1>10, <1>11, <1>12,
            <1>13, <1>14, <1>15, <1>16, <1>17, <1>18, <1>19, <1>20, <1>21, <1>22, <1>23
         DEF BtleNext, Attempt, Transport

-----------------------------------------------------------------------------
\* The sessions.

\* What a disconnect changes, whether the OS heeds it or not.
LEMMA Releasing ==
    ASSUME BtleTypeOK, NEW s \in Sessions, Release(s)
    PROVE  /\ attempts' \subseteq attempts
           /\ holder' = holder \/ (holder = s /\ holder' = 0)
           /\ \A r \in unreported' \ unreported :
                r = s /\ holder = s /\ s \notin attempts' /\ holder' = 0
           /\ refused \subseteq refused'
           /\ s \in refused' \/ (s \notin attempts' /\ holder' # s)
  <1>1. CASE /\ refused' = refused \cup {s}
             /\ UNCHANGED <<attempts, holder, unreported>>
    BY <1>1
  <1>2. CASE /\ attempts' = attempts \ {s}
             /\ holder' = IF holder = s THEN 0 ELSE holder
             /\ unreported' = IF holder = s THEN unreported \cup {s} ELSE unreported
             /\ UNCHANGED refused
    <2>1. CASE holder = s
      BY <1>2, <2>1
    <2>2. CASE holder # s
      BY <1>2, <2>2
    <2> QED BY <2>1, <2>2
  <1> QED BY <1>1, <1>2 DEF Release

LEMMA SessionStep ==
    SessionInv /\ [BtleNext]_btleVars
        => Counted' /\ Stages' /\ SessionsExclusive' /\ RetiredNotReused'
  <1> SUFFICES ASSUME SessionInv, [BtleNext]_btleVars
               PROVE  Counted' /\ Stages' /\ SessionsExclusive' /\ RetiredNotReused'
    OBVIOUS
  <1> USE DEF SessionInv, BtleTypeOK, InUse, Counted, Stages, SessionsExclusive,
             RetiredNotReused, Attempting, Listening,
             processVars, transportVars, callerVars, osVars, pastVars
  <1>1. ASSUME NEW p \in Callers, Take(p)
        PROVE  Counted' /\ Stages' /\ SessionsExclusive' /\ RetiredNotReused'
    BY <1>1 DEF Take, Others
  <1>2. ASSUME NEW p \in Callers, Open(p)
        PROVE  Counted' /\ Stages' /\ SessionsExclusive' /\ RetiredNotReused'
    BY <1>2 DEF Open
  <1>3. ASSUME NEW p \in Callers, OpenFails(p)
        PROVE  Counted' /\ Stages' /\ SessionsExclusive' /\ RetiredNotReused'
    BY <1>3 DEF OpenFails
  <1>4. ASSUME NEW p \in Callers, NotFound(p)
        PROVE  Counted' /\ Stages' /\ SessionsExclusive' /\ RetiredNotReused'
    BY <1>4 DEF NotFound, Park, Finish
  <1>5. ASSUME NEW p \in Callers, PoweredOff(p)
        PROVE  Counted' /\ Stages' /\ SessionsExclusive' /\ RetiredNotReused'
    BY <1>5 DEF PoweredOff, Finish
  <1>6. ASSUME NEW p \in Callers, Find(p)
        PROVE  Counted' /\ Stages' /\ SessionsExclusive' /\ RetiredNotReused'
    BY <1>6 DEF Find
  <1>7. ASSUME NEW p \in Callers, Connected(p)
        PROVE  Counted' /\ Stages' /\ SessionsExclusive' /\ RetiredNotReused'
    BY <1>7 DEF Connected
  <1>8. ASSUME NEW p \in Callers, ConnectFails(p)
        PROVE  Counted' /\ Stages' /\ SessionsExclusive' /\ RetiredNotReused'
    BY <1>8 DEF ConnectFails
  <1>9. ASSUME NEW p \in Callers, Cancel(p)
        PROVE  Counted' /\ Stages' /\ SessionsExclusive' /\ RetiredNotReused'
    <2>1. /\ attempts' \subseteq attempts
          /\ holder' \in {0, holder}
          /\ unreported' \subseteq unreported \cup ({holder} \ {0})
      BY <1>9, Releasing DEF Cancel
    <2> QED BY <1>9, <2>1 DEF Cancel, Park, Finish
  <1>10. ASSUME NEW p \in Callers, Subscribed(p)
        PROVE  Counted' /\ Stages' /\ SessionsExclusive' /\ RetiredNotReused'
    BY <1>10 DEF Subscribed, LinkDefault
  <1>11. ASSUME NEW p \in Callers, SubscribeFails(p)
        PROVE  Counted' /\ Stages' /\ SessionsExclusive' /\ RetiredNotReused'
    BY <1>11 DEF SubscribeFails
  <1>12. ASSUME NEW p \in Callers, Abandon(p)
        PROVE  Counted' /\ Stages' /\ SessionsExclusive' /\ RetiredNotReused'
    <2>1. /\ attempts' \subseteq attempts
          /\ holder' \in {0, holder}
          /\ unreported' \subseteq unreported \cup ({holder} \ {0})
      BY <1>12, Releasing DEF Abandon
    <2> QED BY <1>12, <2>1 DEF Abandon, Finish
  <1>13. ASSUME NEW p \in Callers, PumpData(p)
        PROVE  Counted' /\ Stages' /\ SessionsExclusive' /\ RetiredNotReused'
    BY <1>13 DEF PumpData, Pumping
  <1>14. ASSUME NEW p \in Callers, PumpStreamEnds(p)
        PROVE  Counted' /\ Stages' /\ SessionsExclusive' /\ RetiredNotReused'
    BY <1>14 DEF PumpStreamEnds, Pumping
  <1>15. ASSUME NEW p \in Callers, PumpGone(p)
        PROVE  Counted' /\ Stages' /\ SessionsExclusive' /\ RetiredNotReused'
    BY <1>15 DEF PumpGone, Pumping
  <1>16. ASSUME NEW p \in Callers, Read(p)
        PROVE  Counted' /\ Stages' /\ SessionsExclusive' /\ RetiredNotReused'
    BY <1>16 DEF Read
  <1>17. ASSUME NEW p \in Callers, Disconnect(p)
        PROVE  Counted' /\ Stages' /\ SessionsExclusive' /\ RetiredNotReused'
    <2>1. /\ attempts' \subseteq attempts
          /\ holder' \in {0, holder}
          /\ unreported' \subseteq unreported \cup ({holder} \ {0})
      <3>1. CASE released[p]
        BY <1>17, <3>1 DEF Disconnect
      <3>2. CASE ~released[p]
        BY <1>17, <3>2, Releasing DEF Disconnect
      <3> QED BY <3>1, <3>2
    <2> QED BY <1>17, <2>1 DEF Disconnect
  <1>18. ASSUME NEW p \in Callers, Drop(p)
        PROVE  Counted' /\ Stages' /\ SessionsExclusive' /\ RetiredNotReused'
    <2>1. /\ attempts' \subseteq attempts
          /\ holder' \in {0, holder}
          /\ unreported' \subseteq unreported \cup ({holder} \ {0})
      <3>1. CASE UNCHANGED <<attempts, holder, unreported>>
        BY <3>1
      <3>2. CASE Release(session[p])
        BY <1>18, <3>2, Releasing DEF Drop
      <3> QED BY <1>18, <3>1, <3>2 DEF Drop
    <2>2. background' \subseteq background \cup {session[p]}
      BY <1>18 DEF Drop
    <2> QED BY <1>18, <2>1, <2>2 DEF Drop, Finish, LinkDefault
  <1>19. ASSUME NEW s \in Sessions, LinkMade(s)
        PROVE  Counted' /\ Stages' /\ SessionsExclusive' /\ RetiredNotReused'
    BY <1>19 DEF LinkMade, Awaited
  <1>20. ASSUME NEW s \in Sessions, LossReported(s)
        PROVE  Counted' /\ Stages' /\ SessionsExclusive' /\ RetiredNotReused'
    BY <1>20 DEF LossReported
  <1>21. ASSUME NEW s \in Sessions, ReleaseLater(s)
        PROVE  Counted' /\ Stages' /\ SessionsExclusive' /\ RetiredNotReused'
    <2>1. /\ attempts' \subseteq attempts
          /\ holder' \in {0, holder}
          /\ unreported' \subseteq unreported \cup ({holder} \ {0})
      BY <1>21, Releasing DEF ReleaseLater
    <2> QED BY <1>21, <2>1 DEF ReleaseLater
  <1>22. CASE LinkLost
    BY <1>22 DEF LinkLost
  <1>23. CASE UNCHANGED btleVars
    BY <1>23 DEF btleVars
  <1> QED BY <1>1, <1>2, <1>3, <1>4, <1>5, <1>6, <1>7, <1>8, <1>9, <1>10, <1>11, <1>12,
            <1>13, <1>14, <1>15, <1>16, <1>17, <1>18, <1>19, <1>20, <1>21, <1>22, <1>23
         DEF BtleNext, Attempt, Transport

-----------------------------------------------------------------------------
\* The links.

\* A link that a disconnect ends is spent.
LEMMA UnreportedSpent ==
    ASSUME SessionInv, LinkInv, Excused \subseteq Excused', held' = held,
           attempts' \subseteq attempts, holder' \in {0, holder},
           \A r \in unreported' \ unreported :
               r \in Sessions /\ holder = r /\ r \notin attempts' /\ holder' = 0
    PROVE  \A r \in unreported' : r \in Excused' \/ Spent(r)'
  <1> SUFFICES ASSUME NEW r \in unreported', r \notin Excused'
               PROVE  r \in held' /\ r \notin attempts' /\ holder' # r
    BY DEF Spent
  <1>1. /\ unreported \subseteq held /\ held \subseteq Sessions
        /\ holder \in held \cup {0} /\ holder \in Sessions \cup {0}
    BY DEF SessionInv, BtleTypeOK, Counted
  <1>2. CASE r \in unreported
    <2>1. r \in held /\ r \notin attempts /\ holder # r
      BY <1>2 DEF LinkInv, OneLink, Spent
    <2> QED BY <1>1, <2>1
  <1>3. CASE r \notin unreported
    <2>1. r \in Sessions /\ holder = r /\ r \notin attempts' /\ holder' = 0
      BY <1>3
    <2> QED BY <1>1, <2>1
  <1> QED BY <1>2, <1>3

LEMMA LinkStep ==
    SessionInv /\ LinkInv /\ [BtleNext]_btleVars => LinkInv'
  <1> SUFFICES ASSUME SessionInv, LinkInv, [BtleNext]_btleVars
               PROVE  LinkInv'
    OBVIOUS
  <1> USE DEF SessionInv, BtleTypeOK, InUse, Counted, Stages, SessionsExclusive,
             RetiredNotReused, Attempting, Listening, Excused, Spent, AttemptsAwaited, OneLink,
             ReleasedIsGone, LinkOwned, Owned, LinkInv,
             processVars, transportVars, callerVars, osVars, pastVars
  <1>1. ASSUME NEW p \in Callers, Take(p)
        PROVE  LinkInv'
    BY <1>1 DEF Take, Others
  <1>2. ASSUME NEW p \in Callers, Open(p)
        PROVE  LinkInv'
    BY <1>2 DEF Open
  <1>3. ASSUME NEW p \in Callers, OpenFails(p)
        PROVE  LinkInv'
    BY <1>3 DEF OpenFails
  <1>4. ASSUME NEW p \in Callers, NotFound(p)
        PROVE  LinkInv'
    BY <1>4 DEF NotFound, Park, Finish
  <1>5. ASSUME NEW p \in Callers, PoweredOff(p)
        PROVE  LinkInv'
    BY <1>5 DEF PoweredOff, Finish
  <1>6. ASSUME NEW p \in Callers, Find(p)
        PROVE  LinkInv'
    BY <1>6 DEF Find
  <1>7. ASSUME NEW p \in Callers, Connected(p)
        PROVE  LinkInv'
    BY <1>7 DEF Connected
  <1>8. ASSUME NEW p \in Callers, ConnectFails(p)
        PROVE  LinkInv'
    BY <1>8 DEF ConnectFails
  <1>9. ASSUME NEW p \in Callers, Cancel(p)
        PROVE  LinkInv'
    <2>1. /\ session[p] \in Sessions
          /\ attempts' \subseteq attempts
          /\ holder' = holder \/ (holder = session[p] /\ holder' = 0)
          /\ \A r \in unreported' \ unreported :
                r \in Sessions /\ r = session[p] /\ holder = r /\ r \notin attempts' /\ holder' = 0
          /\ refused \subseteq refused'
          /\ session[p] \in refused' \/ (session[p] \notin attempts' /\ holder' # session[p])
      BY <1>9, Releasing DEF Cancel
    <2>2. Excused \subseteq Excused'
      BY <1>9, <2>1 DEF Cancel, Park, Finish
    <2>3. AttemptsAwaited'
      BY <1>9, <2>1, <2>2 DEF Cancel, Park, Finish
    <2>4. OneLink'
      <3>1. holder' \notin attempts'
        BY <1>9, <2>1, <2>2 DEF Cancel, Park, Finish
      <3>2. scanner' \in held' => scanner' \in Excused'
        BY <1>9, <2>1, <2>2 DEF Cancel, Park, Finish
      <3>3. \A q \in Callers : pc'[q] = "scan" /\ session'[q] \in held'
                              => session'[q] \in Excused'
        BY <1>9, <2>1, <2>2 DEF Cancel, Park, Finish
      <3>4. \A r \in unreported' : r \in Excused' \/ Spent(r)'
        BY <1>9, <2>1, <2>2, UnreportedSpent DEF Cancel, Park, Finish
      <3>5. \A q \in noticed' : session'[q] \in Excused' \/ Spent(session[q])'
        BY <1>9, <2>1, <2>2 DEF Cancel, Park, Finish
      <3> QED BY <3>1, <3>2, <3>3, <3>4, <3>5
    <2>5. ReleasedIsGone'
      BY <1>9, <2>1, <2>2 DEF Cancel, Park, Finish
    <2>6. LinkOwned'
      BY <1>9, <2>1, <2>2 DEF Cancel, Park, Finish
    <2> QED BY <2>3, <2>4, <2>5, <2>6
  <1>10. ASSUME NEW p \in Callers, Subscribed(p)
        PROVE  LinkInv'
    BY <1>10 DEF Subscribed, LinkDefault
  <1>11. ASSUME NEW p \in Callers, SubscribeFails(p)
        PROVE  LinkInv'
    BY <1>11 DEF SubscribeFails
  <1>12. ASSUME NEW p \in Callers, Abandon(p)
        PROVE  LinkInv'
    <2>1. /\ session[p] \in Sessions
          /\ attempts' \subseteq attempts
          /\ holder' = holder \/ (holder = session[p] /\ holder' = 0)
          /\ \A r \in unreported' \ unreported :
                r \in Sessions /\ r = session[p] /\ holder = r /\ r \notin attempts' /\ holder' = 0
          /\ refused \subseteq refused'
          /\ session[p] \in refused' \/ (session[p] \notin attempts' /\ holder' # session[p])
      BY <1>12, Releasing DEF Abandon
    <2>2. Excused \subseteq Excused'
      BY <1>12, <2>1 DEF Abandon, Finish
    <2>3. AttemptsAwaited'
      BY <1>12, <2>1, <2>2 DEF Abandon, Finish
    <2>4. OneLink'
      <3>1. holder' \notin attempts'
        BY <1>12, <2>1, <2>2 DEF Abandon, Finish
      <3>2. scanner' \in held' => scanner' \in Excused'
        BY <1>12, <2>1, <2>2 DEF Abandon, Finish
      <3>3. \A q \in Callers : pc'[q] = "scan" /\ session'[q] \in held'
                              => session'[q] \in Excused'
        BY <1>12, <2>1, <2>2 DEF Abandon, Finish
      <3>4. \A r \in unreported' : r \in Excused' \/ Spent(r)'
        BY <1>12, <2>1, <2>2, UnreportedSpent DEF Abandon, Finish
      <3>5. \A q \in noticed' : session'[q] \in Excused' \/ Spent(session[q])'
        BY <1>12, <2>1, <2>2 DEF Abandon, Finish
      <3> QED BY <3>1, <3>2, <3>3, <3>4, <3>5
    <2>5. ReleasedIsGone'
      BY <1>12, <2>1, <2>2 DEF Abandon, Finish
    <2>6. LinkOwned'
      BY <1>12, <2>1, <2>2 DEF Abandon, Finish
    <2> QED BY <2>3, <2>4, <2>5, <2>6
  <1>13. ASSUME NEW p \in Callers, PumpData(p)
        PROVE  LinkInv'
    BY <1>13 DEF PumpData, Pumping
  <1>14. ASSUME NEW p \in Callers, PumpStreamEnds(p)
        PROVE  LinkInv'
    BY <1>14 DEF PumpStreamEnds, Pumping
  <1>15. ASSUME NEW p \in Callers, PumpGone(p)
        PROVE  LinkInv'
    BY <1>15 DEF PumpGone, Pumping
  <1>16. ASSUME NEW p \in Callers, Read(p)
        PROVE  LinkInv'
    BY <1>16 DEF Read
  <1>17. ASSUME NEW p \in Callers, Disconnect(p)
        PROVE  LinkInv'
    <2>0. /\ session[p] \in Sessions
          /\ \/ Release(session[p])
             \/ /\ UNCHANGED <<attempts, holder, unreported, refused>>
                /\ closed[p] \/ released[p] \/ session[p] \in background'
      BY <1>17 DEF Disconnect
    <2>1. /\ attempts' \subseteq attempts
          /\ holder' = holder \/ (holder = session[p] /\ holder' = 0)
          /\ \A r \in unreported' \ unreported :
                r \in Sessions /\ r = session[p] /\ holder = r /\ r \notin attempts' /\ holder' = 0
          /\ refused \subseteq refused'
          /\ \/ session[p] \in refused'
             \/ session[p] \notin attempts' /\ holder' # session[p]
             \/ closed[p] \/ released[p] \/ session[p] \in background'
          /\ holder' = holder \/ (session[p] \notin attempts' /\ holder' # session[p])
      <3>1. CASE Release(session[p])
        BY <2>0, <3>1, Releasing
      <3>2. CASE /\ UNCHANGED <<attempts, holder, unreported, refused>>
                 /\ closed[p] \/ released[p] \/ session[p] \in background'
        BY <3>2
      <3> QED BY <2>0, <3>1, <3>2
    <2>2. Excused \subseteq Excused'
      BY <1>17, <2>0, <2>1 DEF Disconnect
    <2>3. AttemptsAwaited'
      BY <1>17, <2>0, <2>1, <2>2 DEF Disconnect
    <2>4. OneLink'
      <3>1. holder' \notin attempts'
        BY <1>17, <2>0, <2>1, <2>2 DEF Disconnect
      <3>2. scanner' \in held' => scanner' \in Excused'
        BY <1>17, <2>0, <2>1, <2>2 DEF Disconnect
      <3>3. \A q \in Callers : pc'[q] = "scan" /\ session'[q] \in held'
                              => session'[q] \in Excused'
        BY <1>17, <2>0, <2>1, <2>2 DEF Disconnect
      <3>4. \A r \in unreported' : r \in Excused' \/ Spent(r)'
        BY <1>17, <2>0, <2>1, <2>2, UnreportedSpent DEF Disconnect
      <3>5. \A q \in noticed' : session'[q] \in Excused' \/ Spent(session[q])'
        BY <1>17, <2>0, <2>1, <2>2 DEF Disconnect
      <3> QED BY <3>1, <3>2, <3>3, <3>4, <3>5
    <2>5. ReleasedIsGone'
      BY <1>17, <2>0, <2>1, <2>2 DEF Disconnect
    <2>6. LinkOwned'
      BY <1>17, <2>0, <2>1, <2>2 DEF Disconnect
    <2> QED BY <2>3, <2>4, <2>5, <2>6
  <1>18. ASSUME NEW p \in Callers, Drop(p)
        PROVE  LinkInv'
    <2>0. /\ session[p] \in Sessions
          /\ \/ Release(session[p])
             \/ /\ UNCHANGED <<attempts, holder, unreported, refused>>
                /\ closed[p] \/ released[p] \/ session[p] \in background'
      BY <1>18 DEF Drop
    <2>1. /\ attempts' \subseteq attempts
          /\ holder' = holder \/ (holder = session[p] /\ holder' = 0)
          /\ \A r \in unreported' \ unreported :
                r \in Sessions /\ r = session[p] /\ holder = r /\ r \notin attempts' /\ holder' = 0
          /\ refused \subseteq refused'
          /\ \/ session[p] \in refused'
             \/ session[p] \notin attempts' /\ holder' # session[p]
             \/ closed[p] \/ released[p] \/ session[p] \in background'
          /\ holder' = holder \/ (session[p] \notin attempts' /\ holder' # session[p])
      <3>1. CASE Release(session[p])
        BY <2>0, <3>1, Releasing
      <3>2. CASE /\ UNCHANGED <<attempts, holder, unreported, refused>>
                 /\ closed[p] \/ released[p] \/ session[p] \in background'
        BY <3>2
      <3> QED BY <2>0, <3>1, <3>2
    <2>2. Excused \subseteq Excused'
      BY <1>18, <2>0, <2>1 DEF Drop, Finish, LinkDefault
    <2>3. AttemptsAwaited'
      BY <1>18, <2>0, <2>1, <2>2 DEF Drop, Finish, LinkDefault
    <2>4. OneLink'
      <3>1. holder' \notin attempts'
        BY <1>18, <2>0, <2>1, <2>2 DEF Drop, Finish, LinkDefault
      <3>2. scanner' \in held' => scanner' \in Excused'
        BY <1>18, <2>0, <2>1, <2>2 DEF Drop, Finish, LinkDefault
      <3>3. \A q \in Callers : pc'[q] = "scan" /\ session'[q] \in held'
                              => session'[q] \in Excused'
        BY <1>18, <2>0, <2>1, <2>2 DEF Drop, Finish, LinkDefault
      <3>4. \A r \in unreported' : r \in Excused' \/ Spent(r)'
        BY <1>18, <2>0, <2>1, <2>2, UnreportedSpent DEF Drop, Finish, LinkDefault
      <3>5. \A q \in noticed' : session'[q] \in Excused' \/ Spent(session[q])'
        BY <1>18, <2>0, <2>1, <2>2 DEF Drop, Finish, LinkDefault
      <3> QED BY <3>1, <3>2, <3>3, <3>4, <3>5
    <2>5. ReleasedIsGone'
      BY <1>18, <2>0, <2>1, <2>2 DEF Drop, Finish, LinkDefault
    <2>6. LinkOwned'
      BY <1>18, <2>0, <2>1, <2>2 DEF Drop, Finish, LinkDefault
    <2> QED BY <2>3, <2>4, <2>5, <2>6
  <1>19. ASSUME NEW s \in Sessions, LinkMade(s)
        PROVE  LinkInv'
    BY <1>19 DEF LinkMade, Awaited
  <1>20. ASSUME NEW s \in Sessions, LossReported(s)
        PROVE  LinkInv'
    BY <1>20 DEF LossReported
  <1>21. ASSUME NEW s \in Sessions, ReleaseLater(s)
        PROVE  LinkInv'
    <2>1. /\ attempts' \subseteq attempts
          /\ holder' = holder \/ (holder = s /\ holder' = 0)
          /\ \A r \in unreported' \ unreported :
                r \in Sessions /\ r = s /\ holder = r /\ r \notin attempts' /\ holder' = 0
          /\ refused \subseteq refused'
          /\ s \in refused' \/ (s \notin attempts' /\ holder' # s)
      BY <1>21, Releasing DEF ReleaseLater
    <2>2. Excused \subseteq Excused'
      BY <1>21, <2>1 DEF ReleaseLater
    <2>3. AttemptsAwaited'
      BY <1>21, <2>1, <2>2 DEF ReleaseLater
    <2>4. OneLink'
      <3>1. holder' \notin attempts'
        BY <1>21, <2>1, <2>2 DEF ReleaseLater
      <3>2. scanner' \in held' => scanner' \in Excused'
        BY <1>21, <2>1, <2>2 DEF ReleaseLater
      <3>3. \A q \in Callers : pc'[q] = "scan" /\ session'[q] \in held'
                              => session'[q] \in Excused'
        BY <1>21, <2>1, <2>2 DEF ReleaseLater
      <3>4. \A r \in unreported' : r \in Excused' \/ Spent(r)'
        BY <1>21, <2>1, <2>2, UnreportedSpent DEF ReleaseLater
      <3>5. \A q \in noticed' : session'[q] \in Excused' \/ Spent(session[q])'
        BY <1>21, <2>1, <2>2 DEF ReleaseLater
      <3> QED BY <3>1, <3>2, <3>3, <3>4, <3>5
    <2>5. ReleasedIsGone'
      BY <1>21, <2>1, <2>2 DEF ReleaseLater
    <2>6. LinkOwned'
      BY <1>21, <2>1, <2>2 DEF ReleaseLater
    <2> QED BY <2>3, <2>4, <2>5, <2>6
  <1>22. CASE LinkLost
    <2>1. AttemptsAwaited'
      BY <1>22 DEF LinkLost
    <2>2. OneLink'
      BY <1>22 DEF LinkLost
    <2>3. ReleasedIsGone'
      BY <1>22 DEF LinkLost
    <2>4. LinkOwned'
      BY <1>22 DEF LinkLost
    <2> QED BY <2>1, <2>2, <2>3, <2>4
  <1>23. CASE UNCHANGED btleVars
    BY <1>23 DEF btleVars
  <1> QED BY <1>1, <1>2, <1>3, <1>4, <1>5, <1>6, <1>7, <1>8, <1>9, <1>10, <1>11, <1>12,
            <1>13, <1>14, <1>15, <1>16, <1>17, <1>18, <1>19, <1>20, <1>21, <1>22, <1>23
         DEF BtleNext, Attempt, Transport

-----------------------------------------------------------------------------
(* The number of sessions. *)
LEMMA PoweredStep ==
    ASSUME SessionInv, SessionInv', PoweredNotReused, [BtleNext]_btleVars
    PROVE  PoweredNotReused'
  <1>0. BtleTypeOK /\ InUse /\ SessionsExclusive /\ Counted /\ 0 \notin poweredOff
    BY DEF SessionInv, BtleTypeOK
  <1>1. ASSUME NEW p \in Callers, Take(p)
        PROVE  PoweredNotReused'
    BY <1>0, <1>1 DEF Take, PoweredNotReused, BtleTypeOK
  <1>2. ASSUME NEW p \in Callers, Open(p)
        PROVE  PoweredNotReused'
    <2>1. /\ pc' = [pc EXCEPT ![p] = "scan"] /\ session' = [session EXCEPT ![p] = opened + 1]
          /\ opened' = opened + 1 /\ UNCHANGED <<scanner, poweredOff>>
      BY <1>2 DEF Open, pastVars
    <2>2. opened \in Nat /\ poweredOff \subseteq Nat
      BY <1>0 DEF BtleTypeOK
    <2>3. \A s \in poweredOff : s <= opened' /\ s # opened + 1
      BY <2>1, <2>2 DEF PoweredNotReused
    <2> QED BY <1>0, <2>1, <2>3 DEF PoweredNotReused, BtleTypeOK
  <1>3. ASSUME NEW p \in Callers, NotFound(p) \/ Cancel(p)
        PROVE  PoweredNotReused'
    <2>1. /\ pc[p] \in {"scan", "cancel"} /\ pc' = [pc EXCEPT ![p] = "idle"]
          /\ session' = [session EXCEPT ![p] = 0]
          /\ scanner' \in {scanner, session[p]}
          /\ UNCHANGED <<opened, poweredOff>>
      BY <1>3 DEF NotFound, Cancel, Park, Finish
    <2> QED BY <1>0, <2>1 DEF PoweredNotReused, BtleTypeOK
  <1>4. ASSUME NEW p \in Callers, PoweredOff(p)
        PROVE  PoweredNotReused'
    <2>1. session[p] # 0 /\ session[p] # scanner /\ session[p] <= opened
      BY <1>0, <1>4 DEF PoweredOff, InUse, SessionsExclusive, Counted
    <2>2. \A q \in Callers : session[q] = session[p] => q = p
      BY <1>0, <2>1 DEF SessionsExclusive
    <2> QED BY <1>0, <1>4, <2>1, <2>2
            DEF PoweredOff, Finish, PoweredNotReused, BtleTypeOK, processVars
  <1>5. ASSUME NEW p \in Callers,
               \/ OpenFails(p) \/ Find(p) \/ Connected(p) \/ ConnectFails(p)
               \/ Subscribed(p) \/ SubscribeFails(p) \/ Abandon(p) \/ Transport(p)
        PROVE  PoweredNotReused'
    <2>1. UNCHANGED <<scanner, opened, poweredOff>>
      BY <1>5 DEF OpenFails, Find, Connected, ConnectFails, Subscribed, SubscribeFails, Abandon,
                  Transport, PumpData, PumpStreamEnds, PumpGone, Read, Disconnect, Drop,
                  processVars, pastVars
    <2>2. \A q \in Callers : pc'[q] \in {"scan", "connect", "cancel"} =>
              pc[q] \in {"scan", "connect", "cancel"} /\ session'[q] = session[q]
      BY <1>0, <1>5
         DEF OpenFails, Find, Connected, ConnectFails, Subscribed, SubscribeFails, Abandon,
             Transport, PumpData, PumpStreamEnds, PumpGone, Read, Disconnect, Drop, Finish,
             BtleTypeOK
    <2> QED BY <2>1, <2>2 DEF PoweredNotReused
  <1>6. ASSUME \/ \E s \in Sessions : LinkMade(s) \/ LossReported(s) \/ ReleaseLater(s)
               \/ LinkLost \/ UNCHANGED btleVars
        PROVE  PoweredNotReused'
    <2>1. UNCHANGED <<scanner, opened, pc, session, poweredOff>>
      BY <1>6 DEF LinkMade, LossReported, ReleaseLater, LinkLost, btleVars, processVars,
                  callerVars, pastVars
    <2> QED BY <2>1 DEF PoweredNotReused
  <1> QED BY <1>1, <1>2, <1>3, <1>4, <1>5, <1>6 DEF BtleNext, Attempt

LEMMA Finite ==
    ASSUME BtleTypeOK
    PROVE  /\ IsFiniteSet(Opening) /\ Cardinality(Opening) \in Nat
           /\ IsFiniteSet(Used) /\ Cardinality(Used) \in Nat
  <1>1. IsFiniteSet(Opening)
    BY CallersFinite, FS_Subset DEF Opening
  <1>2. IsFiniteSet(1..MaxOpened) /\ Used \subseteq 1..MaxOpened
    BY FS_Interval DEF BtleTypeOK, Used
  <1>3. IsFiniteSet(Used)
    BY <1>2, FS_Subset
  <1> QED BY <1>1, <1>3, FS_CardinalityType

\* A step that uses up a session.
LEMMA UsesUp ==
    ASSUME BtleTypeOK, NEW s, s \notin Used, Used' = Used \cup {s},
           Opening' = Opening, UNCHANGED <<opened, overlaps>>, Budget
    PROVE  Budget'
  <1>1. Cardinality(Used') = Cardinality(Used) + 1
    BY Finite, FS_AddElement
  <1>2. Cardinality(Opening') = Cardinality(Opening)
    OBVIOUS
  <1>3. Cardinality(Used) \in Nat /\ Cardinality(Opening) \in Nat /\ opened \in Nat
        /\ overlaps \in Nat
    BY Finite DEF BtleTypeOK
  <1> QED BY <1>1, <1>2, <1>3 DEF Budget

\* A step that leaves a session to spare, or takes none away.
LEMMA KeepsSpare ==
    ASSUME BtleTypeOK, Used' = Used, Opening' = Opening, UNCHANGED <<opened, overlaps>>,
           Spare => Spare', Budget
    PROVE  Budget'
  <1>1. Cardinality(Used) \in Nat /\ Cardinality(Opening) \in Nat /\ opened \in Nat
        /\ overlaps \in Nat
    BY Finite DEF BtleTypeOK
  <1>2. Cardinality(Opening') = Cardinality(Opening) /\ Cardinality(Used') = Cardinality(Used)
    OBVIOUS
  <1> QED BY <1>1, <1>2 DEF Budget

LEMMA BudgetStep ==
    ASSUME SessionInv, PoweredNotReused, Budget, [BtleNext]_btleVars
    PROVE  Budget'
  <1>0. /\ BtleTypeOK /\ InUse /\ RetiredNotReused
        /\ IsFiniteSet(Opening) /\ Cardinality(Opening) \in Nat
        /\ Cardinality(Used) \in Nat /\ opened \in Nat /\ overlaps \in 0..MaxOpened
    BY Finite DEF SessionInv, BtleTypeOK
  <1>1. ASSUME NEW p \in Callers, Take(p)
        PROVE  Budget'
    <2>1. UNCHANGED <<opened, retired, poweredOff>> /\ Cardinality(Used') = Cardinality(Used)
      BY <1>1 DEF Take, Used
    <2>2. CASE scanner # 0
      <3>1. pc' = [pc EXCEPT ![p] = "scan"] /\ UNCHANGED overlaps /\ pc[p] = "idle"
        BY <1>1, <2>2 DEF Take
      <3>2. Opening' = Opening /\ Spare'
        BY <1>0, <3>1 DEF Opening, Spare, Searching, BtleTypeOK
      <3>3. Used' = Used
        BY <2>1 DEF Used
      <3> QED BY <1>0, <2>1, <3>1, <3>2, <3>3, KeepsSpare
    <2>3. CASE scanner = 0
      <3>1. /\ pc' = [pc EXCEPT ![p] = "open"] /\ pc[p] = "idle" /\ UNCHANGED scanner
            /\ overlaps' = IF Others(p) # {} /\ overlaps < MaxOpened
                           THEN overlaps + 1 ELSE overlaps
        BY <1>1, <2>3 DEF Take
      <3>2. Opening' = Opening \cup {p} /\ p \notin Opening /\ Spare'
        BY <1>0, <3>1 DEF Opening, Spare, Searching, BtleTypeOK
      <3>3. Cardinality(Opening') = Cardinality(Opening) + 1
        BY <1>0, <3>2, FS_AddElement
      <3>4. CASE Others(p) = {}
        <4>1. ~Spare
          BY <2>3, <3>1, <3>4 DEF Others, Attempting, Spare, Searching
        <4> QED BY <1>0, <2>1, <3>1, <3>2, <3>3, <3>4, <4>1 DEF Budget
      <3>5. CASE Others(p) # {}
        BY <1>0, <2>1, <3>1, <3>2, <3>3, <3>5 DEF Budget
      <3> QED BY <3>4, <3>5
    <2> QED BY <2>2, <2>3
  <1>2. ASSUME NEW p \in Callers, Open(p) \/ OpenFails(p)
        PROVE  Budget'
    <2>1. /\ pc[p] = "open" /\ UNCHANGED <<overlaps, retired, poweredOff>>
          /\ \/ pc' = [pc EXCEPT ![p] = "scan"] /\ opened' = opened + 1
             \/ pc' = [pc EXCEPT ![p] = "idle"] /\ opened' = opened
      BY <1>2 DEF Open, OpenFails, processVars, pastVars
    <2>2. Opening' = Opening \ {p} /\ p \in Opening
      BY <1>0, <2>1 DEF Opening, BtleTypeOK
    <2>3. Cardinality(Opening') = Cardinality(Opening) - 1
      BY <1>0, <2>2, FS_RemoveElement
    <2>4. Spare /\ (opened' = opened + 1 => Spare')
      BY <1>0, <2>1 DEF Spare, Searching, BtleTypeOK
    <2>5. Cardinality(Used') = Cardinality(Used)
      BY <2>1 DEF Used
    <2> QED BY <1>0, <2>1, <2>3, <2>4, <2>5 DEF Budget
  <1>3. ASSUME NEW p \in Callers, NotFound(p) \/ Cancel(p)
        PROVE  Budget'
    <2>1. /\ pc[p] \in {"scan", "cancel"} /\ pc' = [pc EXCEPT ![p] = "idle"]
          /\ scanner' = IF scanner = 0 THEN session[p] ELSE scanner
          /\ UNCHANGED <<opened, overlaps, retired, poweredOff>>
      BY <1>3 DEF NotFound, Cancel, Park, Finish
    <2>2. Spare'
      BY <1>0, <2>1 DEF InUse, Spare
    <2>3. Opening' = Opening /\ Used' = Used
      BY <1>0, <2>1 DEF Opening, Used, BtleTypeOK
    <2> QED BY <1>0, <2>1, <2>2, <2>3, KeepsSpare
  <1>4. ASSUME NEW p \in Callers, PoweredOff(p) \/ Connected(p)
        PROVE  Budget'
    <2>1. /\ pc[p] \in {"scan", "connect"} /\ pc' \in {[pc EXCEPT ![p] = "idle"],
                                                       [pc EXCEPT ![p] = "subscribe"]}
          /\ Used' = Used \cup {session[p]}
          /\ UNCHANGED <<opened, overlaps>>
      BY <1>4 DEF PoweredOff, Connected, Finish, Used, processVars
    <2>2. session[p] \notin Used
      BY <1>0, <2>1 DEF RetiredNotReused, PoweredNotReused, Used
    <2>3. Opening' = Opening
      BY <1>0, <2>1 DEF Opening, BtleTypeOK
    <2> QED BY <1>0, <2>1, <2>2, <2>3, UsesUp
  <1>5. ASSUME NEW p \in Callers,
               \/ Find(p) \/ ConnectFails(p) \/ Subscribed(p) \/ SubscribeFails(p) \/ Abandon(p)
               \/ Transport(p)
        PROVE  Budget'
    <2>1. UNCHANGED <<scanner, opened, overlaps, retired, poweredOff>>
      BY <1>5 DEF Find, ConnectFails, Subscribed, SubscribeFails, Abandon, Transport, PumpData,
                  PumpStreamEnds, PumpGone, Read, Disconnect, Drop, processVars, pastVars
    <2>2. \A q \in Callers : /\ pc'[q] = "open" <=> pc[q] = "open"
                             /\ pc[q] \in Searching => pc'[q] \in Searching
      BY <1>0, <1>5
         DEF Find, ConnectFails, Subscribed, SubscribeFails, Abandon, Transport, PumpData,
             PumpStreamEnds, PumpGone, Read, Disconnect, Drop, Finish, BtleTypeOK, Searching
    <2>3. Opening' = Opening /\ Used' = Used /\ (Spare => Spare')
      BY <2>1, <2>2 DEF Opening, Used, Spare
    <2> QED BY <1>0, <2>1, <2>3, KeepsSpare
  <1>6. ASSUME \/ \E s \in Sessions : LinkMade(s) \/ LossReported(s) \/ ReleaseLater(s)
               \/ LinkLost \/ UNCHANGED btleVars
        PROVE  Budget'
    <2>1. UNCHANGED <<scanner, opened, pc, overlaps, retired, poweredOff>>
      BY <1>6 DEF LinkMade, LossReported, ReleaseLater, LinkLost, btleVars, processVars,
                  callerVars, pastVars
    <2>2. Opening' = Opening /\ Used' = Used /\ (Spare => Spare')
      BY <2>1 DEF Opening, Used, Spare
    <2> QED BY <1>0, <2>1, <2>2, KeepsSpare
  <1> QED BY <1>1, <1>2, <1>3, <1>4, <1>5, <1>6 DEF BtleNext, Attempt

-----------------------------------------------------------------------------
LEMMA SessionsInvariant == BtleSpec => []SessionInv
  <1>1. BtleInit => SessionInv
    BY DEF BtleInit, SessionInv, BtleTypeOK, InUse, Counted, Stages, SessionsExclusive,
           RetiredNotReused
  <1>2. SessionInv /\ [BtleNext]_btleVars => SessionInv'
    BY BtleTypeStep, SessionStep DEF SessionInv
  <1> QED BY <1>1, <1>2, PTL DEF BtleSpec

LEMMA LinksInvariant == BtleSpec => []LinkInv
  <1>1. BtleInit => LinkInv
    BY DEF BtleInit, LinkInv, AttemptsAwaited, OneLink, ReleasedIsGone, LinkOwned
  <1>2. SessionInv /\ LinkInv /\ [BtleNext]_btleVars => LinkInv'
    BY LinkStep
  <1> QED BY <1>1, <1>2, SessionsInvariant, PTL DEF BtleSpec

\* Every variable of the transport keeps its type (btleplug_transport.rs).
THEOREM BtleTypeCorrect == BtleSpec => []BtleTypeOK
  <1>1. SessionInv => BtleTypeOK
    BY DEF SessionInv
  <1> QED BY <1>1, SessionsInvariant, PTL

\* However many threads connect at once, no two use a session, and none uses one
\* that is in the slot (btleplug_transport.rs, take_scanner and park).
THEOREM NeverShared == BtleSpec => []SessionsExclusive
  <1>1. SessionInv => SessionsExclusive
    BY DEF SessionInv
  <1> QED BY <1>1, SessionsInvariant, PTL

\* A session is not used again once its connect succeeded (btleplug_transport.rs,
\* connect and the module's Lifecycle notes).
THEOREM NeverReused == BtleSpec => []RetiredNotReused
  <1>1. SessionInv => RetiredNotReused
    BY DEF SessionInv
  <1> QED BY <1>1, SessionsInvariant, PTL

\* No link is left that nobody will end (btleplug_transport.rs, connect 287-289
\* and Drop).
THEOREM NoLinkLeft == BtleSpec => []LinkOwned
  <1>1. LinkInv => LinkOwned
    BY DEF LinkInv
  <1> QED BY <1>1, LinksInvariant, PTL

\* Reconnecting for ever costs one session for each connection and each time Bluetooth
\* was off; more is only taken by attempts that overlap (btleplug_transport.rs,
\* take_scanner and park).
THEOREM SessionsAreBounded == BtleSpec => []SessionsBounded
  <1> DEFINE BudgetInv == PoweredNotReused /\ Budget
  <1>1. BtleInit => BudgetInv
    <2> SUFFICES ASSUME BtleInit PROVE BudgetInv
      OBVIOUS
    <2>1. Opening = {} /\ Used = {} /\ opened = 0 /\ overlaps = 0 /\ ~Spare
      BY DEF BtleInit, Opening, Used, Spare, Searching
    <2>2. Cardinality({}) = 0
      BY FS_EmptySet
    <2> QED BY <2>1, <2>2 DEF BtleInit, PoweredNotReused, Budget
  <1>2. SessionInv /\ SessionInv' /\ BudgetInv /\ [BtleNext]_btleVars => BudgetInv'
    BY PoweredStep, BudgetStep
  <1>3. SessionInv /\ BudgetInv => SessionsBounded
    <2> SUFFICES ASSUME SessionInv, BudgetInv PROVE SessionsBounded
      OBVIOUS
    <2>1. /\ Cardinality(Opening) \in Nat /\ Cardinality(Used) \in Nat
          /\ opened \in 0..MaxOpened /\ overlaps \in 0..MaxOpened
      BY Finite DEF SessionInv, BtleTypeOK
    <2> QED BY <2>1 DEF Budget, SessionsBounded, Used
  <1> HIDE DEF BudgetInv
  <1> QED BY <1>1, <1>2, <1>3, SessionsInvariant, PTL DEF BtleSpec
=============================================================================
