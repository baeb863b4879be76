------------------------ MODULE TrackerSessionProofs ------------------------
(***************************************************************************)
(* Theorems about TrackerSession, for every set of segments and with or    *)
(* without an API key.                                                     *)
(*                                                                         *)
(* The invariant comes in three parts, each inductive relative to those    *)
(* before it: types, control (timers, socket and stage) and reports.       *)
(***************************************************************************)
EXTENDS TrackerSession, TLAPS

\* A client is started only while run is active, and can refresh its session.
Active ==
  /\ started => stage \in {"starting", "running"} /\ joinRequest
  /\ stage = "starting" => started
  /\ signalled => ~started
  /\ stage = "joining" => ~started /\ ~refresh /\ socket = "none"
  /\ leaving # "none" => stage = "leaving"

\* There is one socket or a timer that opens the next, and the tracker knows
\* nothing of a socket that is not there yet.
OneSocket ==
  /\ reconnect => socket = "none"
  /\ socket \in {"none", "connecting"} => ~subscribed /\ ~wireSub
  /\ wireSub => ~subscribed

Control == Active /\ OneSocket /\ NeverStranded /\ StoppedIsSilent

\* Until the tracker has seen the subscription, all that was reported over this
\* socket is still on the way.
OnTheWay ==
  socket = "open" /\ wireSub =>
    \A s \in touched : IF s \in reported THEN s \in wireAdd ELSE s \in wireDel \ wireAdd

Reports == OnTheWay /\ ReportsArrive /\ (kept => registered)

-----------------------------------------------------------------------------
(* Initially *)

\* SessionInit has the right types.
LEMMA InitTyped == SessionInit => SessionTypeOK
BY DEF SessionInit, SessionTypeOK, ClientTyped, LinkTyped, TrackerTyped

\* Initially nothing is started, connected or reported.
LEMMA InitControlled == SessionInit => Control /\ Reports
BY DEF SessionInit, Control, Active, OneSocket, NeverStranded, StoppedIsSilent, Reports, OnTheWay,
       ReportsArrive

-----------------------------------------------------------------------------
(* Every step *)

\* Every handler, of client and tracker, keeps the types of the client's variables.
LEMMA ClientTypePreserved ==
  ASSUME SessionTypeOK, [SessionNext]_sessionVars
  PROVE  ClientTyped'
<1> USE DEF SessionTypeOK, ClientTyped, LinkTyped, TrackerTyped, client, requests, link, wire,
            tracker, history
<1>1. CASE Connected
  BY <1>1 DEF Connected, Report, Following, Remember
<1>2. CASE Closed
  BY <1>2 DEF Closed, ScheduleReconnect, WireCut
<1>3. CASE Finished
  BY <1>3 DEF Finished, WireCut
<1>4. CASE ReconnectDue
  BY <1>4 DEF ReconnectDue, OpenSocket
<1>5. CASE ReportDue
  BY <1>5 DEF ReportDue, Report, Following, Remember
<1>6. CASE Fetched
  BY <1>6 DEF Fetched, Report, Following, Remember
<1>7. CASE \E s \in Reportable : CacheChanges(s)
  BY <1>7 DEF CacheChanges
<1>8. CASE PeersArrive
  BY <1>8 DEF PeersArrive, Heeds
<1>9. CASE Joined
  BY <1>9 DEF Joined, OpenSocket, StopClient
<1>10. CASE JoinFails
  BY <1>10 DEF JoinFails, Retry
<1>11. CASE RefreshDue
  BY <1>11, ZenonT(40) DEF RefreshDue
<1>12. CASE Expire
  BY <1>12 DEF Expire
<1>13. CASE StartupTimeout
  BY <1>13 DEF StartupTimeout, StopClient
<1>14. CASE Signal
  BY <1>14 DEF Signal, StopClient
<1>15. CASE Unwind
  BY <1>15 DEF Unwind
<1>16. CASE Shutdown
  BY <1>16 DEF Shutdown, StopClient
<1>17. CASE Left
  BY <1>17 DEF Left
<1>18. CASE TrackerJoins
  BY <1>18 DEF TrackerJoins, Admit
<1>19. CASE OrphanJoins
  BY <1>19 DEF OrphanJoins, Admit
<1>20. CASE TrackerLeaves
  BY <1>20 DEF TrackerLeaves, Drop
<1>21. CASE Subscribe
  BY <1>21 DEF Subscribe
<1>22. CASE Heartbeat
  BY <1>22 DEF Heartbeat, Welcome
<1>23. CASE ReportSegments
  BY <1>23 DEF ReportSegments, Welcome
<1>24. CASE Announce
  BY <1>24 DEF Announce
<1>25. CASE Age
  BY <1>25 DEF Age
<1>26. CASE Sweep
  BY <1>26 DEF Sweep, Overdue, Drop
<1>27. CASE UNCHANGED sessionVars
  BY <1>27 DEF sessionVars
<1>28. QED
  BY <1>1, <1>2, <1>3, <1>4, <1>5, <1>6, <1>7, <1>8, <1>9, <1>10, <1>11, <1>12,
     <1>13, <1>14, <1>15, <1>16, <1>17, <1>18, <1>19, <1>20, <1>21, <1>22, <1>23,
     <1>24, <1>25, <1>26, <1>27 DEF SessionNext

\* No handler puts anything else on a socket.
LEMMA LinkTypePreserved ==
  ASSUME SessionTypeOK, [SessionNext]_sessionVars
  PROVE  LinkTyped'
<1> USE DEF SessionTypeOK, ClientTyped, LinkTyped, TrackerTyped, client, requests, link, wire,
            tracker, history
<1>1. CASE Connected
  BY <1>1 DEF Connected, Report, Following, Remember
<1>2. CASE Closed
  BY <1>2 DEF Closed, ScheduleReconnect, WireCut
<1>3. CASE Finished
  BY <1>3 DEF Finished, WireCut
<1>4. CASE ReconnectDue
  BY <1>4 DEF ReconnectDue, OpenSocket
<1>5. CASE ReportDue
  BY <1>5 DEF ReportDue, Report, Following, Remember
<1>6. CASE Fetched
  BY <1>6 DEF Fetched, Report, Following, Remember
<1>7. CASE \E s \in Reportable : CacheChanges(s)
  BY <1>7 DEF CacheChanges
<1>8. CASE PeersArrive
  BY <1>8 DEF PeersArrive, Heeds
<1>9. CASE Joined
  BY <1>9 DEF Joined, OpenSocket, StopClient
<1>10. CASE JoinFails
  BY <1>10 DEF JoinFails, Retry
<1>11. CASE RefreshDue
  BY <1>11 DEF RefreshDue
<1>12. CASE Expire
  BY <1>12 DEF Expire
<1>13. CASE StartupTimeout
  BY <1>13 DEF StartupTimeout, StopClient
<1>14. CASE Signal
  BY <1>14 DEF Signal, StopClient
<1>15. CASE Unwind
  BY <1>15 DEF Unwind
<1>16. CASE Shutdown
  BY <1>16 DEF Shutdown, StopClient
<1>17. CASE Left
  BY <1>17 DEF Left
<1>18. CASE TrackerJoins
  BY <1>18 DEF TrackerJoins, Admit
<1>19. CASE OrphanJoins
  BY <1>19 DEF OrphanJoins, Admit
<1>20. CASE TrackerLeaves
  BY <1>20 DEF TrackerLeaves, Drop
<1>21. CASE Subscribe
  BY <1>21 DEF Subscribe
<1>22. CASE Heartbeat
  BY <1>22 DEF Heartbeat, Welcome
<1>23. CASE ReportSegments
  BY <1>23 DEF ReportSegments, Welcome
<1>24. CASE Announce
  BY <1>24 DEF Announce
<1>25. CASE Age
  BY <1>25 DEF Age
<1>26. CASE Sweep
  BY <1>26 DEF Sweep, Overdue, Drop
<1>27. CASE UNCHANGED sessionVars
  BY <1>27 DEF sessionVars
<1>28. QED
  BY <1>1, <1>2, <1>3, <1>4, <1>5, <1>6, <1>7, <1>8, <1>9, <1>10, <1>11, <1>12,
     <1>13, <1>14, <1>15, <1>16, <1>17, <1>18, <1>19, <1>20, <1>21, <1>22, <1>23,
     <1>24, <1>25, <1>26, <1>27 DEF SessionNext

\* Nor does any give requests, tracker or history another type.
LEMMA TrackerTypePreserved ==
  ASSUME SessionTypeOK, [SessionNext]_sessionVars
  PROVE  TrackerTyped'
<1> USE DEF SessionTypeOK, ClientTyped, LinkTyped, TrackerTyped, client, requests, link, wire,
            tracker, history
<1>1. CASE Connected
  BY <1>1 DEF Connected, Report, Following, Remember
<1>2. CASE Closed
  BY <1>2 DEF Closed, ScheduleReconnect, WireCut
<1>3. CASE Finished
  BY <1>3 DEF Finished, WireCut
<1>4. CASE ReconnectDue
  BY <1>4 DEF ReconnectDue, OpenSocket
<1>5. CASE ReportDue
  BY <1>5 DEF ReportDue, Report, Following, Remember
<1>6. CASE Fetched
  BY <1>6 DEF Fetched, Report, Following, Remember
<1>7. CASE \E s \in Reportable : CacheChanges(s)
  BY <1>7 DEF CacheChanges
<1>8. CASE PeersArrive
  BY <1>8 DEF PeersArrive, Heeds
<1>9. CASE Joined
  BY <1>9 DEF Joined, OpenSocket, StopClient
<1>10. CASE JoinFails
  BY <1>10 DEF JoinFails, Retry
<1>11. CASE RefreshDue
  BY <1>11 DEF RefreshDue
<1>12. CASE Expire
  BY <1>12 DEF Expire
<1>13. CASE StartupTimeout
  BY <1>13 DEF StartupTimeout, StopClient
<1>14. CASE Signal
  BY <1>14 DEF Signal, StopClient
<1>15. CASE Unwind
  BY <1>15 DEF Unwind
<1>16. CASE Shutdown
  BY <1>16 DEF Shutdown, StopClient
<1>17. CASE Left
  BY <1>17 DEF Left
<1>18. CASE TrackerJoins
  BY <1>18 DEF TrackerJoins, Admit
<1>19. CASE OrphanJoins
  BY <1>19 DEF OrphanJoins, Admit
<1>20. CASE TrackerLeaves
  BY <1>20 DEF TrackerLeaves, Drop
<1>21. CASE Subscribe
  BY <1>21 DEF Subscribe
<1>22. CASE Heartbeat
  BY <1>22 DEF Heartbeat, Welcome
<1>23. CASE ReportSegments
  BY <1>23 DEF ReportSegments, Welcome
<1>24. CASE Announce
  BY <1>24 DEF Announce
<1>25. CASE Age
  BY <1>25 DEF Age
<1>26. CASE Sweep
  BY <1>26 DEF Sweep, Overdue, Drop
<1>27. CASE UNCHANGED sessionVars
  BY <1>27 DEF sessionVars
<1>28. QED
  BY <1>1, <1>2, <1>3, <1>4, <1>5, <1>6, <1>7, <1>8, <1>9, <1>10, <1>11, <1>12,
     <1>13, <1>14, <1>15, <1>16, <1>17, <1>18, <1>19, <1>20, <1>21, <1>22, <1>23,
     <1>24, <1>25, <1>26, <1>27 DEF SessionNext

\* Together: every handler keeps all types.
LEMMA TypePreserved ==
  ASSUME SessionTypeOK, [SessionNext]_sessionVars
  PROVE  SessionTypeOK'
BY ClientTypePreserved, LinkTypePreserved, TrackerTypePreserved DEF SessionTypeOK

\* Every handler leaves a started client with a socket, a session or the timers
\* to get them, and a stopped one with none.
LEMMA ControlPreserved ==
  ASSUME SessionTypeOK, Control, [SessionNext]_sessionVars
  PROVE  Control'
<1> USE DEF SessionTypeOK, ClientTyped, LinkTyped, TrackerTyped, Control, Active, OneSocket,
            NeverStranded, StoppedIsSilent, client, requests, link, wire, tracker, history
<1>1. CASE Connected
  BY <1>1 DEF Connected, Report, Following, Remember
<1>2. CASE Closed
  BY <1>2 DEF Closed, ScheduleReconnect, WireCut
<1>3. CASE Finished
  BY <1>3 DEF Finished, WireCut
<1>4. CASE ReconnectDue
  BY <1>4 DEF ReconnectDue, OpenSocket
<1>5. CASE ReportDue
  BY <1>5 DEF ReportDue, Report, Following, Remember
<1>6. CASE Fetched
  BY <1>6 DEF Fetched, Report, Following, Remember
<1>7. CASE \E s \in Reportable : CacheChanges(s)
  BY <1>7 DEF CacheChanges
<1>8. CASE PeersArrive
  BY <1>8 DEF PeersArrive, Heeds
<1>9. CASE Joined
  BY <1>9 DEF Joined, OpenSocket, StopClient
<1>10. CASE JoinFails
  BY <1>10 DEF JoinFails, Retry
<1>11. CASE RefreshDue
  BY <1>11 DEF RefreshDue
<1>12. CASE Expire
  BY <1>12 DEF Expire
<1>13. CASE StartupTimeout
  BY <1>13 DEF StartupTimeout, StopClient
<1>14. CASE Signal
  BY <1>14 DEF Signal, StopClient
<1>15. CASE Unwind
  BY <1>15 DEF Unwind
<1>16. CASE Shutdown
  BY <1>16 DEF Shutdown, StopClient
<1>17. CASE Left
  BY <1>17 DEF Left
<1>18. CASE TrackerJoins
  BY <1>18 DEF TrackerJoins, Admit
<1>19. CASE OrphanJoins
  BY <1>19 DEF OrphanJoins, Admit
<1>20. CASE TrackerLeaves
  BY <1>20 DEF TrackerLeaves, Drop
<1>21. CASE Subscribe
  BY <1>21 DEF Subscribe
<1>22. CASE Heartbeat
  BY <1>22 DEF Heartbeat, Welcome
<1>23. CASE ReportSegments
  BY <1>23 DEF ReportSegments, Welcome
<1>24. CASE Announce
  BY <1>24 DEF Announce
<1>25. CASE Age
  BY <1>25 DEF Age
<1>26. CASE Sweep
  BY <1>26 DEF Sweep, Overdue, Drop
<1>27. CASE UNCHANGED sessionVars
  BY <1>27 DEF sessionVars
<1>28. QED
  BY <1>1, <1>2, <1>3, <1>4, <1>5, <1>6, <1>7, <1>8, <1>9, <1>10, <1>11, <1>12,
     <1>13, <1>14, <1>15, <1>16, <1>17, <1>18, <1>19, <1>20, <1>21, <1>22, <1>23,
     <1>24, <1>25, <1>26, <1>27 DEF SessionNext

\* Every handler keeps what is reported on the way to the inventory.
LEMMA ReportsPreserved ==
  ASSUME SessionTypeOK, Control, Reports, [SessionNext]_sessionVars
  PROVE  Reports'
<1> USE DEF SessionTypeOK, ClientTyped, LinkTyped, TrackerTyped, Control, OneSocket, Reports,
            OnTheWay, ReportsArrive, client, requests, link, wire, tracker, history
<1>1. CASE Connected
  BY <1>1 DEF Connected, Report, Following, Remember
<1>2. CASE Closed
  BY <1>2 DEF Closed, ScheduleReconnect, WireCut
<1>3. CASE Finished
  BY <1>3 DEF Finished, WireCut
<1>4. CASE ReconnectDue
  BY <1>4 DEF ReconnectDue, OpenSocket
<1>5. CASE ReportDue
  BY <1>5 DEF ReportDue, Report, Following, Remember
<1>6. CASE Fetched
  BY <1>6 DEF Fetched, Report, Following, Remember
<1>7. CASE \E s \in Reportable : CacheChanges(s)
  BY <1>7 DEF CacheChanges
<1>8. CASE PeersArrive
  BY <1>8 DEF PeersArrive, Heeds
<1>9. CASE Joined
  BY <1>9 DEF Joined, OpenSocket, StopClient
<1>10. CASE JoinFails
  BY <1>10 DEF JoinFails, Retry
<1>11. CASE RefreshDue
  BY <1>11 DEF RefreshDue
<1>12. CASE Expire
  BY <1>12 DEF Expire
<1>13. CASE StartupTimeout
  BY <1>13 DEF StartupTimeout, StopClient
<1>14. CASE Signal
  BY <1>14 DEF Signal, StopClient
<1>15. CASE Unwind
  BY <1>15 DEF Unwind
<1>16. CASE Shutdown
  BY <1>16 DEF Shutdown, StopClient
<1>17. CASE Left
  BY <1>17 DEF Left
<1>18. CASE TrackerJoins
  BY <1>18 DEF TrackerJoins, Admit
<1>19. CASE OrphanJoins
  BY <1>19 DEF OrphanJoins, Admit
<1>20. CASE TrackerLeaves
  BY <1>20 DEF TrackerLeaves, Drop
<1>21. CASE Subscribe
  BY <1>21 DEF Subscribe
<1>22. CASE Heartbeat
  BY <1>22 DEF Heartbeat, Welcome
<1>23. CASE ReportSegments
  BY <1>23 DEF ReportSegments, Welcome
<1>24. CASE Announce
  BY <1>24 DEF Announce
<1>25. CASE Age
  BY <1>25 DEF Age
<1>26. CASE Sweep
  BY <1>26 DEF Sweep, Overdue, Drop
<1>27. CASE UNCHANGED sessionVars
  BY <1>27 DEF sessionVars
<1>28. QED
  BY <1>1, <1>2, <1>3, <1>4, <1>5, <1>6, <1>7, <1>8, <1>9, <1>10, <1>11, <1>12,
     <1>13, <1>14, <1>15, <1>16, <1>17, <1>18, <1>19, <1>20, <1>21, <1>22, <1>23,
     <1>24, <1>25, <1>26, <1>27 DEF SessionNext

-----------------------------------------------------------------------------
(* Theorems *)

\* Every variable of the session keeps its type; additions and removals on the
\* way are disjoint.
THEOREM SessionTypeCorrect == SessionSpec => []SessionTypeOK
BY InitTyped, TypePreserved, PTL DEF SessionSpec

\* Types, control and reports hold together.
LEMMA SessionInvariant == SessionSpec => [](SessionTypeOK /\ Control /\ Reports)
<1>1. SessionInit => SessionTypeOK /\ Control /\ Reports
  BY InitTyped, InitControlled
<1>2. SessionTypeOK /\ Control /\ Reports /\ [SessionNext]_sessionVars => (SessionTypeOK /\ Control /\ Reports)'
  BY TypePreserved, ControlPreserved, ReportsPreserved
<1>3. QED
  BY <1>1, <1>2, PTL DEF SessionSpec

\* However connections, refreshes, timeouts and answers that come too late follow
\* each other, a started client has, or is about to get, a socket and a session.
THEOREM ClientsAreNeverStranded == SessionSpec => []NeverStranded
<1>1. Control => NeverStranded
  BY DEF Control
<1>2. QED
  BY <1>1, SessionInvariant, PTL

\* Whatever is still on the way when stop() is called, the client opens no socket
\* afterwards and keeps no peers.
THEOREM StoppedClientsAreSilent == SessionSpec => []StoppedIsSilent
<1>1. Control => StoppedIsSilent
  BY DEF Control
<1>2. QED
  BY <1>1, SessionInvariant, PTL

\* For any set of segments, the tracker has or is about to have what the client
\* takes for reported over the present connection.
THEOREM ReportsAreNotLost == SessionSpec => []ReportsArrive
<1>1. Reports => ReportsArrive
  BY DEF Reports
<1>2. QED
  BY <1>1, SessionInvariant, PTL
=============================================================================
