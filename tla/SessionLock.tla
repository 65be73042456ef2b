----------------------------- MODULE SessionLock -----------------------------
(***************************************************************************)
(* The control-session lock of the center backend: ConnectionHub.sessions  *)
(* and ConnectionHub.robot_session (services/hub.py), the rows of          *)
(* control_sessions (models/entities.py), the REST handlers that open and  *)
(* close sessions (api/sessions.py, api/robots.py), presence_monitor and   *)
(* the restore at start-up (main.py).                                      *)
(*                                                                         *)
(* asyncio runs one task at a time and only an await that really waits     *)
(* lets another in; hub.lock is never held across such an await.  So an    *)
(* action is the code between two waits.  What the handlers wait for here  *)
(* is forward_to_robot and notify_session_ended; the order of the messages *)
(* they send is the subject of module ControlRelay.                        *)
(*                                                                         *)
(* Time is abstract: Elapse says that one grace of a session has run out.  *)
(***************************************************************************)
EXTENDS Naturals, FiniteSets

CONSTANTS
  Robots,       \* robot ids
  Sessions,     \* session ids: uuid4, never issued twice
  NoSession,    \* "no entry" in robot_session
  NoRobot,      \* robot of a session that was never created
  Transient,    \* robots an operator adds or deletes while the center runs
  Timed,        \* session_timeout_seconds > 0
  MaxRestarts   \* bound on the restarts of the center

ASSUME RobotsAssumption == IsFiniteSet(Robots)
ASSUME NoSessionAssumption == NoSession \notin Sessions
ASSUME NoRobotAssumption == NoRobot \notin Robots
ASSUME TransientAssumption == Transient \subseteq Robots
ASSUME SwitchAssumption == Timed \in BOOLEAN /\ MaxRestarts \in Nat

VARIABLES
  status,        \* SessionRuntime.status; "none" before, "forgotten" after a restart
  robotOf,       \* SessionRuntime.robot_id
  connected,     \* SessionRuntime.control_connected
  ever,          \* SessionRuntime.control_ever_connected
  robotGone,     \* SessionRuntime.robot_disconnected_at is not None
  due,           \* graces of a session that have run out
  row,           \* control_sessions.status in the database
  creator,       \* where POST /api/sessions is for this session
  closer,        \* a handler that will persist the end of this session
  known,         \* keys of hub.robots
  online,        \* robot in robot_sockets, RobotRuntime.status = "online"
  availability,  \* RobotRuntime.availability
  robotSession,  \* hub.robot_session
  monitor,       \* the presence_monitor task
  restarts       \* restarts so far

sessionVars == <<status, robotOf, connected, ever, robotGone, due>>
robotVars == <<known, online, availability, robotSession>>
taskVars == <<creator, closer, monitor>>
vars == <<status, robotOf, connected, ever, robotGone, due, row, creator,
          closer, known, online, availability, robotSession, monitor, restarts>>

Graces == {"session", "connect", "control", "robot"}

TypeOK ==
  /\ status \in [Sessions -> {"none", "active", "ended", "expired", "forgotten"}]
  /\ robotOf \in [Sessions -> Robots \cup {NoRobot}]
  /\ connected \in [Sessions -> BOOLEAN]
  /\ ever \in [Sessions -> BOOLEAN]
  /\ robotGone \in [Sessions -> BOOLEAN]
  /\ due \in [Sessions -> SUBSET Graces]
  /\ row \in [Sessions -> {"absent", "active", "ended"}]
  /\ creator \in [Sessions -> {"none", "media", "done", "restored"}]
  /\ closer \in [Sessions -> {"none", "queued", "closing"}]
  /\ known \subseteq Robots
  /\ online \in [Robots -> BOOLEAN]
  /\ availability \in [Robots -> {"available", "busy", "offline"}]
  /\ robotSession \in [Robots -> Sessions \cup {NoSession}]
  /\ monitor \in [at : {"asleep", "renewing", "unconnected", "disconnected",
                        "presence", "dead"},
                  ended : SUBSET Sessions, size : Nat]
  /\ restarts \in 0 .. MaxRestarts

Asleep == [at |-> "asleep", ended |-> {}, size |-> 0]

Init ==
  /\ status = [s \in Sessions |-> "none"]
  /\ robotOf = [s \in Sessions |-> NoRobot]
  /\ connected = [s \in Sessions |-> FALSE]
  /\ ever = [s \in Sessions |-> FALSE]
  /\ robotGone = [s \in Sessions |-> FALSE]
  /\ due = [s \in Sessions |-> {}]
  /\ row = [s \in Sessions |-> "absent"]
  /\ creator = [s \in Sessions |-> "none"]
  /\ closer = [s \in Sessions |-> "none"]
  /\ known = Robots \ Transient
  /\ online = [r \in Robots |-> FALSE]
  /\ availability = [r \in Robots |-> "offline"]
  /\ robotSession = [r \in Robots |-> NoSession]
  /\ monitor = Asleep
  /\ restarts = 0

-----------------------------------------------------------------------------
(* Ending sessions in the hub                                              *)

Active(s) == status[s] = "active"

\* What availability becomes when a robot's session ends.
Released(r) == IF online[r] THEN "available" ELSE "offline"

\* _expire_sessions: every call of get_session, create_session and
\* renew_session_media_leases begins with it.  It pops robot_session without
\* asking which session the entry names, and it leaves the row alone.
Expired == {s \in Sessions : Active(s) /\ "session" \in due[s]}

SweptStatus ==
  [s \in Sessions |-> IF s \in Expired THEN "expired" ELSE status[s]]

SweptLock ==
  [r \in Robots |-> IF \E s \in Expired : robotOf[s] = r
                    THEN NoSession ELSE robotSession[r]]

SweptAvailability ==
  [r \in Robots |-> IF \E s \in Expired : robotOf[s] = r
                    THEN Released(r) ELSE availability[r]]

Sweep ==
  /\ status' = SweptStatus
  /\ robotSession' = SweptLock
  /\ availability' = SweptAvailability

\* The locked part of close_session.  It too pops robot_session unasked.
Close(s) ==
  /\ Active(s)
  /\ status' = [status EXCEPT ![s] = "ended"]
  /\ robotSession' = [robotSession EXCEPT ![robotOf[s]] = NoSession]
  /\ availability' = [availability EXCEPT ![robotOf[s]] = Released(robotOf[s])]

\* The locked part of expire_unconnected_sessions and of
\* expire_disconnected_sessions, which pop robot_session only where it names
\* the session they end.
EndAll(X) ==
  /\ status' = [s \in Sessions |-> IF s \in X THEN "ended" ELSE status[s]]
  /\ robotSession' = [r \in Robots |-> IF robotSession[r] \in X
                                       THEN NoSession ELSE robotSession[r]]
  /\ availability' = [r \in Robots |-> IF \E s \in X : robotOf[s] = r
                                       THEN Released(r) ELSE availability[r]]

-----------------------------------------------------------------------------
(* REST handlers                                                           *)

\* A request that does nothing to the lock but call get_session.
GetSession ==
  /\ Sweep
  /\ UNCHANGED <<robotOf, connected, ever, robotGone, due, row, known, online,
                 restarts>>
  /\ UNCHANGED taskVars

\* mutation: the check is missing
NeverBusy(r) == FALSE

\* The robot has an active session after the sweep: RuntimeError("robot_busy").
Busy(r) ==
  /\ SweptLock[r] # NoSession
  /\ SweptStatus[SweptLock[r]] = "active"

\* POST /api/sessions up to the wait in start_session_media.
CreateSession(s, r) ==
  /\ status[s] = "none"
  /\ r \in known
  /\ online[r]
  /\ ~Busy(r)
  /\ status' = [SweptStatus EXCEPT ![s] = "active"]
  /\ robotSession' = [SweptLock EXCEPT ![r] = s]
  /\ availability' = [SweptAvailability EXCEPT ![r] = "busy"]
  /\ robotOf' = [robotOf EXCEPT ![s] = r]
  /\ creator' = [creator EXCEPT ![s] = "media"]
  /\ UNCHANGED <<connected, ever, robotGone, due, row, closer, known, online,
                 monitor, restarts>>

\* media.start went out: the handler inserts the row, whatever became of the
\* session while it waited.
MediaStarted(s) ==
  /\ creator[s] = "media"
  /\ creator' = [creator EXCEPT ![s] = "done"]
  /\ row' = [row EXCEPT ![s] = "active"]
  /\ UNCHANGED <<closer, monitor, restarts>>
  /\ UNCHANGED sessionVars
  /\ UNCHANGED robotVars

\* media.start could not be sent: close_session(reason="robot_disconnected")
\* and 409; there is no row.
MediaRefused(s) ==
  /\ creator[s] = "media"
  /\ creator' = [creator EXCEPT ![s] = "done"]
  /\ \/ Close(s)
     \/ /\ ~Active(s)
        /\ UNCHANGED <<status, robotSession, availability>>
  /\ UNCHANGED <<robotOf, connected, ever, robotGone, due, row, closer, known,
                 online, monitor, restarts>>

\* close_session sends before its caller persists.  forward_to_robot waits for
\* the send lock behind media.start of the same session, unless the robot has
\* no socket: then it returns at once.
CloserPlace(s) ==
  IF creator[s] = "media" /\ online[robotOf[s]] THEN "queued" ELSE "closing"

\* DELETE /api/sessions/{id} by the owner.
DeleteSession(s) ==
  /\ Close(s)
  /\ closer' = [closer EXCEPT ![s] = CloserPlace(s)]
  /\ UNCHANGED <<robotOf, connected, ever, robotGone, due, row, creator, known,
                 online, monitor, restarts>>

\* POST /api/sessions/{id}/force-end by a supervisor: get_session, then
\* close_session.
ForceEnd(s) ==
  /\ Active(s)
  /\ s \notin Expired
  /\ status' = [SweptStatus EXCEPT ![s] = "ended"]
  /\ robotSession' = [SweptLock EXCEPT ![robotOf[s]] = NoSession]
  /\ availability' = [SweptAvailability EXCEPT ![robotOf[s]] = Released(robotOf[s])]
  /\ closer' = [closer EXCEPT ![s] = CloserPlace(s)]
  /\ UNCHANGED <<robotOf, connected, ever, robotGone, due, row, creator, known,
                 online, monitor, restarts>>

\* mutation: an upsert
UpsertedRow(s) == "ended"

\* persist_session_end finds no row when the creating handler has not inserted
\* it yet.
EndedRow(s) == IF row[s] = "absent" THEN "absent" ELSE "ended"

\* close_session has returned and its caller persists the end.
PersistEnd(s) ==
  /\ \/ closer[s] = "closing"
     \/ closer[s] = "queued" /\ creator[s] # "media"
  /\ closer' = [closer EXCEPT ![s] = "none"]
  /\ row' = [row EXCEPT ![s] = EndedRow(s)]
  /\ UNCHANGED <<creator, monitor, restarts>>
  /\ UNCHANGED sessionVars
  /\ UNCHANGED robotVars

\* POST /api/robots/{id}/disconnect: close_session, and nothing persisted.
DisconnectRobot(r) ==
  /\ robotSession[r] # NoSession
  /\ Close(robotSession[r])
  /\ UNCHANGED <<robotOf, connected, ever, robotGone, due, row, known, online,
                 restarts>>
  /\ UNCHANGED taskVars

\* mutation: robot_view takes an offline robot for a free one
StaleIfOffline(r) == robotSession[r] # NoSession /\ ~online[r]

Stale(r) == robotSession[r] # NoSession /\ ~Active(robotSession[r])

\* GET /api/robots: robot_view drops a stale entry and recomputes availability.
RobotView(r) ==
  /\ r \in known
  /\ robotSession' =
       IF Stale(r)
       THEN [robotSession EXCEPT ![r] = NoSession] ELSE robotSession
  /\ availability' =
       [availability EXCEPT ![r] =
          IF ~online[r] THEN "offline"
          ELSE IF robotSession'[r] # NoSession THEN "busy" ELSE "available"]
  /\ UNCHANGED <<row, known, online, restarts>>
  /\ UNCHANGED sessionVars
  /\ UNCHANGED taskVars

\* POST /api/robots adds the key, sync_registry_robot marks it offline.
AddRobot(r) ==
  /\ r \in Transient \ known
  /\ known' = known \cup {r}
  /\ availability' = [availability EXCEPT ![r] = "offline"]
  /\ UNCHANGED <<row, online, robotSession, restarts>>
  /\ UNCHANGED sessionVars
  /\ UNCHANGED taskVars

\* DELETE /api/robots/{id}.
DeleteRobot(r) ==
  /\ r \in Transient \cap known
  /\ ~online[r]
  /\ robotSession[r] = NoSession
  /\ known' = known \ {r}
  /\ UNCHANGED <<row, online, availability, robotSession, restarts>>
  /\ UNCHANGED sessionVars
  /\ UNCHANGED taskVars

-----------------------------------------------------------------------------
(* Robot and browser connections                                           *)

\* The active session the robot's entry names, as a set.
Held(r) == {s \in Sessions : robotSession[r] = s /\ Active(s)}

\* The sessions whose robot_disconnected_at register_robot clears.
Returned(r) == Held(r)

OnRegister(r) == IF robotSession[r] # NoSession THEN "busy" ELSE "available"

\* register_robot; the robot may already have another socket.
RobotConnects(r) ==
  /\ r \in known
  /\ online' = [online EXCEPT ![r] = TRUE]
  /\ availability' = [availability EXCEPT ![r] = OnRegister(r)]
  /\ robotGone' = [s \in Sessions |-> robotGone[s] /\ s \notin Returned(r)]
  /\ due' = [s \in Sessions |-> IF s \in Returned(r) THEN due[s] \ {"robot"} ELSE due[s]]
  /\ UNCHANGED <<status, robotOf, connected, ever, row, known, robotSession, restarts>>
  /\ UNCHANGED taskVars

\* unregister_robot for the registered socket.
RobotDisconnects(r) ==
  /\ online[r]
  /\ online' = [online EXCEPT ![r] = FALSE]
  /\ availability' = [availability EXCEPT ![r] = "offline"]
  /\ robotGone' = [s \in Sessions |-> robotGone[s] \/ s \in Held(r)]
  /\ due' = [s \in Sessions |-> IF s \in Held(r) THEN due[s] \ {"robot"} ELSE due[s]]
  /\ UNCHANGED <<status, robotOf, connected, ever, row, known, robotSession, restarts>>
  /\ UNCHANGED taskVars

\* /ws/user/control claims the session.
ControlConnects(s) ==
  /\ Active(s)
  /\ s \notin Expired
  /\ Sweep
  /\ connected' = [connected EXCEPT ![s] = TRUE]
  /\ ever' = [ever EXCEPT ![s] = TRUE]
  /\ due' = [due EXCEPT ![s] = @ \ {"connect", "control"}]
  /\ UNCHANGED <<robotOf, robotGone, row, known, online, restarts>>
  /\ UNCHANGED taskVars

\* A message of the controller sets control_last_seen_at.
ControlSpeaks(s) ==
  /\ Active(s)
  /\ connected[s]
  /\ due' = [due EXCEPT ![s] = @ \ {"control"}]
  /\ UNCHANGED <<status, robotOf, connected, ever, robotGone, row, restarts>>
  /\ UNCHANGED robotVars
  /\ UNCHANGED taskVars

\* The control handler ends and release_control finds its own socket.
ControlLeaves(s) ==
  /\ Active(s)
  /\ connected[s]
  /\ connected' = [connected EXCEPT ![s] = FALSE]
  /\ due' = [due EXCEPT ![s] = @ \ {"control"}]
  /\ UNCHANGED <<status, robotOf, ever, robotGone, row, restarts>>
  /\ UNCHANGED robotVars
  /\ UNCHANGED taskVars

-----------------------------------------------------------------------------
(* presence_monitor                                                        *)

Running(g) ==
  {s \in Sessions : Active(s) /\
     CASE g = "session" -> Timed /\ creator[s] # "restored"
       [] g = "connect" -> ~ever[s]
       [] g = "control" -> ever[s]
       [] g = "robot"   -> robotGone[s]}

\* Time passes: a grace that is running out for an active session has run out.
Elapse(s, g) ==
  /\ s \in Running(g)
  /\ g \notin due[s]
  /\ due' = [due EXCEPT ![s] = @ \cup {g}]
  /\ UNCHANGED <<status, robotOf, connected, ever, robotGone, row, restarts>>
  /\ UNCHANGED robotVars
  /\ UNCHANGED taskVars

Unconnected ==
  {s \in Sessions : Active(s) /\ ~connected[s] /\ ~ever[s] /\ "connect" \in due[s]}

\* mutation: only a silent controller, not one that left
DisconnectedSilent ==
  {s \in Sessions : Active(s) /\
     \/ ever[s] /\ connected[s] /\ "control" \in due[s]
     \/ robotGone[s] /\ "robot" \in due[s]}

Disconnected ==
  {s \in Sessions : Active(s) /\
     \/ ever[s] /\ "control" \in due[s]
     \/ robotGone[s] /\ "robot" \in due[s]}

\* The sleep is over; renew_session_media_leases sweeps, then waits for the robots.
MonitorWakes ==
  /\ monitor.at = "asleep"
  /\ Sweep
  /\ monitor' = [at |-> "renewing", ended |-> {}, size |-> 0]
  /\ UNCHANGED <<robotOf, connected, ever, robotGone, due, row, creator, closer,
                 known, online, restarts>>

MonitorEndsUnconnected ==
  /\ monitor.at = "renewing"
  /\ EndAll(Unconnected)
  /\ monitor' = [monitor EXCEPT !.at = "unconnected", !.ended = Unconnected]
  /\ UNCHANGED <<robotOf, connected, ever, robotGone, due, row, creator, closer,
                 known, online, restarts>>

MonitorEndsDisconnected ==
  /\ monitor.at = "unconnected"
  /\ EndAll(Disconnected)
  /\ monitor' = [monitor EXCEPT !.at = "disconnected", !.ended = @ \cup Disconnected]
  /\ UNCHANGED <<robotOf, connected, ever, robotGone, due, row, creator, closer,
                 known, online, restarts>>

\* The rows of what this pass ended, then the loop over hub.robots, which
\* waits for the close handshake of every robot whose heartbeat is too old.
MonitorPersists ==
  /\ monitor.at = "disconnected"
  /\ row' = [s \in Sessions |-> IF s \in monitor.ended /\ row[s] # "absent"
                                THEN "ended" ELSE row[s]]
  /\ \/ monitor' = Asleep
     \/ /\ \E r \in known : online[r]
        /\ monitor' = [at |-> "presence", ended |-> {}, size |-> Cardinality(known)]
  /\ UNCHANGED <<creator, closer, restarts>>
  /\ UNCHANGED sessionVars
  /\ UNCHANGED robotVars

\* The handshake is over.  The iterator over the dict raises RuntimeError when
\* the number of keys is no longer the one it started with, and the task dies.
MonitorClosedRobot ==
  /\ monitor.at = "presence"
  /\ monitor' = IF Cardinality(known) = monitor.size THEN Asleep
                ELSE [monitor EXCEPT !.at = "dead"]
  /\ UNCHANGED <<row, creator, closer, restarts>>
  /\ UNCHANGED sessionVars
  /\ UNCHANGED robotVars

-----------------------------------------------------------------------------
(* Restart                                                                 *)

\* mutation: the filter on status is missing
RestorableAny(s) == row[s] # "absent"

Restorable(s) == row[s] = "active"

\* The process ends at any point and lifespan runs again: every row still
\* "active" becomes an active session; the query has no ORDER BY, so any of
\* the rows of a robot may be the last one entered in robot_session.
Restart ==
  /\ restarts < MaxRestarts
  /\ restarts' = restarts + 1
  /\ status' = [s \in Sessions |-> IF Restorable(s) THEN "active"
                                   ELSE IF status[s] = "none" THEN "none"
                                   ELSE "forgotten"]
  /\ connected' = [s \in Sessions |-> FALSE]
  /\ ever' = [s \in Sessions |-> Restorable(s)]
  /\ robotGone' = [s \in Sessions |-> Restorable(s)]
  /\ due' = [s \in Sessions |-> {}]
  /\ creator' = [s \in Sessions |-> IF Restorable(s) THEN "restored"
                                    ELSE IF status[s] = "none" THEN "none"
                                    ELSE "done"]
  /\ closer' = [s \in Sessions |-> "none"]
  /\ online' = [r \in Robots |-> FALSE]
  /\ availability' = [r \in Robots |-> "offline"]
  /\ robotSession' \in
       {f \in [Robots -> Sessions \cup {NoSession}] :
          \A r \in Robots :
            LET mine == {s \in Sessions : Restorable(s) /\ robotOf[s] = r} IN
              f[r] \in IF mine = {} THEN {NoSession} ELSE mine}
  /\ monitor' = Asleep
  /\ UNCHANGED <<robotOf, row, known>>

-----------------------------------------------------------------------------
Handlers ==
  \/ GetSession
  \/ \E s \in Sessions : \/ \E r \in Robots : CreateSession(s, r)
                         \/ MediaStarted(s)
                         \/ MediaRefused(s)
                         \/ DeleteSession(s)
                         \/ ForceEnd(s)
                         \/ PersistEnd(s)
  \/ \E r \in Robots : \/ DisconnectRobot(r)
                       \/ RobotView(r)
                       \/ AddRobot(r)
                       \/ DeleteRobot(r)

Links ==
  \/ \E r \in Robots : RobotConnects(r) \/ RobotDisconnects(r)
  \/ \E s \in Sessions : \/ ControlConnects(s)
                         \/ ControlSpeaks(s)
                         \/ ControlLeaves(s)
                         \/ \E g \in Graces : Elapse(s, g)

Monitor ==
  \/ MonitorWakes
  \/ MonitorEndsUnconnected
  \/ MonitorEndsDisconnected
  \/ MonitorPersists
  \/ MonitorClosedRobot

\* One life of the process.
Step == Handlers \/ Links \/ Monitor

Next == Step \/ Restart

Spec == Init /\ [][Next]_vars

\* The event loop runs every ready task, sleeps and handshakes end, clocks move.
Fairness ==
  /\ WF_vars(MonitorWakes)
  /\ WF_vars(MonitorEndsUnconnected)
  /\ WF_vars(MonitorEndsDisconnected)
  /\ WF_vars(MonitorPersists)
  /\ WF_vars(MonitorClosedRobot)
  /\ \A s \in Sessions : \A g \in Graces : WF_vars(Elapse(s, g))

FairSpec == Spec /\ Fairness

-----------------------------------------------------------------------------
(* Properties                                                              *)

\* No two sessions of one robot are active.
OneOwner ==
  \A s, t \in Sessions :
    Active(s) /\ Active(t) /\ robotOf[s] = robotOf[t] => s = t

\* Every active session is the one its robot's entry names.
EntriesOwned ==
  \A s \in Sessions :
    Active(s) => robotOf[s] \in Robots /\ robotSession[robotOf[s]] = s

\* docs/database-schema.md calls control_sessions the "exclusive controller
\* lock": until the process is restarted, two sessions of one robot are never
\* active together, although seven different code paths drop the robot's entry
\* in robot_session.  (The restore at start-up can leave two: lifespan.)
ExclusiveLock == restarts = 0 => OneOwner

\* Until then an active session is the one its robot's entry names.  Every path
\* that ends a session may therefore pop the entry without asking.
ActiveOwnsEntry == restarts = 0 => EntriesOwned

\* The order of the database writes against the hub: the row of a session is
\* inserted before any end of it is persisted, and whoever is about to persist
\* an end has already ended the session in the hub.
RowsFollowHub ==
  \A s \in Sessions :
    /\ status[s] = "none" => row[s] = "absent" /\ creator[s] = "none"
    /\ creator[s] = "media" => row[s] = "absent"
    /\ row[s] = "ended" \/ closer[s] # "none" \/ s \in monitor.ended =>
         status[s] \notin {"none", "active"}

\* An end that reached the database is final, across restarts too: no later
\* insert, monitor pass or restore makes the session active again.
PersistedEndIsFinal ==
  [][\A s \in Sessions : row[s] = "ended" => row'[s] = "ended" /\ status'[s] # "active"]_vars

\* A robot is not locked for ever by a session nobody drives: again and again
\* the session has ended or its browser is connected, across restarts too, as
\* long as presence_monitor lives.
NoAbandonedLock ==
  \A s \in Sessions : []<>(\/ ~Active(s)
                           \/ connected[s]
                           \/ monitor.at = "dead")

\* The holder of a robot is the session that is active on it.
Holder ==
  [r \in Robots |->
     IF \E s \in Sessions : Active(s) /\ robotOf[s] = r
     THEN CHOOSE s \in Sessions : Active(s) /\ robotOf[s] = r
     ELSE NoSession]

\* The sessions that have held a robot.
Past == {s \in Sessions : status[s] # "none"}

Lock == INSTANCE RobotLock WITH holder <- Holder, past <- Past

\* Until the process is restarted the hub implements the abstract lock: a robot
\* passes from one session to the next only when it is let go.
ImplementsRobotLock == Lock!Init /\ [][restarts' = 0 => Lock!Next]_<<Holder, Past>>
=============================================================================
