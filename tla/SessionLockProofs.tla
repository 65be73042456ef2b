-------------------------- MODULE SessionLockProofs --------------------------
(* What TLAPS proves of SessionLock, for every set of robots and sessions. *)
EXTENDS SessionLock, FiniteSetTheorems, TLAPS

\* The three variables every ending of a session writes.
LockTypeOK ==
  /\ status \in [Sessions -> {"none", "active", "ended", "expired", "forgotten"}]
  /\ availability \in [Robots -> {"available", "busy", "offline"}]
  /\ robotSession \in [Robots -> Sessions \cup {NoSession}]

\* _expire_sessions keeps the types, also as the first part of a handler.
LEMMA SweptTypes ==
  ASSUME TypeOK
  PROVE  /\ SweptStatus \in [Sessions -> {"none", "active", "ended", "expired", "forgotten"}]
         /\ SweptAvailability \in [Robots -> {"available", "busy", "offline"}]
         /\ SweptLock \in [Robots -> Sessions \cup {NoSession}]
  BY DEF SweptStatus, SweptLock, SweptAvailability, Released, TypeOK

\* close_session keeps the types.
LEMMA CloseTypes ==
  ASSUME TypeOK, NEW s, Close(s)
  PROVE  LockTypeOK'
  BY DEF Close, Released, TypeOK, LockTypeOK

\* So do the two expiry passes of the monitor.
LEMMA EndAllTypes ==
  ASSUME TypeOK, NEW X, EndAll(X)
  PROVE  LockTypeOK'
  BY DEF EndAll, Released, TypeOK, LockTypeOK

\* The number of registered robots is a number.
LEMMA KnownIsFinite == ASSUME TypeOK PROVE Cardinality(known) \in Nat
  BY RobotsAssumption, FS_Subset, FS_CardinalityType DEF TypeOK

\* Every variable keeps its type, restarts included.
THEOREM TypeCorrect == Spec => []TypeOK
<1>1. Init => TypeOK
  BY NoRobotAssumption, SwitchAssumption DEF Init, TypeOK, Asleep
<1>2. TypeOK /\ [Next]_vars => TypeOK'
  <2> SUFFICES ASSUME TypeOK, [Next]_vars PROVE TypeOK'
    OBVIOUS
  <2>1. CASE Handlers
    <3>1. CASE GetSession
      BY <3>1, SweptTypes DEF GetSession, Sweep, TypeOK, taskVars
    <3>2. CASE \E s \in Sessions, r \in Robots : CreateSession(s, r)
      BY <3>2, SweptTypes DEF CreateSession, TypeOK
    <3>3. CASE \E s \in Sessions : MediaStarted(s)
      BY <3>3 DEF MediaStarted, TypeOK, sessionVars, robotVars
    <3>4. CASE \E s \in Sessions : MediaRefused(s)
      BY <3>4, CloseTypes DEF MediaRefused, TypeOK, LockTypeOK
    <3>5. CASE \E s \in Sessions : DeleteSession(s)
      BY <3>5, CloseTypes DEF DeleteSession, CloserPlace, TypeOK, LockTypeOK
    <3>6. CASE \E s \in Sessions : ForceEnd(s)
      <4> PICK s \in Sessions : ForceEnd(s)
        BY <3>6
      <4>1. LockTypeOK'
        BY SweptTypes DEF ForceEnd, Released, LockTypeOK
      <4>2. CloserPlace(s) \in {"queued", "closing"}
        BY DEF CloserPlace
      <4> QED
        BY <4>1, <4>2 DEF ForceEnd, TypeOK, LockTypeOK
    <3>7. CASE \E s \in Sessions : PersistEnd(s)
      BY <3>7 DEF PersistEnd, EndedRow, TypeOK, sessionVars, robotVars
    <3>8. CASE \E r \in Robots : DisconnectRobot(r)
      BY <3>8, CloseTypes DEF DisconnectRobot, TypeOK, LockTypeOK, taskVars
    <3>9. CASE \E r \in Robots : RobotView(r)
      BY <3>9 DEF RobotView, Stale, TypeOK, sessionVars, taskVars
    <3>10. CASE \E r \in Robots : AddRobot(r) \/ DeleteRobot(r)
      BY <3>10 DEF AddRobot, DeleteRobot, TypeOK, sessionVars, taskVars
    <3> QED
      BY <2>1, <3>1, <3>2, <3>3, <3>4, <3>5, <3>6, <3>7, <3>8, <3>9, <3>10
      DEF Handlers
  <2>2. CASE Links
    <3>1. CASE \E r \in Robots : RobotConnects(r)
      <4> PICK r \in Robots : RobotConnects(r)
        BY <3>1
      <4>1. robotGone' \in [Sessions -> BOOLEAN] /\ due' \in [Sessions -> SUBSET Graces]
        BY DEF RobotConnects, TypeOK
      <4>2. online' \in [Robots -> BOOLEAN]
              /\ availability' \in [Robots -> {"available", "busy", "offline"}]
        BY DEF RobotConnects, OnRegister, TypeOK
      <4> QED
        BY <4>1, <4>2 DEF RobotConnects, TypeOK, taskVars
    <3>2. CASE \E r \in Robots : RobotDisconnects(r)
      <4> PICK r \in Robots : RobotDisconnects(r)
        BY <3>2
      <4>1. robotGone' \in [Sessions -> BOOLEAN] /\ due' \in [Sessions -> SUBSET Graces]
        BY DEF RobotDisconnects, TypeOK
      <4>2. online' \in [Robots -> BOOLEAN]
              /\ availability' \in [Robots -> {"available", "busy", "offline"}]
        BY DEF RobotDisconnects, TypeOK
      <4> QED
        BY <4>1, <4>2 DEF RobotDisconnects, TypeOK, taskVars
    <3>3. CASE \E s \in Sessions : ControlConnects(s)
      BY <3>3, SweptTypes DEF ControlConnects, Sweep, TypeOK, taskVars
    <3>4. CASE \E s \in Sessions : ControlSpeaks(s) \/ ControlLeaves(s)
      <4> PICK s \in Sessions : ControlSpeaks(s) \/ ControlLeaves(s)
        BY <3>4
      <4>1. CASE ControlSpeaks(s)
        BY <4>1 DEF ControlSpeaks, TypeOK, robotVars, taskVars
      <4>2. CASE ControlLeaves(s)
        BY <4>2 DEF ControlLeaves, TypeOK, robotVars, taskVars
      <4> QED
        BY <4>1, <4>2
    <3>5. CASE \E s \in Sessions, g \in Graces : Elapse(s, g)
      BY <3>5 DEF Elapse, TypeOK, robotVars, taskVars
    <3> QED
      BY <2>2, <3>1, <3>2, <3>3, <3>4, <3>5 DEF Links
  <2>3. CASE Monitor
    <3>1. CASE MonitorWakes
      BY <3>1, SweptTypes DEF MonitorWakes, Sweep, TypeOK
    <3>2. CASE MonitorEndsUnconnected
      BY <3>2, EndAllTypes DEF MonitorEndsUnconnected, Unconnected, TypeOK, LockTypeOK
    <3>3. CASE MonitorEndsDisconnected
      BY <3>3, EndAllTypes DEF MonitorEndsDisconnected, Disconnected, TypeOK, LockTypeOK
    <3>4. CASE MonitorPersists
      <4>1. monitor' \in [at : {"asleep", "renewing", "unconnected", "disconnected",
                               "presence", "dead"},
                         ended : SUBSET Sessions, size : Nat]
        BY <3>4, KnownIsFinite DEF MonitorPersists, Asleep
      <4>2. row' \in [Sessions -> {"absent", "active", "ended"}]
        BY <3>4 DEF MonitorPersists, TypeOK
      <4> QED
        BY <3>4, <4>1, <4>2 DEF MonitorPersists, TypeOK, sessionVars, robotVars
    <3>5. CASE MonitorClosedRobot
      BY <3>5 DEF MonitorClosedRobot, Asleep, TypeOK, sessionVars, robotVars
    <3> QED
      BY <2>3, <3>1, <3>2, <3>3, <3>4, <3>5 DEF Monitor
  <2>4. CASE Restart
    BY <2>4, SwitchAssumption DEF Restart, Restorable, Asleep, TypeOK
  <2>5. CASE UNCHANGED vars
    BY <2>5 DEF vars, TypeOK
  <2> QED
    BY <2>1, <2>2, <2>3, <2>4, <2>5 DEF Next, Step
<1> QED
  BY <1>1, <1>2, PTL DEF Spec

-----------------------------------------------------------------------------
\* After _expire_sessions the sessions still active own their entries: an
\* entry that was popped unasked belonged to the session that expired.
LEMMA SweptOwners ==
  ASSUME TypeOK, EntriesOwned
  PROVE  \A s \in Sessions : SweptStatus[s] = "active" =>
           robotOf[s] \in Robots /\ SweptLock[robotOf[s]] = s
<1> SUFFICES ASSUME NEW s \in Sessions, SweptStatus[s] = "active"
             PROVE  robotOf[s] \in Robots /\ SweptLock[robotOf[s]] = s
  OBVIOUS
<1>1. Active(s) /\ s \notin Expired
  BY DEF SweptStatus, Active, TypeOK
<1>2. robotOf[s] \in Robots /\ robotSession[robotOf[s]] = s
  BY <1>1 DEF EntriesOwned
<1>3. ~ \E x \in Expired : robotOf[x] = robotOf[s]
  BY <1>1, <1>2 DEF Expired, EntriesOwned
<1> QED
  BY <1>2, <1>3 DEF SweptLock

\* close_session pops the entry of the session it ends and no other.
LEMMA CloseOwners ==
  ASSUME TypeOK, EntriesOwned, NEW t \in Sessions, Close(t), robotOf' = robotOf
  PROVE  EntriesOwned'
<1> SUFFICES ASSUME NEW s \in Sessions, Active(s)'
             PROVE  (robotOf[s] \in Robots /\ robotSession[robotOf[s]] = s)'
  BY DEF EntriesOwned
<1>1. s # t /\ Active(s)
  BY DEF Close, Active, TypeOK
<1>2. robotOf[s] \in Robots /\ robotSession[robotOf[s]] = s /\ robotSession[robotOf[t]] = t
  BY <1>1 DEF EntriesOwned, Close
<1> QED
  BY <1>1, <1>2 DEF Close, TypeOK

\* The monitor pops only entries that name a session it ends.
LEMMA EndAllOwners ==
  ASSUME TypeOK, EntriesOwned, NEW X, EndAll(X), robotOf' = robotOf
  PROVE  EntriesOwned'
<1> SUFFICES ASSUME NEW s \in Sessions, Active(s)'
             PROVE  (robotOf[s] \in Robots /\ robotSession[robotOf[s]] = s)'
  BY DEF EntriesOwned
<1>1. s \notin X /\ Active(s)
  BY DEF EndAll, Active, TypeOK
<1>2. robotOf[s] \in Robots /\ robotSession[robotOf[s]] = s
  BY <1>1 DEF EntriesOwned
<1> QED
  BY <1>1, <1>2 DEF EndAll, TypeOK

\* A new session enters a robot that no active session names as its own.
LEMMA CreateOwners ==
  ASSUME TypeOK, EntriesOwned, NEW n \in Sessions, NEW r \in Robots,
         CreateSession(n, r)
  PROVE  EntriesOwned'
<1> SUFFICES ASSUME NEW s \in Sessions, Active(s)'
             PROVE  (robotOf[s] \in Robots /\ robotSession[robotOf[s]] = s)'
  BY DEF EntriesOwned
<1>1. CASE s = n
  BY <1>1, SweptTypes DEF CreateSession, TypeOK
<1>2. CASE s # n
  <2>1. SweptStatus[s] = "active" /\ robotOf'[s] = robotOf[s]
    BY <1>2, SweptTypes DEF CreateSession, Active, TypeOK
  <2>2. robotOf[s] \in Robots /\ SweptLock[robotOf[s]] = s
    BY <2>1, SweptOwners
  <2>3. robotOf[s] # r
    BY <2>1, <2>2, NoSessionAssumption DEF CreateSession, Busy
  <2> QED
    BY <2>1, <2>2, <2>3, SweptTypes DEF CreateSession
<1> QED
  BY <1>1, <1>2

\* The inductive step of the lock, one life of the process.
LEMMA OwnersStep ==
  ASSUME TypeOK, EntriesOwned, [Step]_vars
  PROVE  EntriesOwned'
<1>1. CASE GetSession \/ MonitorWakes \/ \E s \in Sessions : ControlConnects(s)
  <2>1. Sweep /\ robotOf' = robotOf
    BY <1>1 DEF GetSession, MonitorWakes, ControlConnects
  <2> QED
    BY <2>1, SweptOwners DEF Sweep, EntriesOwned, Active
<1>2. CASE \E s \in Sessions, r \in Robots : CreateSession(s, r)
  BY <1>2, CreateOwners
<1>3. CASE \E s \in Sessions : MediaRefused(s) \/ DeleteSession(s)
  <2> PICK s \in Sessions : MediaRefused(s) \/ DeleteSession(s)
    BY <1>3
  <2>1. CASE Close(s)
    <3>1. robotOf' = robotOf
      BY DEF MediaRefused, DeleteSession
    <3> QED
      BY <2>1, <3>1, CloseOwners
  <2>2. CASE ~Close(s)
    <3>1. UNCHANGED <<status, robotSession, robotOf>>
      BY <2>2 DEF MediaRefused, DeleteSession
    <3> QED
      BY <3>1 DEF EntriesOwned, Active
  <2> QED
    BY <2>1, <2>2
<1>4. CASE \E t \in Sessions : ForceEnd(t)
  <2> PICK t \in Sessions : ForceEnd(t)
    BY <1>4
  <2> SUFFICES ASSUME NEW s \in Sessions, Active(s)'
               PROVE  (robotOf[s] \in Robots /\ robotSession[robotOf[s]] = s)'
    BY DEF EntriesOwned
  <2>1. s # t /\ SweptStatus[s] = "active" /\ robotOf' = robotOf
    BY SweptTypes DEF ForceEnd, Active
  <2>2. robotOf[s] \in Robots /\ SweptLock[robotOf[s]] = s
    BY <2>1, SweptOwners
  <2>3. SweptStatus[t] = "active"
    BY DEF ForceEnd, SweptStatus, Active
  <2>4. robotOf[t] # robotOf[s]
    BY <2>1, <2>2, <2>3, SweptOwners
  <2> QED
    BY <2>1, <2>2, <2>4, SweptTypes DEF ForceEnd
<1>5. CASE \E r \in Robots : DisconnectRobot(r)
  <2> PICK r \in Robots : DisconnectRobot(r)
    BY <1>5
  <2>1. robotSession[r] \in Sessions /\ Close(robotSession[r]) /\ robotOf' = robotOf
    BY DEF DisconnectRobot, TypeOK
  <2> QED
    BY <2>1, CloseOwners
<1>6. CASE \E r \in Robots : RobotView(r)
  <2> PICK r \in Robots : RobotView(r)
    BY <1>6
  <2> SUFFICES ASSUME NEW s \in Sessions, Active(s)'
               PROVE  (robotOf[s] \in Robots /\ robotSession[robotOf[s]] = s)'
    BY DEF EntriesOwned
  <2>1. Active(s) /\ robotOf' = robotOf
    BY DEF RobotView, sessionVars, Active
  <2>2. robotOf[s] \in Robots /\ robotSession[robotOf[s]] = s
    BY <2>1 DEF EntriesOwned
  <2> QED
    BY <2>1, <2>2 DEF RobotView, Stale, TypeOK
<1>7. CASE MonitorEndsUnconnected
  BY <1>7, EndAllOwners DEF MonitorEndsUnconnected
<1>8. CASE MonitorEndsDisconnected
  BY <1>8, EndAllOwners DEF MonitorEndsDisconnected
<1>9. CASE UNCHANGED <<status, robotSession, robotOf>>
  BY <1>9 DEF EntriesOwned, Active
<1>10. CASE \/ \E s \in Sessions : MediaStarted(s) \/ PersistEnd(s)
            \/ \E r \in Robots : AddRobot(r) \/ DeleteRobot(r)
            \/ \E r \in Robots : RobotConnects(r) \/ RobotDisconnects(r)
            \/ \E s \in Sessions : ControlSpeaks(s) \/ ControlLeaves(s)
            \/ \E s \in Sessions, g \in Graces : Elapse(s, g)
            \/ MonitorPersists \/ MonitorClosedRobot
            \/ UNCHANGED vars
  <2>1. UNCHANGED <<status, robotSession, robotOf>>
    BY <1>10 DEF MediaStarted, PersistEnd, AddRobot, DeleteRobot, RobotConnects,
       RobotDisconnects, ControlSpeaks, ControlLeaves, Elapse, MonitorPersists,
       MonitorClosedRobot, sessionVars, robotVars, vars
  <2> QED
    BY <2>1, <1>9
<1> QED
  BY <1>1, <1>2, <1>3, <1>4, <1>5, <1>6, <1>7, <1>8, <1>10
  DEF Step, Handlers, Links, Monitor

\* A step of a life does not count as a restart.
LEMMA StepKeepsLife == ASSUME Step PROVE restarts' = restarts
  BY DEF Step, Handlers, Links, Monitor, GetSession, CreateSession, MediaStarted,
     MediaRefused, DeleteSession, ForceEnd, PersistEnd, DisconnectRobot, RobotView,
     AddRobot, DeleteRobot, RobotConnects, RobotDisconnects, ControlConnects,
     ControlSpeaks, ControlLeaves, Elapse, MonitorWakes, MonitorEndsUnconnected,
     MonitorEndsDisconnected, MonitorPersists, MonitorClosedRobot

\* In the first life every step is one of that life.
LEMMA FirstLife ==
  ASSUME TypeOK, [Next]_vars, restarts' = 0
  PROVE  restarts = 0 /\ [Step]_vars
<1>1. ~Restart
  BY DEF Restart, TypeOK
<1>2. CASE Step
  BY <1>2, StepKeepsLife
<1>3. CASE UNCHANGED vars
  BY <1>3 DEF vars
<1> QED
  BY <1>1, <1>2, <1>3 DEF Next

\* Until the process is restarted, every active session is the one its robot's
\* entry in robot_session names.
THEOREM OwnedLock == Spec => []ActiveOwnsEntry
<1>1. Init => ActiveOwnsEntry
  BY DEF Init, ActiveOwnsEntry, EntriesOwned, Active
<1>2. TypeOK /\ ActiveOwnsEntry /\ [Next]_vars => ActiveOwnsEntry'
  <2> SUFFICES ASSUME TypeOK, ActiveOwnsEntry, [Next]_vars, restarts' = 0
               PROVE  EntriesOwned'
    BY DEF ActiveOwnsEntry
  <2>1. EntriesOwned /\ [Step]_vars
    BY FirstLife DEF ActiveOwnsEntry
  <2> QED
    BY <2>1, OwnersStep
<1> QED
  BY <1>1, <1>2, TypeCorrect, PTL DEF Spec

\* Therefore two sessions of one robot are never active together until the
\* process is restarted.
THEOREM Exclusive == Spec => []ExclusiveLock
<1>1. ActiveOwnsEntry => ExclusiveLock
  BY DEF ActiveOwnsEntry, EntriesOwned, ExclusiveLock, OneOwner
<1> QED
  BY <1>1, OwnedLock, PTL

-----------------------------------------------------------------------------
(* The hub implements the abstract lock                                    *)

\* The session active on a robot is its holder, a robot without one is free.
LEMMA HolderIs ==
  ASSUME OneOwner, NEW r \in Robots
  PROVE  /\ \A s \in Sessions : Active(s) /\ robotOf[s] = r => Holder[r] = s
         /\ (\A s \in Sessions : ~(Active(s) /\ robotOf[s] = r)) => Holder[r] = NoSession
<1>1. ASSUME NEW s \in Sessions, Active(s), robotOf[s] = r
      PROVE  Holder[r] = s
  <2> DEFINE h == CHOOSE t \in Sessions : Active(t) /\ robotOf[t] = r
  <2>1. h \in Sessions /\ Active(h) /\ robotOf[h] = r
    BY <1>1
  <2>2. Holder[r] = h
    BY <1>1 DEF Holder
  <2> QED
    BY <1>1, <2>1, <2>2 DEF OneOwner
<1> QED
  BY <1>1 DEF Holder

\* The same in the next state.
LEMMA HolderNext ==
  ASSUME OneOwner', NEW r \in Robots
  PROVE  /\ \A s \in Sessions : status'[s] = "active" /\ robotOf'[s] = r => Holder'[r] = s
         /\ (\A s \in Sessions : ~(status'[s] = "active" /\ robotOf'[s] = r)) => Holder'[r] = NoSession
<1>1. ASSUME NEW s \in Sessions, status'[s] = "active", robotOf'[s] = r
      PROVE  Holder'[r] = s
  <2> DEFINE h == CHOOSE t \in Sessions : status'[t] = "active" /\ robotOf'[t] = r
  <2>1. h \in Sessions /\ status'[h] = "active" /\ robotOf'[h] = r
    BY <1>1
  <2>2. Holder'[r] = h
    BY <1>1 DEF Holder, Active
  <2> QED
    BY <1>1, <2>1, <2>2 DEF OneOwner, Active
<1> QED
  BY <1>1 DEF Holder, Active

\* A step that activates nobody releases a set of robots and moves no holder.
LEMMA ReleaseStep ==
  ASSUME OneOwner, OneOwner',
         \A s \in Sessions : status'[s] = "active" => Active(s) /\ robotOf'[s] = robotOf[s],
         Past' = Past
  PROVE  Lock!Next
<1> DEFINE D == {r \in Robots : \A s \in Sessions : ~(status'[s] = "active" /\ robotOf'[s] = r)}
<1>1. ASSUME NEW r \in Robots PROVE Holder'[r] = IF r \in D THEN NoSession ELSE Holder[r]
  <2>1. CASE r \in D
    BY <2>1, HolderNext
  <2>2. CASE r \notin D
    <3> PICK s \in Sessions : status'[s] = "active" /\ robotOf'[s] = r
      BY <2>2
    <3>1. Holder'[r] = s /\ Holder[r] = s
      BY HolderNext, HolderIs
    <3> QED
      BY <2>2, <3>1
  <2> QED
    BY <2>1, <2>2
<1>2. Holder' = [r \in Robots |-> IF r \in D THEN NoSession ELSE Holder[r]]
  <2>1. Holder' = [r \in Robots |-> Holder'[r]]
    BY DEF Holder
  <2> QED
    BY <1>1, <2>1
<1>3. Lock!Release(D)
  BY <1>2 DEF Lock!Release, Lock!Without, Past
<1>4. D \in SUBSET Robots
  OBVIOUS
<1> HIDE DEF D
<1> QED
  BY <1>3, <1>4 DEF Lock!Next, Lock!Release, Lock!Without

\* Opening a session releases the robots of expired sessions and acquires one.
LEMMA AcquireStep ==
  ASSUME TypeOK, EntriesOwned, OneOwner, OneOwner',
         NEW n \in Sessions, NEW q \in Robots, CreateSession(n, q)
  PROVE  Lock!Next
<1> DEFINE D == {r \in Robots : r # q /\ \A s \in Sessions : ~(status'[s] = "active" /\ robotOf'[s] = r)}
           E == D \cup {q}
<1>0. SweptStatus \in [Sessions -> {"none", "active", "ended", "expired", "forgotten"}]
  BY SweptTypes
<1>1. n \notin Past /\ status'[n] = "active" /\ robotOf'[n] = q
  BY <1>0 DEF CreateSession, Past, Active, TypeOK
<1>2. ASSUME NEW s \in Sessions, s # n, status'[s] = "active"
      PROVE  Active(s) /\ robotOf'[s] = robotOf[s]
  BY <1>0, <1>2 DEF CreateSession, SweptStatus, Active, TypeOK
<1>3. Past' = Past \cup {n}
  <2>1. status' = [SweptStatus EXCEPT ![n] = "active"]
    BY DEF CreateSession
  <2>2. ASSUME NEW s \in Sessions PROVE (SweptStatus[s] # "none") <=> (status[s] # "none")
    BY DEF SweptStatus, Expired, Active
  <2> QED
    BY <1>0, <2>1, <2>2 DEF Past
<1>4. ASSUME NEW r \in Robots
      PROVE  Holder'[r] = IF r = q THEN n ELSE IF r \in E THEN NoSession ELSE Holder[r]
  <2>1. CASE r = q
    BY <2>1, <1>1, HolderNext
  <2>2. CASE r # q /\ r \in D
    BY <2>2, HolderNext
  <2>3. CASE r # q /\ r \notin D
    <3> PICK s \in Sessions : status'[s] = "active" /\ robotOf'[s] = r
      BY <2>3
    <3>1. s # n
      BY <2>3, <1>1
    <3>2. Holder'[r] = s /\ Holder[r] = s
      BY <3>1, <1>2, HolderNext, HolderIs
    <3> QED
      BY <2>3, <3>2
  <2> QED
    BY <2>1, <2>2, <2>3
<1>5. Holder' = [[r \in Robots |-> IF r \in E THEN NoSession ELSE Holder[r]] EXCEPT ![q] = n]
  <2>1. Holder' = [r \in Robots |-> Holder'[r]]
    BY DEF Holder
  <2> QED
    BY <1>4, <2>1
<1>6. Lock!Acquire(E, q, n)
  BY <1>1, <1>3, <1>5 DEF Lock!Acquire, Lock!Without, Past
<1>7. E \in SUBSET Robots
  OBVIOUS
<1> HIDE DEF E
<1> QED
  BY <1>6, <1>7 DEF Lock!Next

\* Every other step of the process activates nobody and creates nobody.
LEMMA OthersActivateNobody ==
  ASSUME TypeOK, [Step]_vars,
         ~ \E s \in Sessions, r \in Robots : CreateSession(s, r)
  PROVE  /\ \A s \in Sessions : status'[s] = "active" => Active(s) /\ robotOf'[s] = robotOf[s]
         /\ Past' = Past
<1> SUFFICES /\ robotOf' = robotOf
             /\ \A s \in Sessions : (status'[s] = "active" => Active(s))
                                   /\ ((status'[s] = "none") <=> (status[s] = "none"))
  BY DEF Past
<1>0. \A s \in Sessions : (SweptStatus[s] = "active" => Active(s))
                         /\ ((SweptStatus[s] = "none") <=> (status[s] = "none"))
  BY DEF SweptStatus, Expired, Active
<1>1. CASE GetSession \/ MonitorWakes \/ \E s \in Sessions : ControlConnects(s)
  <2>1. Sweep /\ robotOf' = robotOf
    BY <1>1 DEF GetSession, MonitorWakes, ControlConnects
  <2> QED
    BY <1>0, <2>1 DEF Sweep, Active
<1>2. CASE \/ \E s \in Sessions : MediaRefused(s) \/ DeleteSession(s)
           \/ \E r \in Robots : DisconnectRobot(r)
  <2>1. robotOf' = robotOf
    BY <1>2 DEF MediaRefused, DeleteSession, DisconnectRobot
  <2>2. status' = status \/ \E t \in Sessions : Close(t)
    BY <1>2 DEF MediaRefused, DeleteSession, DisconnectRobot, TypeOK
  <2> QED
    BY <2>1, <2>2 DEF Close, Active, TypeOK
<1>3. CASE \E t \in Sessions : ForceEnd(t)
  BY <1>0, <1>3, SweptTypes DEF ForceEnd, Active
<1>4. CASE MonitorEndsUnconnected \/ MonitorEndsDisconnected
  <2>1. robotOf' = robotOf
    BY <1>4 DEF MonitorEndsUnconnected, MonitorEndsDisconnected
  <2>2. \E X : EndAll(X) /\ \A s \in X : Active(s)
    <3>1. \A s \in Unconnected \cup Disconnected : Active(s)
      BY DEF Unconnected, Disconnected
    <3> QED
      BY <1>4, <3>1 DEF MonitorEndsUnconnected, MonitorEndsDisconnected
  <2> QED
    BY <2>1, <2>2 DEF EndAll, Active
<1>5. CASE \/ \E s \in Sessions : MediaStarted(s) \/ PersistEnd(s)
           \/ \E r \in Robots : RobotView(r) \/ AddRobot(r) \/ DeleteRobot(r)
           \/ \E r \in Robots : RobotConnects(r) \/ RobotDisconnects(r)
           \/ \E s \in Sessions : ControlSpeaks(s) \/ ControlLeaves(s)
           \/ \E s \in Sessions, g \in Graces : Elapse(s, g)
           \/ MonitorPersists \/ MonitorClosedRobot
           \/ UNCHANGED vars
  <2>1. UNCHANGED <<status, robotOf>>
    BY <1>5 DEF MediaStarted, PersistEnd, RobotView, AddRobot, DeleteRobot,
       RobotConnects, RobotDisconnects, ControlSpeaks, ControlLeaves, Elapse,
       MonitorPersists, MonitorClosedRobot, sessionVars, vars
  <2> QED
    BY <2>1 DEF Active
<1> QED
  BY <1>1, <1>2, <1>3, <1>4, <1>5 DEF Step, Handlers, Links, Monitor

\* Until the process is restarted the hub implements RobotLock.
THEOREM Refinement == Spec => ImplementsRobotLock
<1>1. Init => Lock!Init
  BY DEF Init, Lock!Init, Holder, Active, Past
<1>2. TypeOK /\ ActiveOwnsEntry /\ ExclusiveLock /\ ExclusiveLock' /\ [Next]_vars
        => [restarts' = 0 => Lock!Next]_<<Holder, Past>>
  <2> SUFFICES ASSUME TypeOK, ActiveOwnsEntry, ExclusiveLock, ExclusiveLock',
                      [Next]_vars, restarts' = 0
               PROVE  Lock!Next
    OBVIOUS
  <2>1. EntriesOwned /\ OneOwner /\ OneOwner' /\ [Step]_vars
    BY FirstLife DEF ActiveOwnsEntry, ExclusiveLock
  <2>2. CASE \E s \in Sessions, r \in Robots : CreateSession(s, r)
    BY <2>1, <2>2, AcquireStep
  <2>3. CASE ~ \E s \in Sessions, r \in Robots : CreateSession(s, r)
    BY <2>1, <2>3, OthersActivateNobody, ReleaseStep
  <2> QED
    BY <2>2, <2>3
<1> QED
  BY <1>1, <1>2, TypeCorrect, OwnedLock, Exclusive, PTL
  DEF Spec, ImplementsRobotLock

-----------------------------------------------------------------------------
(* Database rows, restarts included                                        *)

\* What the steps do to a session that the database or a pending writer says
\* has ended: it stays ended, and sessions never created stay so.
LEMMA StatusMoves ==
  ASSUME TypeOK, [Step]_vars,
         ~ \E s \in Sessions, r \in Robots : CreateSession(s, r)
  PROVE  \A s \in Sessions : /\ status'[s] = "active" => Active(s)
                             /\ status'[s] = "none" <=> status[s] = "none"
  BY OthersActivateNobody DEF Past

\* The tasks that write rows, one action at a time.
LEMMA RowsStep ==
  ASSUME TypeOK, RowsFollowHub, [Step]_vars
  PROVE  RowsFollowHub'
<1>1. CASE \E n \in Sessions, r \in Robots : CreateSession(n, r)
  <2> PICK n \in Sessions, r \in Robots : CreateSession(n, r)
    BY <1>1
  <2>1. ASSUME NEW s \in Sessions
        PROVE  /\ s = n => status'[s] = "active"
               /\ s # n => /\ status'[s] = "active" => status[s] = "active"
                           /\ status'[s] = "none" <=> status[s] = "none"
                           /\ creator'[s] = creator[s]
    BY SweptTypes DEF CreateSession, SweptStatus, Expired, Active, TypeOK
  <2>2. UNCHANGED <<row, closer, monitor>> /\ status[n] = "none"
    BY DEF CreateSession
  <2>3. creator'[n] = "media"
    BY DEF CreateSession, TypeOK
  <2>4. row[n] = "absent" /\ closer[n] = "none" /\ n \notin monitor.ended
    BY <2>2 DEF RowsFollowHub
  <2>5. row' = row /\ closer' = closer /\ monitor' = monitor
    BY <2>2
  <2>6. ASSUME NEW s \in Sessions, s # n
        PROVE  /\ status'[s] = "none" => row[s] = "absent" /\ creator'[s] = "none"
               /\ creator'[s] = "media" => row[s] = "absent"
               /\ row[s] = "ended" \/ closer[s] # "none" \/ s \in monitor.ended =>
                    status'[s] \notin {"none", "active"}
    <3>1. /\ status'[s] = "active" => status[s] = "active"
          /\ status'[s] = "none" <=> status[s] = "none"
          /\ creator'[s] = creator[s]
      BY <2>1, <2>6
    <3> QED
      BY <3>1 DEF RowsFollowHub
  <2>7. status'[n] = "active"
    BY <2>1
  <2> QED
    BY <2>3, <2>4, <2>5, <2>6, <2>7 DEF RowsFollowHub
<1>2. CASE ~ \E s \in Sessions, r \in Robots : CreateSession(s, r)
  <2>1. \A s \in Sessions : /\ status'[s] = "active" => status[s] = "active"
                            /\ status'[s] = "none" <=> status[s] = "none"
    BY <1>2, StatusMoves DEF Active
  <2>2. CASE \E s \in Sessions : MediaStarted(s) \/ MediaRefused(s)
    <3> PICK t \in Sessions : MediaStarted(t) \/ MediaRefused(t)
      BY <2>2
    <3>1. /\ creator[t] = "media" /\ creator' = [creator EXCEPT ![t] = "done"]
          /\ row' = row \/ row' = [row EXCEPT ![t] = "active"]
          /\ UNCHANGED <<closer, monitor>>
      BY DEF MediaStarted, MediaRefused
    <3> QED
      BY <2>1, <3>1 DEF RowsFollowHub, TypeOK
  <2>3. CASE \E s \in Sessions : DeleteSession(s) \/ ForceEnd(s)
    <3> PICK t \in Sessions : DeleteSession(t) \/ ForceEnd(t)
      BY <2>3
    <3>1. /\ closer' = [closer EXCEPT ![t] = CloserPlace(t)]
          /\ UNCHANGED <<row, creator, monitor>>
      BY DEF DeleteSession, ForceEnd
    <3>2. status'[t] = "ended"
      BY SweptTypes DEF DeleteSession, ForceEnd, Close, TypeOK
    <3> QED
      BY <2>1, <3>1, <3>2 DEF RowsFollowHub, TypeOK
  <2>4. CASE \E s \in Sessions : PersistEnd(s)
    <3> PICK t \in Sessions : PersistEnd(t)
      BY <2>4
    <3>1. /\ closer[t] # "none" /\ closer' = [closer EXCEPT ![t] = "none"]
          /\ row' = [row EXCEPT ![t] = IF row[t] = "absent" THEN "absent" ELSE "ended"]
          /\ UNCHANGED <<creator, monitor, status>>
      BY DEF PersistEnd, EndedRow, sessionVars
    <3> QED
      BY <3>1 DEF RowsFollowHub, TypeOK
  <2>5. CASE MonitorEndsUnconnected \/ MonitorEndsDisconnected
    <3>1. UNCHANGED <<row, creator, closer>>
      BY <2>5 DEF MonitorEndsUnconnected, MonitorEndsDisconnected
    <3>2. ASSUME NEW s \in Sessions, s \in monitor'.ended
          PROVE  s \in monitor.ended \/ status'[s] = "ended"
      <4>1. CASE MonitorEndsUnconnected
        BY <3>2, <4>1 DEF MonitorEndsUnconnected, EndAll, TypeOK
      <4>2. CASE MonitorEndsDisconnected
        BY <3>2, <4>2 DEF MonitorEndsDisconnected, EndAll, TypeOK
      <4> QED
        BY <2>5, <4>1, <4>2
    <3> QED
      BY <2>1, <3>1, <3>2 DEF RowsFollowHub
  <2>6. CASE MonitorPersists
    <3>1. UNCHANGED <<creator, closer, status>>
      BY <2>6 DEF MonitorPersists, sessionVars
    <3>2. monitor'.ended = {}
      BY <2>6 DEF MonitorPersists, Asleep
    <3>3. \A s \in Sessions : row'[s] = IF s \in monitor.ended /\ row[s] # "absent"
                                      THEN "ended" ELSE row[s]
      BY <2>6 DEF MonitorPersists
    <3> QED
      BY <3>1, <3>2, <3>3 DEF RowsFollowHub
  <2>7. CASE MonitorWakes \/ MonitorClosedRobot
    <3>1. UNCHANGED <<row, creator, closer>>
      BY <2>7 DEF MonitorWakes, MonitorClosedRobot
    <3>2. monitor'.ended \subseteq monitor.ended
      BY <2>7 DEF MonitorWakes, MonitorClosedRobot, Asleep, TypeOK
    <3> QED
      BY <2>1, <3>1, <3>2 DEF RowsFollowHub
  <2>8. CASE \/ GetSession
             \/ \E r \in Robots : \/ DisconnectRobot(r) \/ RobotView(r)
                                  \/ AddRobot(r) \/ DeleteRobot(r)
                                  \/ RobotConnects(r) \/ RobotDisconnects(r)
             \/ \E s \in Sessions : \/ ControlConnects(s) \/ ControlSpeaks(s)
                                    \/ ControlLeaves(s)
             \/ \E s \in Sessions, g \in Graces : Elapse(s, g)
             \/ UNCHANGED vars
    <3>1. UNCHANGED <<row, creator, closer, monitor>>
      BY <2>8 DEF GetSession, DisconnectRobot, RobotView, AddRobot, DeleteRobot,
         RobotConnects, RobotDisconnects, ControlConnects, ControlSpeaks,
         ControlLeaves, Elapse, taskVars, vars
    <3> QED
      BY <2>1, <3>1 DEF RowsFollowHub
  <2> QED
    BY <1>2, <2>2, <2>3, <2>4, <2>5, <2>6, <2>7, <2>8
    DEF Step, Handlers, Links, Monitor
<1> QED
  BY <1>1, <1>2

\* Row, hub and pending writers agree at every moment, restarts included.
THEOREM RowsFollow == Spec => []RowsFollowHub
<1>1. Init => RowsFollowHub
  BY DEF Init, RowsFollowHub, Asleep
<1>2. TypeOK /\ RowsFollowHub /\ [Next]_vars => RowsFollowHub'
  <2> SUFFICES ASSUME TypeOK, RowsFollowHub, [Next]_vars PROVE RowsFollowHub'
    OBVIOUS
  <2>1. CASE [Step]_vars
    BY <2>1, RowsStep
  <2>2. CASE Restart
    <3>1. monitor'.ended = {} /\ row' = row
      BY <2>2 DEF Restart, Asleep
    <3> QED
      BY <2>2, <3>1 DEF Restart, Restorable, RowsFollowHub, TypeOK
  <2> QED
    BY <2>1, <2>2 DEF Next
<1> QED
  BY <1>1, <1>2, TypeCorrect, PTL DEF Spec

\* A row that says "ended" says so for ever, and its session is never active
\* again, whatever is restored at start-up.
THEOREM PersistedEnds == Spec => PersistedEndIsFinal
<1>1. TypeOK /\ RowsFollowHub /\ RowsFollowHub' /\ [Next]_vars
        => [\A s \in Sessions : row[s] = "ended" => row'[s] = "ended" /\ status'[s] # "active"]_vars
  <2> SUFFICES ASSUME TypeOK, RowsFollowHub, RowsFollowHub', Next,
                      NEW s \in Sessions, row[s] = "ended"
               PROVE  row'[s] = "ended"
    BY DEF RowsFollowHub
  <2>1. CASE \E t \in Sessions : MediaStarted(t)
    BY <2>1 DEF MediaStarted, RowsFollowHub, TypeOK
  <2>2. CASE \E t \in Sessions : PersistEnd(t)
    BY <2>2 DEF PersistEnd, EndedRow, TypeOK
  <2>3. CASE MonitorPersists
    BY <2>3 DEF MonitorPersists
  <2>4. CASE row' = row
    BY <2>4
  <2>5. \/ \E t \in Sessions : MediaStarted(t) \/ PersistEnd(t)
        \/ MonitorPersists
        \/ row' = row
    BY DEF Next, Step, Handlers, Links, Monitor, GetSession, CreateSession,
       MediaRefused, DeleteSession, ForceEnd, DisconnectRobot, RobotView,
       AddRobot, DeleteRobot, RobotConnects, RobotDisconnects, ControlConnects,
       ControlSpeaks, ControlLeaves, Elapse, MonitorWakes,
       MonitorEndsUnconnected, MonitorEndsDisconnected, MonitorClosedRobot,
       Restart
  <2> QED
    BY <2>1, <2>2, <2>3, <2>4, <2>5
<1> QED
  BY <1>1, TypeCorrect, RowsFollow, PTL DEF Spec, PersistedEndIsFinal
=============================================================================
