--------------------- MODULE GatewayAndLocalizationProofs ---------------------
(***************************************************************************)
(* Theorems about two components that share no state: the robot's connection*)
(* to the center (RobotGateway), for every number of connections, requests *)
(* and restarts, and the robot's place on its map (Localization), for every*)
(* number of loads, turns, goals, calls and faults.                        *)
(*                                                                         *)
(* Of RobotGateway: presence is inductive once the types are known.  That a*)
(* command is carried out once at most, and that an accepted receipt is of *)
(* one that was, needs to know where a request and its answer can be: on the*)
(* way to the edge at most once and only before it ran, on the way back only*)
(* after it.                                                               *)
(*                                                                         *)
(* Of Localization: that one owner moves the robot is inductive with who has*)
(* stopped before a turn or a load begins.  That a localized robot was seen*)
(* on the grid it is on, and that READY rests on a verdict of this attempt,*)
(* needs to know what a tick that has decided relies on while the command  *)
(* thread writes.                                                          *)
(***************************************************************************)
EXTENDS RobotGateway, Localization, TLAPS

-----------------------------------------------------------------------------
(* RobotGateway: the invariants.                                           *)

\* The edge never gets as far as the second time.
RunsAtMostOnce == ran \in [Requests -> 0 .. 1]

\* Where a request is, and what is known of it there.
Whereabouts ==
  /\ RunsAtMostOnce
  /\ \A r \in Requests :
       /\ receipt[r] = "none" => task[r] = "idle"
       /\ receipt[r] = "none" \/ task[r] = "sending" =>
            ran[r] = 0 /\ \A c \in Conns : r \notin toRobot[c]
  /\ \A c \in Conns : \A r \in toRobot[c] :
       ran[r] = 0 /\ \A d \in Conns : r \in toRobot[d] => d = c

\* A good answer was earned, wherever it has got to.
Earned ==
  /\ \A c \in Conns : \A r \in owed[c] : ran[r] = 1
  /\ \A c \in Conns : \A a \in fromRobot[c] : a.status = "accepted" => ran[a.request] = 1
  /\ \A r \in Requests : future[r] = "accepted" \/ receipt[r] = "accepted" => ran[r] = 1

\* A connection, its handler and the requests that wait for it.
Presence == LinkedIsOnline /\ LinkHasHandler /\ NobodyWaitsForNobody

-----------------------------------------------------------------------------
(* Types.                                                                  *)

LEMMA FinishTypes ==
  ASSUME TypeOK, NEW r \in Requests, NEW status \in {"accepted", "rejected"},
         Finish(r, status)
  PROVE  /\ receipt' \in [Requests -> {"none", "pending", "accepted", "rejected"}]
         /\ task' \in [Requests -> {"idle", "sending", "waiting", "done"}]
         /\ via' \in [Requests -> Conns \cup {NoConn}]
         /\ future' \in [Requests -> {"none", "pending", "accepted", "rejected", "offline"}]
BY DEF Finish, TypeOK

LEMMA TypeStep ==
  ASSUME TypeOK, RunsAtMostOnce, [Next]_vars
  PROVE  TypeOK'
<1>1. ASSUME NEW c \in Conns, EdgeConnects(c) PROVE TypeOK'
  BY <1>1 DEF EdgeConnects, Closing, TypeOK, callVars
<1>2. ASSUME NEW c \in Conns, OldClosed(c) \/ StartReceive(c) PROVE TypeOK'
  BY <1>2 DEF OldClosed, StartReceive, TypeOK, presenceVars, callVars, edgeVars
<1>3. ASSUME NEW c \in Conns, ReceiveTelemetry(c) PROVE TypeOK'
  BY <1>3 DEF ReceiveTelemetry, Touched, TypeOK, callVars, edgeVars
<1>4. ASSUME NEW c \in Conns, ReceiveAnswer(c) PROVE TypeOK'
  <2>1. PICK a \in fromRobot[c] :
          fromRobot' = [fromRobot EXCEPT ![c] = @ \ {a}] /\ future' = Resolved(a)
    BY <1>4 DEF ReceiveAnswer
  <2>2. fromRobot' \in [Conns -> SUBSET Answers] /\ a \in Answers
    BY <2>1 DEF TypeOK
  <2>3. future' \in [Requests -> {"none", "pending", "accepted", "rejected", "offline"}]
    BY <2>1, <2>2 DEF Resolved, Answers, TypeOK
  <2> QED
    BY <1>4, <2>2, <2>3 DEF ReceiveAnswer, Touched, TypeOK
<1>5. ASSUME NEW c \in Conns, Leave(c) PROVE TypeOK'
  <2>1. future' \in [Requests -> {"none", "pending", "accepted", "rejected", "offline"}]
    BY <1>5 DEF Leave, Failed, TypeOK
  <2> QED
    BY <1>5, <2>1 DEF Leave, StatusAfter, TypeOK, edgeVars
<1>6. ASSUME NEW c \in Conns, SocketCloses(c) PROVE TypeOK'
  BY <1>6 DEF SocketCloses, TypeOK, presenceVars, callVars, edgeVars
<1>7. CASE HeartbeatTimeout
  BY <1>7 DEF HeartbeatTimeout, TypeOK, presenceVars, callVars, edgeVars
<1>8. ASSUME NEW r \in Requests, Dispatch(r) PROVE TypeOK'
  <2>1. /\ receipt' \in [Requests -> {"none", "pending", "accepted", "rejected"}]
        /\ task' \in [Requests -> {"idle", "sending", "waiting", "done"}]
        /\ via' \in [Requests -> Conns \cup {NoConn}]
        /\ future' \in [Requests -> {"none", "pending", "accepted", "rejected", "offline"}]
    BY <1>8, FinishTypes, SMTT(30) DEF Dispatch, TypeOK
  <2> QED
    BY <1>8, <2>1 DEF Dispatch, TypeOK, handlerVars, presenceVars, edgeVars
<1>9. ASSUME NEW r \in Requests, Send(r) PROVE TypeOK'
  <2>1. /\ receipt' \in [Requests -> {"none", "pending", "accepted", "rejected"}]
        /\ task' \in [Requests -> {"idle", "sending", "waiting", "done"}]
        /\ via' \in [Requests -> Conns \cup {NoConn}]
        /\ future' \in [Requests -> {"none", "pending", "accepted", "rejected", "offline"}]
    BY <1>9, FinishTypes DEF Send, TypeOK
  <2>2. toRobot' \in [Conns -> SUBSET Requests]
    BY <1>9 DEF Send, Sendable, TypeOK
  <2> QED
    BY <1>9, <2>1, <2>2 DEF Send, TypeOK, handlerVars, presenceVars
<1>10. ASSUME NEW r \in Requests, Wake(r) \/ Timeout(r) PROVE TypeOK'
  <2>1. PICK status \in {"accepted", "rejected"} : Finish(r, status)
    BY <1>10 DEF Wake, Timeout, TypeOK
  <2> QED
    BY <1>10, <2>1, FinishTypes DEF Wake, Timeout, TypeOK, handlerVars, presenceVars, edgeVars
<1>11. ASSUME NEW c \in Conns, NEW r \in Requests, RobotRuns(c, r) PROVE TypeOK'
  <2>1. ran' \in [Requests -> 0 .. 2]
    BY <1>11 DEF RobotRuns, RunsAtMostOnce
  <2> QED
    BY <1>11, <2>1 DEF RobotRuns, TypeOK, handlerVars, presenceVars, callVars
<1>12. ASSUME NEW c \in Conns, NEW r \in Requests, RobotAnswers(c, r) \/ RobotRefuses(c, r)
       PROVE  TypeOK'
  <2>1. fromRobot' \in [Conns -> SUBSET Answers]
    BY <1>12 DEF RobotAnswers, RobotRefuses, Answers, TypeOK
  <2> QED
    BY <1>12, <2>1 DEF RobotAnswers, RobotRefuses, TypeOK, handlerVars, presenceVars, callVars
<1>13. CASE EdgeLeaves
  BY <1>13 DEF EdgeLeaves, TypeOK, handlerVars, presenceVars, callVars
<1>14. CASE Restart
  <2>1. restarts' \in 0 .. MaxRestarts
    BY <1>14, RestartsAssumption DEF Restart, TypeOK
  <2>2. /\ pc' \in [Conns -> {"new", "closingOld", "receiving", "handling", "done"}]
        /\ sock' \in [Conns -> {"open", "closing", "closed"}]
    BY <1>14 DEF Restart
  <2> QED
    BY <1>14, <2>1, <2>2 DEF Restart, TypeOK
<1>15. CASE UNCHANGED vars
  BY <1>15 DEF vars, TypeOK
<1> QED
  BY <1>1, <1>2, <1>3, <1>4, <1>5, <1>6, <1>7, <1>8, <1>9, <1>10, <1>11, <1>12, <1>13,
     <1>14, <1>15 DEF Next, Handler, Call, Robot

-----------------------------------------------------------------------------
(* One lemma for each invariant: no step breaks it.                        *)

LEMMA WhereaboutsStep ==
  ASSUME TypeOK, Whereabouts, [Next]_vars
  PROVE  Whereabouts'
<1> USE DEF Whereabouts, RunsAtMostOnce, TypeOK
<1>1. CASE UNCHANGED <<receipt, task, toRobot, ran>>
  BY <1>1
<1>2. ASSUME NEW r \in Requests, Dispatch(r) PROVE Whereabouts'
  BY <1>2 DEF Dispatch, MayDispatch, Finish, edgeVars
<1>3. ASSUME NEW r \in Requests, Send(r) PROVE Whereabouts'
  <2>1. CASE ~Sendable(r)
    BY <1>3, <2>1 DEF Send, Finish
  <2>2. CASE Sendable(r)
    BY <1>3, <2>2 DEF Send, Sendable
  <2> QED
    BY <2>1, <2>2
<1>4. ASSUME NEW r \in Requests, Wake(r) \/ Timeout(r) PROVE Whereabouts'
  <2>1. /\ UNCHANGED <<toRobot, ran>> /\ task' = [task EXCEPT ![r] = "done"]
        /\ task[r] = "waiting"
    BY <1>4 DEF Wake, Timeout, TimedOut, Finish, edgeVars
  <2>2. receipt[r] # "none"
    BY <2>1
  <2>3. PICK status : receipt' = [receipt EXCEPT ![r] = status] /\ status # "none"
    BY <1>4 DEF Wake, Timeout, Finish
  <2> QED
    BY <2>1, <2>2, <2>3
<1>5. ASSUME NEW c \in Conns, NEW r \in Requests, RobotRuns(c, r) PROVE Whereabouts'
  BY <1>5 DEF RobotRuns, callVars
<1>6. ASSUME NEW c \in Conns, NEW r \in Requests, RobotRefuses(c, r) PROVE Whereabouts'
  BY <1>6 DEF RobotRefuses, callVars
<1>7. CASE EdgeLeaves
  BY <1>7 DEF EdgeLeaves, callVars
<1>8. CASE Restart
  BY <1>8 DEF Restart
<1> QED
  <2>1. CASE \E c \in Conns : Handler(c) \/ SocketCloses(c)
    BY <1>1, <2>1 DEF Handler, EdgeConnects, OldClosed, StartReceive, ReceiveTelemetry,
       ReceiveAnswer, Leave, SocketCloses, callVars, edgeVars
  <2>2. CASE HeartbeatTimeout \/ UNCHANGED vars
    BY <1>1, <2>2 DEF HeartbeatTimeout, callVars, edgeVars, vars
  <2>3. CASE \E c \in Conns, r \in Requests : RobotAnswers(c, r)
    BY <1>1, <2>3 DEF RobotAnswers, callVars
  <2> QED
    BY <1>2, <1>3, <1>4, <1>5, <1>6, <1>7, <1>8, <2>1, <2>2, <2>3 DEF Next, Call, Robot

LEMMA EarnedStep ==
  ASSUME TypeOK, Whereabouts, Earned, [Next]_vars
  PROVE  Earned'
<1> USE DEF Earned, TypeOK
<1>1. CASE UNCHANGED <<owed, fromRobot, receipt, future, ran>>
  BY <1>1
<1>2. ASSUME NEW c \in Conns, ReceiveAnswer(c) PROVE Earned'
  BY <1>2 DEF ReceiveAnswer, Resolved, Answers
<1>3. ASSUME NEW c \in Conns, Leave(c) PROVE Earned'
  BY <1>3 DEF Leave, Failed, edgeVars
<1>4. ASSUME NEW r \in Requests, Dispatch(r) PROVE Earned'
  BY <1>4 DEF Dispatch, Finish, edgeVars
<1>5. ASSUME NEW r \in Requests, Send(r) PROVE Earned'
  BY <1>5 DEF Send, Finish
<1>6. ASSUME NEW r \in Requests, Wake(r) \/ Timeout(r) PROVE Earned'
  BY <1>6 DEF Wake, Timeout, Finish, edgeVars
<1>7. ASSUME NEW c \in Conns, NEW r \in Requests, RobotRuns(c, r) PROVE Earned'
  <2>1. ran[r] = 0 /\ ran' = [ran EXCEPT ![r] = 1]
    <3>1. ran[r] = 0
      BY <1>7 DEF RobotRuns, Whereabouts
    <3> QED
      BY <1>7, <3>1 DEF RobotRuns
  <2>2. \A s \in Requests : ran[s] = 1 => ran'[s] = 1
    BY <2>1
  <2>3. owed' = [owed EXCEPT ![c] = @ \cup {r}] /\ UNCHANGED <<fromRobot, receipt, future>>
    BY <1>7 DEF RobotRuns, callVars
  <2> QED
    BY <2>1, <2>2, <2>3 DEF Answers
<1>8. ASSUME NEW c \in Conns, NEW r \in Requests, RobotAnswers(c, r) \/ RobotRefuses(c, r)
      PROVE  Earned'
  BY <1>8 DEF RobotAnswers, RobotRefuses, callVars
<1>9. CASE EdgeLeaves
  BY <1>9 DEF EdgeLeaves, callVars
<1>10. CASE Restart
  BY <1>10 DEF Restart
<1> QED
  <2>1. CASE \E c \in Conns : EdgeConnects(c) \/ OldClosed(c) \/ StartReceive(c)
                                \/ ReceiveTelemetry(c) \/ SocketCloses(c)
    BY <1>1, <2>1 DEF EdgeConnects, OldClosed, StartReceive, ReceiveTelemetry, SocketCloses,
       callVars, edgeVars
  <2>2. CASE HeartbeatTimeout \/ UNCHANGED vars
    BY <1>1, <2>2 DEF HeartbeatTimeout, callVars, edgeVars, vars
  <2> QED
    BY <1>2, <1>3, <1>4, <1>5, <1>6, <1>7, <1>8, <1>9, <1>10, <2>1, <2>2
    DEF Next, Handler, Call, Robot

LEMMA PresenceStep ==
  ASSUME TypeOK, Presence, [Next]_vars
  PROVE  Presence'
<1> USE DEF Presence, LinkedIsOnline, LinkHasHandler, NobodyWaitsForNobody, TypeOK
<1>1. CASE UNCHANGED <<pc, link, online, future>>
  BY <1>1
<1>2. ASSUME NEW c \in Conns, EdgeConnects(c) PROVE Presence'
  BY <1>2, NoConnAssumption DEF EdgeConnects, callVars
<1>3. ASSUME NEW c \in Conns, OldClosed(c) \/ StartReceive(c) \/ ReceiveTelemetry(c)
      PROVE  Presence'
  BY <1>3 DEF OldClosed, StartReceive, ReceiveTelemetry, Touched, presenceVars, callVars
<1>4. ASSUME NEW c \in Conns, ReceiveAnswer(c) PROVE Presence'
  BY <1>4 DEF ReceiveAnswer, Touched, Resolved, Answers
<1>5. ASSUME NEW c \in Conns, Leave(c) PROVE Presence'
  BY <1>5 DEF Leave, Registered, StatusAfter, Failed
<1>6. ASSUME NEW r \in Requests, Call(r) PROVE Presence'
  BY <1>6 DEF Call, Dispatch, Send, Wake, Timeout, Finish, handlerVars, presenceVars
<1>7. CASE Restart
  BY <1>7 DEF Restart
<1> QED
  <2>1. CASE HeartbeatTimeout \/ (\E c \in Conns : SocketCloses(c)) \/ UNCHANGED vars
    BY <1>1, <2>1 DEF HeartbeatTimeout, SocketCloses, presenceVars, callVars, vars
  <2>2. CASE Robot
    BY <1>1, <2>2 DEF Robot, RobotRuns, RobotAnswers, RobotRefuses, EdgeLeaves, handlerVars,
       presenceVars, callVars
  <2> QED
    BY <1>2, <1>3, <1>4, <1>5, <1>6, <1>7, <2>1, <2>2 DEF Next, Handler

-----------------------------------------------------------------------------
(* The theorems.                                                           *)

LEMMA Initially == Init => TypeOK /\ Whereabouts /\ Earned /\ Presence
<1> SUFFICES ASSUME Init PROVE TypeOK /\ Whereabouts /\ Earned /\ Presence
  OBVIOUS
<1>1. TypeOK
  <2>1. restarts \in 0 .. MaxRestarts /\ ran \in [Requests -> 0 .. 2]
    BY RestartsAssumption DEF Init
  <2> QED
    BY <2>1 DEF Init, TypeOK
<1>2. Whereabouts
  BY DEF Init, Whereabouts, RunsAtMostOnce
<1>3. Earned
  BY DEF Init, Earned
<1>4. Presence
  BY DEF Init, Presence, LinkedIsOnline, LinkHasHandler, NobodyWaitsForNobody
<1> QED
  BY <1>1, <1>2, <1>3, <1>4

LEMMA RequestsAreTracked == Spec => [](TypeOK /\ Whereabouts)
<1>1. Init => TypeOK /\ Whereabouts
  BY Initially
<1>2. TypeOK /\ Whereabouts /\ [Next]_vars => TypeOK' /\ Whereabouts'
  BY TypeStep, WhereaboutsStep DEF Whereabouts
<1> QED
  BY <1>1, <1>2, PTL DEF Spec

\* Handlers, presence, requests and the edge keep their types; that nothing runs
\* often enough to leave them is part of it (TypeOK).
THEOREM TypeCorrect == Spec => []TypeOK
BY RequestsAreTracked, PTL

\* The robot carries a request out once at most, whatever is lost, late or asked
\* again, and whenever the center restarts (_dispatch_idempotent).
THEOREM RunsOnce == Spec => []AtMostOnce
<1>1. Whereabouts => AtMostOnce
  BY DEF Whereabouts, RunsAtMostOnce, AtMostOnce
<1> QED
  BY <1>1, RequestsAreTracked, PTL

\* A receipt says accepted only of a request that was carried out
\* (resolve_robot_request, _dispatch_idempotent).
THEOREM ReceiptIsTrue == Spec => []AcceptedWasRun
<1>1. Init => Earned
  BY Initially
<1>2. TypeOK /\ Whereabouts /\ Earned /\ [Next]_vars => Earned'
  BY EarnedStep
<1>3. Earned => AcceptedWasRun
  BY DEF Earned, AcceptedWasRun
<1> QED
  BY <1>1, <1>2, <1>3, RequestsAreTracked, PTL DEF Spec

LEMMA PresenceHolds == Spec => []Presence
<1>1. Init => Presence
  BY Initially
<1>2. TypeOK /\ Presence /\ [Next]_vars => Presence'
  BY PresenceStep
<1> QED
  BY <1>1, <1>2, TypeCorrect, PTL DEF Spec

\* A robot whose connection is registered is not listed as offline
\* (register_robot, unregister_robot).
THEOREM PresenceIsNotLost == Spec => []LinkedIsOnline
<1>1. Presence => LinkedIsOnline
  BY DEF Presence
<1> QED
  BY <1>1, PresenceHolds, PTL

\* The registered connection has a handler that will take it away
\* (register_robot, the finally of robot_gateway).
THEOREM LinkIsAttended == Spec => []LinkHasHandler
<1>1. Presence => LinkHasHandler
  BY DEF Presence
<1> QED
  BY <1>1, PresenceHolds, PTL

\* No request waits for an answer of a robot that has no connection
\* (unregister_robot).
THEOREM WaitsHaveAnEnd == Spec => []NobodyWaitsForNobody
<1>1. Presence => NobodyWaitsForNobody
  BY DEF Presence
<1> QED
  BY <1>1, PresenceHolds, PTL


-----------------------------------------------------------------------------
(* Localization: types.                                                    *)

USE BoundsAssumption

Attempts == [ls : States, localized : BOOLEAN, allow : BOOLEAN, untrusted : BOOLEAN,
             pending : BOOLEAN, hint : BOOLEAN, approx : BOOLEAN, odometry : BOOLEAN,
             assisted : BOOLEAN, held : BOOLEAN, settled : BOOLEAN, turns : 0 .. MaxTurns]
Missions == [cur : {"rest", "PLANNING", "NAVIGATING", "WAITING"}, goal : Goals,
             drive : Goals, byTime : Goals, byLoss : Goals, timing : BOOLEAN,
             losing : BOOLEAN]
Threaded == [by : {"time", "loss"}, goal : Goals, pc : {"check", "start", "clear"}]
Evidence == [level : Levels, grid : 0 .. MaxLoads]
Searches == [kind : {"seed", "check"}, grid : 0 .. MaxLoads, current : BOOLEAN]
Spendings == [loads : 0 .. MaxLoads, calls : 0 .. MaxCalls, goals : Goals,
              faults : 0 .. MaxFaults]

Loads == [pc : {"idle", "loading", "loaded"}, grid : 0 .. MaxLoads, localized : BOOLEAN,
          ls : States, through : BOOLEAN]
Sensors == [ok : BOOLEAN, hard : BOOLEAN, previous : States]

LocalizationTypes ==
  /\ grid \in 0 .. MaxLoads /\ att \in Attempts /\ obs \in Evidence
  /\ verdict \in {"none", "busy", "good", "bad"} /\ foreign \in BOOLEAN
  /\ workers \subseteq Searches
  /\ rotating \in BOOLEAN /\ anchor \in BOOLEAN /\ calling \in BOOLEAN
  /\ sensor \in Sensors /\ nav \in Missions /\ resumes \subseteq Threaded
  /\ command \in Loads /\ tick \in {"idle", "accept", "rotate"} /\ spent \in Spendings

LEMMA Zeros == 0 \in Goals /\ 0 \in 0 .. MaxLoads /\ 0 \in 0 .. MaxTurns
BY DEF Goals

LEMMA NamedTypes == LocalizationTypeOK <=> LocalizationTypes
BY DEF LocalizationTypeOK, LocalizationTypes, Attempts, Evidence, Searches, Sensors, Missions,
       Threaded, Loads, Spendings

\* What an attempt becomes keeps its fields, and what it says of the state, of the
\* permission to rotate and of the trust in it.
LEMMA ResetAttempt ==
  ASSUME NEW a \in Attempts
  PROVE  /\ Reset(a) \in Attempts
         /\ Reset(a).ls = a.ls /\ Reset(a).allow = a.allow /\ ~Reset(a).untrusted
BY DEF Reset, Attempts

LEMMA GlobalAttempt ==
  ASSUME NEW a \in Attempts
  PROVE  /\ Global(a) \in Attempts /\ [Global(a) EXCEPT !.ls = "LOCALIZATION_FAILED"] \in Attempts
         /\ Global(a).ls = "PASSIVE_LOCALIZING" /\ Global(a).allow = a.allow
         /\ [Global(a) EXCEPT !.ls = "LOCALIZATION_FAILED"].ls = "LOCALIZATION_FAILED"
         /\ [Global(a) EXCEPT !.ls = "LOCALIZATION_FAILED"].allow = a.allow
<1>1. Reset(a) \in Attempts /\ Reset(a).allow = a.allow
  BY ResetAttempt
<1>2. {"PASSIVE_LOCALIZING", "LOCALIZATION_FAILED"} \subseteq States
  BY DEF States, Searching, Passive
<1>3. 0 \in 0 .. MaxTurns
  OBVIOUS
<1>4. /\ Global(a) \in Attempts /\ Global(a).ls = "PASSIVE_LOCALIZING"
      /\ Global(a).allow = a.allow
  BY <1>1, <1>2, <1>3 DEF Global, Attempts
<1> QED
  BY <1>2, <1>4 DEF Attempts

LEMMA VerificationAttempt ==
  ASSUME NEW a \in Attempts, NEW allow \in BOOLEAN
  PROVE  /\ Verification(a, allow) \in Attempts /\ Verification(a, allow).ls = "VERIFYING"
         /\ Verification(a, allow).allow = allow /\ ~Verification(a, allow).untrusted
<1>1. "VERIFYING" \in States
  BY DEF States, Searching
<1> QED
  BY <1>1 DEF Verification, Attempts

LEMMA SeedAttempts ==
  ASSUME NEW a \in Attempts, NEW allow \in BOOLEAN
  PROVE  /\ ClickHint(a) \in Attempts /\ OdometryPrior(a, allow) \in Attempts
         /\ ScanSeed(a) \in Attempts /\ LastPose(a, allow) \in Attempts
         /\ ClickHint(a).ls \in Seeds /\ OdometryPrior(a, allow).ls \in Seeds
         /\ ScanSeed(a).ls \in Seeds /\ LastPose(a, allow).ls \in Seeds
         /\ ClickHint(a).allow = a.allow /\ OdometryPrior(a, allow).allow = allow
         /\ ScanSeed(a).allow = a.allow /\ ~LastPose(a, allow).allow
         /\ ~OdometryPrior(a, allow).untrusted
<1>1. /\ Reset(a) \in Attempts /\ Reset(a).allow = a.allow /\ ~Reset(a).untrusted
  BY ResetAttempt
<1>2. Seeds = {"LOCALIZING_LAST_POSE", "LOCALIZING_APPROXIMATE_POSE"} /\ Seeds \subseteq States
  BY DEF Seeds, States
<1>3. ClickHint(a) \in Attempts /\ ClickHint(a).ls \in Seeds /\ ClickHint(a).allow = a.allow
  BY <1>1, <1>2 DEF ClickHint, Attempts
<1>4. /\ OdometryPrior(a, allow) \in Attempts /\ OdometryPrior(a, allow).ls \in Seeds
      /\ OdometryPrior(a, allow).allow = allow /\ ~OdometryPrior(a, allow).untrusted
  BY <1>1, <1>2 DEF OdometryPrior, Attempts
<1>5. ScanSeed(a) \in Attempts /\ ScanSeed(a).ls \in Seeds /\ ScanSeed(a).allow = a.allow
  BY <1>1, <1>2 DEF ScanSeed, Attempts
<1>6. /\ LastPose(a, allow) \in Attempts /\ LastPose(a, allow).ls \in Seeds
      /\ ~LastPose(a, allow).allow
  <2>1. 0 \in 0 .. MaxTurns
    OBVIOUS
  <2> QED
    BY <1>1, <1>2, <2>1 DEF LastPose, Attempts
<1> QED
  BY <1>3, <1>4, <1>5, <1>6

LEMMA TickAttempts ==
  ASSUME NEW a \in Attempts
  PROVE  /\ Assistance(a) \in Attempts /\ NextRotation(a) \in Attempts
         /\ Assistance(a).ls = "AMBIGUOUS" /\ Assistance(a).allow = a.allow
         /\ NextRotation(a).ls = "LOCALIZING_ROTATING" /\ NextRotation(a).allow = a.allow
<1>1. {"AMBIGUOUS", "LOCALIZING_ROTATING"} \subseteq States
  BY DEF States, Searching, Passive, Active
<1> QED
  BY <1>1 DEF Assistance, NextRotation, Attempts

LEMMA ReadyTypes ==
  ASSUME NEW a \in Attempts, "READY" \in States
  PROVE  [a EXCEPT !.localized = TRUE, !.ls = "READY", !.hint = FALSE, !.held = TRUE,
                   !.odometry = FALSE, !.allow = FALSE, !.pending = FALSE, !.untrusted = FALSE,
                   !.approx = FALSE] \in Attempts
<1>1. [a EXCEPT !.localized = TRUE, !.ls = "READY", !.hint = FALSE, !.held = TRUE] \in Attempts
  BY DEF Attempts
<1>2. ASSUME NEW b \in Attempts
      PROVE  [b EXCEPT !.odometry = FALSE, !.allow = FALSE, !.pending = FALSE,
                       !.untrusted = FALSE, !.approx = FALSE] \in Attempts
  BY DEF Attempts
<1> QED
  BY <1>1, <1>2

LEMMA AcceptedAttempt ==
  ASSUME NEW a \in Attempts, Accept, a = att
  PROVE  att' \in Attempts /\ att'.ls = "READY" /\ ~att'.allow
<1>1. "READY" \in States
  BY DEF States
<1>2. [a EXCEPT !.localized = TRUE, !.ls = "READY", !.hint = FALSE, !.held = TRUE,
                !.odometry = FALSE, !.allow = FALSE, !.pending = FALSE, !.untrusted = FALSE,
                !.approx = FALSE] \in Attempts
  BY <1>1, ReadyTypes
<1>3. /\ att' \in Attempts
      /\ att' = [a EXCEPT !.localized = TRUE, !.ls = "READY", !.hint = FALSE, !.held = TRUE,
                          !.odometry = FALSE, !.allow = FALSE, !.pending = FALSE,
                          !.untrusted = FALSE, !.approx = FALSE]
  BY <1>2 DEF Accept
<1> QED
  BY <1>3 DEF Attempts

LEMMA MissionOperators ==
  ASSUME NEW n \in Missions
  PROVE  /\ Rests(n) \in Missions /\ Halt(n) \in Missions /\ NoResume(n) \in Missions
         /\ Resumed(n) \in Missions
         /\ Rests(n).cur = "rest" /\ Rests(n).drive = n.drive
         /\ Rests(n).byTime = n.byTime /\ Rests(n).byLoss = n.byLoss
         /\ Halt(n).cur = "rest" /\ Halt(n).drive = 0
         /\ Halt(n).byTime = n.byTime /\ Halt(n).byLoss = n.byLoss
         /\ NoResume(n).cur = n.cur /\ NoResume(n).drive = n.drive
         /\ NoResume(n).byTime = 0 /\ NoResume(n).byLoss = 0
         /\ Resumed(n).drive = n.drive /\ Resumed(n).byTime = n.byTime
         /\ Resumed(n).byLoss = n.byLoss
<1>1. 0 \in Goals
  BY DEF Goals
<1>2. /\ Rests(n) \in Missions /\ Rests(n).cur = "rest" /\ Rests(n).drive = n.drive
      /\ Rests(n).byTime = n.byTime /\ Rests(n).byLoss = n.byLoss
  BY DEF Rests, Missions
<1>3. /\ Halt(n) \in Missions /\ Halt(n).cur = "rest" /\ Halt(n).drive = 0
      /\ Halt(n).byTime = n.byTime /\ Halt(n).byLoss = n.byLoss
  BY <1>1 DEF Halt, Missions
<1>4. /\ NoResume(n) \in Missions /\ NoResume(n).cur = n.cur /\ NoResume(n).drive = n.drive
      /\ NoResume(n).byTime = 0 /\ NoResume(n).byLoss = 0
  BY <1>1 DEF NoResume, Missions
<1>5. /\ Resumed(n) \in Missions /\ Resumed(n).drive = n.drive
      /\ Resumed(n).byTime = n.byTime /\ Resumed(n).byLoss = n.byLoss
  <2>1. (n.timing \/ DueByTime(n)) \in BOOLEAN /\ (n.losing \/ DueByLoss(n)) \in BOOLEAN
    BY DEF Missions
  <2>2. (IF DueByTime(n) \/ DueByLoss(n) THEN "PLANNING" ELSE n.cur)
          \in {"rest", "PLANNING", "NAVIGATING", "WAITING"}
    BY DEF Missions
  <2> QED
    BY <2>1, <2>2 DEF Resumed, Missions
<1> QED
  BY <1>2, <1>3, <1>4, <1>5

LEMMA ThreadTypes ==
  ASSUME NEW n \in Missions
  PROVE  Threads(n) \subseteq Threaded
BY DEF Threads, Resume, Threaded, Missions

LEMMA SetTypes ==
  /\ \A W \in SUBSET Searches : Outdated(W) \subseteq Searches
  /\ \A R \in SUBSET Threaded : Retired(R) \subseteq R /\ \A r \in Retired(R) : r.pc = "clear"
BY DEF Outdated, Retired, Searches

\* What a call, a goal, a load or a fault costs is within its bound.
LEMMA SpendTypes ==
  ASSUME LocalizationTypes
  PROVE  /\ \A what \in AllFaults : Fails(what) =>
               spent' \in Spendings /\ spent'.loads = spent.loads /\ spent'.goals = spent.goals
         /\ May /\ Spend("calls") =>
               spent' \in Spendings /\ spent'.loads = spent.loads /\ spent'.goals = spent.goals
         /\ spent.loads < MaxLoads /\ Spend("loads") =>
               spent' \in Spendings /\ spent'.loads = spent.loads + 1
         /\ spent.goals < MaxGoals /\ Spend("goals") =>
               spent' \in Spendings /\ spent'.loads = spent.loads
BY DEF LocalizationTypes, Spendings, Fails, Spend, May, Goals

LEMMA ForgetTypes ==
  ASSUME LocalizationTypes, Forget
  PROVE  /\ obs' = NoEvidence /\ obs' \in Evidence /\ verdict' = "none" /\ foreign' = FALSE
         /\ workers' \subseteq Searches
BY SetTypes DEF LocalizationTypes, Forget, NoEvidence, Evidence, Levels

\* What a global search leaves for the attempt a.
GlobalBegins(a) ==
  /\ att' \in Attempts /\ att'.ls \in {"PASSIVE_LOCALIZING", "LOCALIZATION_FAILED"}
  /\ att'.allow = a.allow
  /\ obs' = NoEvidence /\ obs' \in Evidence /\ verdict' = "none" /\ foreign' = FALSE
  /\ workers' \subseteq Searches
  /\ rotating' = FALSE /\ calling' \in BOOLEAN
  /\ spent' \in Spendings

LEMMA StartGlobalTypes ==
  ASSUME LocalizationTypes, NEW a \in Attempts, NEW calls \in {0, 1}, calls = 1 => May,
         StartGlobalFor(a, calls)
  PROVE  GlobalBegins(a)
<1>1. Forget /\ rotating' = FALSE
  BY DEF StartGlobalFor
<1>2. /\ Global(a) \in Attempts /\ [Global(a) EXCEPT !.ls = "LOCALIZATION_FAILED"] \in Attempts
      /\ Global(a).ls = "PASSIVE_LOCALIZING" /\ Global(a).allow = a.allow
      /\ [Global(a) EXCEPT !.ls = "LOCALIZATION_FAILED"].ls = "LOCALIZATION_FAILED"
      /\ [Global(a) EXCEPT !.ls = "LOCALIZATION_FAILED"].allow = a.allow
  BY GlobalAttempt
<1>3. CASE /\ att' = Global(a) /\ calling' = TRUE
           /\ spent' = [spent EXCEPT !.calls = @ + calls]
  <2>1. spent' \in Spendings
    BY <1>3 DEF LocalizationTypes, Spendings, May, Goals
  <2> QED
    BY <1>1, <1>2, <1>3, <2>1, ForgetTypes DEF GlobalBegins
<1>4. CASE /\ att' = [Global(a) EXCEPT !.ls = "LOCALIZATION_FAILED"] /\ UNCHANGED calling
           /\ "service" \in FaultKinds /\ spent.faults < MaxFaults
           /\ spent' = [spent EXCEPT !.calls = @ + calls, !.faults = @ + 1]
  <2>1. spent' \in Spendings
    <3>1. spent.calls + calls \in 0 .. MaxCalls
      BY DEF LocalizationTypes, Spendings, May, Goals
    <3>2. spent.faults + 1 \in 0 .. MaxFaults
      BY <1>4 DEF LocalizationTypes, Spendings
    <3> QED
      BY <1>4, <3>1, <3>2 DEF LocalizationTypes, Spendings
  <2>2. calling' \in BOOLEAN
    BY <1>4 DEF LocalizationTypes
  <2> QED
    BY <1>1, <1>2, <1>4, <2>1, <2>2, ForgetTypes DEF GlobalBegins
<1> QED
  BY <1>3, <1>4 DEF StartGlobalFor

LEMMA SearchTypes ==
  ASSUME LocalizationTypes, NEW a \in Attempts, StartGlobal(a)
  PROVE  GlobalBegins(a)
BY StartGlobalTypes DEF StartGlobal

LEMMA VerifyTypes ==
  ASSUME LocalizationTypes, NEW allow \in BOOLEAN, Verify(allow)
  PROVE  /\ att' \in Attempts /\ att'.ls = "VERIFYING" /\ att'.allow = allow
         /\ ~att'.untrusted /\ rotating' = FALSE
         /\ obs' \in Evidence /\ obs'.grid = obs.grid
<1>1. obs' \in Evidence /\ obs'.grid = obs.grid
  BY DEF LocalizationTypes, Verify, StationaryReset, Evidence, Levels
<1> QED
  BY <1>1, VerificationAttempt DEF LocalizationTypes, Verify

LEMMA JudgedTypes ==
  ASSUME LocalizationTypes
  PROVE  /\ Judged \in Attempts /\ Judged.ls = att.ls /\ Judged.allow = att.allow
         /\ Judged.untrusted = att.untrusted /\ Judged.hint = att.hint
<1>1. (att.held /\ Accepted) \in BOOLEAN
  BY DEF LocalizationTypes, Attempts
<1> QED
  BY <1>1 DEF LocalizationTypes, Judged, Attempts

\* Every action, whatever the attempt, the load and the mission are at.
LEMMA MonitorsKeepTypes == LocalizationTypes /\ Monitors => LocalizationTypes'
<1> SUFFICES ASSUME LocalizationTypes, Monitors PROVE LocalizationTypes'
  OBVIOUS
<1> USE DEF evidence, search, mission
<1>1. CASE TickLosesTf
  <2>1. spent' \in Spendings
    BY <1>1, SpendTypes DEF TickLosesTf, AllFaults
  <2>2. att' \in Attempts
    BY <1>1 DEF TickLosesTf, LocalizationTypes, Attempts, States
  <2>3. nav' \in Missions
    BY <1>1, MissionOperators DEF TickLosesTf, Resting, LocalizationTypes
  <2> QED
    BY <1>1, <2>1, <2>2, <2>3 DEF TickLosesTf, LocalizationTypes
<1>2. CASE TickDegrades
  <2>1. att' \in Attempts /\ sensor' \in Sensors
    BY <1>2 DEF TickDegrades, LocalizationTypes, Attempts, Sensors, States
  <2>2. nav' \in Missions
    <3>1. Halt(nav) \in Missions
      BY MissionOperators DEF LocalizationTypes
    <3> QED
      BY <1>2, <3>1 DEF TickDegrades, LocalizationTypes, Missions
  <2>3. resumes' \subseteq Threaded
    BY <1>2, SetTypes DEF TickDegrades, NewGeneration, LocalizationTypes
  <2> QED
    BY <1>2, <2>1, <2>2, <2>3 DEF TickDegrades, LocalizationTypes
<1>3. CASE TickGivesUpOnSensors
  BY <1>3 DEF TickGivesUpOnSensors, LocalizationTypes, Sensors, Missions
<1>4. CASE TickRestores
  <2>1. nav' \in Missions /\ sensor' \in Sensors
    <3>1. nav' \in Missions
      BY <1>4, MissionOperators DEF TickRestores, Resting, LocalizationTypes
    <3> QED
      BY <1>4, <3>1 DEF TickRestores, LocalizationTypes, Sensors, States
  <2>2. CASE att' = [att EXCEPT !.ls = sensor.previous] /\ UNCHANGED <<evidence, rotating, calling, spent>>
    <3>1. att' \in Attempts
      BY <2>2 DEF LocalizationTypes, Attempts, Sensors
    <3> QED
      BY <1>4, <2>1, <2>2, <3>1 DEF TickRestores, LocalizationTypes
  <2>3. CASE Verify(FALSE) /\ UNCHANGED <<search, calling, spent>>
    BY <1>4, <2>1, <2>3, VerifyTypes DEF TickRestores, LocalizationTypes
  <2>4. CASE StartGlobal(att)
    <3>1. GlobalBegins(att)
      BY <2>4, SearchTypes DEF LocalizationTypes
    <3> QED
      BY <1>4, <2>1, <3>1 DEF TickRestores, GlobalBegins, LocalizationTypes
  <2> QED
    BY <1>4, <2>2, <2>3, <2>4 DEF TickRestores
<1>5. CASE LoseLocalization
  <2>1. nav' \in Missions
    <3>1. Halt(nav) \in Missions
      BY MissionOperators DEF LocalizationTypes
    <3> QED
      BY <1>5, <3>1 DEF LoseLocalization, LocalizationTypes, Missions
  <2>2. resumes' \subseteq Threaded
    BY <1>5, SetTypes DEF LoseLocalization, NewGeneration, LocalizationTypes
  <2>3. GlobalBegins(att)
    BY <1>5, SearchTypes DEF LoseLocalization, LocalizationTypes
  <2> QED
    BY <1>5, <2>1, <2>2, <2>3 DEF LoseLocalization, GlobalBegins, LocalizationTypes
<1>6. CASE TickRetriesResume
  <2>1. nav' \in Missions
    BY <1>6 DEF TickRetriesResume, LocalizationTypes, Missions
  <2>2. Resume("loss", nav.byLoss) \in Threaded
    BY DEF LocalizationTypes, Missions, Resume, Threaded
  <2> QED
    BY <1>6, <2>1, <2>2 DEF TickRetriesResume, LocalizationTypes
<1>7. CASE FailClosed
  <2>1. spent' \in Spendings
    BY <1>7, SpendTypes DEF FailClosed, AllFaults
  <2>2. att' \in Attempts
    BY <1>7 DEF FailClosed, LocalizationTypes, Attempts, States
  <2>3. nav' \in Missions
    BY <1>7, MissionOperators DEF FailClosed, LocalizationTypes
  <2>4. resumes' \subseteq Threaded
    BY <1>7, SetTypes DEF FailClosed, NewGeneration, LocalizationTypes
  <2> QED
    BY <1>7, <2>1, <2>2, <2>3, <2>4 DEF FailClosed, LocalizationTypes
<1> QED
  BY <1>1, <1>2, <1>3, <1>4, <1>5, <1>6, <1>7 DEF Monitors

LEMMA TicksKeepTypes == LocalizationTypes /\ (Ticks \/ Writes) => LocalizationTypes'
<1> SUFFICES ASSUME LocalizationTypes, Ticks \/ Writes PROVE LocalizationTypes'
  OBVIOUS
<1> USE DEF evidence, search, Quiet
<1>a. /\ att \in Attempts /\ Judged \in Attempts /\ nav \in Missions /\ Rests(nav) \in Missions
      /\ Assistance(Judged) \in Attempts /\ NextRotation(Judged) \in Attempts
  BY JudgedTypes, TickAttempts, MissionOperators DEF LocalizationTypes
<1>1. CASE TickSettles
  <2>1. att' \in Attempts
    BY <1>1, <1>a DEF TickSettles, Attempts
  <2>2. obs' \in Evidence
    BY <1>1 DEF TickSettles, StationaryReset, LocalizationTypes, Evidence, Levels
  <2> QED
    BY <1>1, <2>1, <2>2 DEF TickSettles, LocalizationTypes
<1>2. CASE TickAsks
  <2>1. att' \in Attempts
    BY <1>2, <1>a DEF TickAsks, Attempts
  <2>2. verdict' = "busy" /\ foreign' = FALSE /\ workers' \subseteq Searches
    <3> PICK kind \in {"seed", "check"} : Ask(kind)
      BY <1>2 DEF TickAsks
    <3>1. [kind |-> kind, grid |-> grid, current |-> TRUE] \in Searches
      BY DEF LocalizationTypes, Searches
    <3> QED
      BY <3>1 DEF Ask, LocalizationTypes
  <2> QED
    BY <1>2, <2>1, <2>2 DEF TickAsks, LocalizationTypes
<1>3. CASE TickAdvances
  <2>1. att' \in Attempts
    <3>1. (CASE Is(Passive) -> "CANDIDATE" [] Is({"CANDIDATE"}) -> "VERIFYING"
             [] OTHER -> att.ls) \in States
      BY <1>a DEF Attempts, States, Searching
    <3> QED
      BY <1>3, <1>a, <3>1 DEF TickAdvances, Attempts
  <2> QED
    BY <1>3, <1>a, <2>1 DEF TickAdvances, Resting, LocalizationTypes
<1>4. CASE TickRejects
  BY <1>4, <1>a DEF TickRejects, LocalizationTypes
<1>5. CASE TickAccepts
  BY <1>5 DEF TickAccepts, LocalizationTypes
<1>6. CASE TickNextHeading
  <2>1. att' \in Attempts
    <3>1. /\ [Judged EXCEPT !.localized = FALSE, !.ls = "LOCALIZATION_FAILED"] \in Attempts
          /\ [Judged EXCEPT !.ls = "AMBIGUOUS", !.assisted = TRUE] \in Attempts
      <4>1. "LOCALIZATION_FAILED" \in States /\ "AMBIGUOUS" \in States
        BY DEF States, Searching, Passive
      <4> QED
        BY <1>a, <4>1 DEF Attempts
    <3> QED
      BY <1>6, <1>a, <3>1 DEF TickNextHeading
  <2>2. rotating' \in BOOLEAN
    BY <1>6 DEF TickNextHeading, LocalizationTypes
  <2> QED
    BY <1>6, <1>a, <2>1, <2>2 DEF TickNextHeading, Resting, LocalizationTypes
<1>7. CASE TickVerifyTimesOut
  <2>1. GlobalBegins(att)
    BY <1>7, <1>a, SearchTypes DEF TickVerifyTimesOut
  <2> QED
    BY <1>7, <1>a, <2>1 DEF TickVerifyTimesOut, GlobalBegins, Resting, LocalizationTypes
<1>8. CASE TickSessionTimesOut
  BY <1>8, <1>a DEF TickSessionTimesOut, Resting, LocalizationTypes
<1>9. CASE TickSeedTimesOut
  <2>1. CASE /\ att' = [Judged EXCEPT !.ls = "AMBIGUOUS", !.assisted = TRUE, !.pending = FALSE]
             /\ Resting /\ UNCHANGED <<evidence, rotating, calling, spent, anchor, resumes>>
    <3>1. att' \in Attempts
      <4>1. "AMBIGUOUS" \in States
        BY DEF States, Searching, Passive
      <4> QED
        BY <1>a, <2>1, <4>1 DEF Attempts
    <3> QED
      BY <1>9, <1>a, <2>1, <3>1 DEF TickSeedTimesOut, Resting, LocalizationTypes
  <2>2. CASE /\ StartGlobal(att)
             /\ IF att.odometry /\ att'.ls = "LOCALIZATION_FAILED"
                  THEN anchor' = FALSE /\ nav' = NoResume(Halt(nav)) /\ NewGeneration
                  ELSE Resting /\ UNCHANGED <<anchor, resumes>>
    <3>1. GlobalBegins(att)
      BY <1>a, <2>2, SearchTypes
    <3>2. NoResume(Halt(nav)) \in Missions
      BY <1>a, MissionOperators
    <3>3. anchor' \in BOOLEAN /\ nav' \in Missions /\ resumes' \subseteq Threaded
      BY <1>a, <2>2, <3>2, SetTypes DEF NewGeneration, Resting, LocalizationTypes
    <3> QED
      BY <1>9, <3>1, <3>3 DEF TickSeedTimesOut, GlobalBegins, LocalizationTypes
  <2> QED
    BY <1>9, <2>1, <2>2 DEF TickSeedTimesOut
<1>10. CASE TickSearches
  <2>1. att' \in Attempts
    <3>a. "AMBIGUOUS" \in States
      BY DEF States, Searching, Passive
    <3>1. /\ [Judged EXCEPT !.ls = "AMBIGUOUS", !.pending = FALSE] \in Attempts
          /\ [Judged EXCEPT !.pending = FALSE] \in Attempts
      BY <1>a, <3>a DEF Attempts
    <3>2. [Assistance(Judged) EXCEPT !.pending = FALSE] \in Attempts
      BY <1>a DEF Attempts
    <3> QED
      BY <1>10, <3>1, <3>2, TickAttempts DEF TickSearches
  <2>2. rotating' \in BOOLEAN
    BY <1>10 DEF TickSearches, LocalizationTypes
  <2> QED
    BY <1>10, <1>a, <2>1, <2>2 DEF TickSearches, Resting, LocalizationTypes
<1>11. CASE TickTurns
  <2>1. att' \in Attempts
    <3>1. [Judged EXCEPT !.ls = "AMBIGUOUS"] \in Attempts
      BY <1>a DEF Attempts, States, Searching, Passive
    <3>2. ASSUME att.turns < MaxTurns
          PROVE  [Judged EXCEPT !.ls = "LOCALIZING_SETTLING", !.settled = FALSE,
                                !.turns = @ + 1] \in Attempts
      <4>1. Judged.turns = att.turns /\ att.turns + 1 \in 0 .. MaxTurns
        BY <1>a, <3>2 DEF Judged, Attempts
      <4> QED
        BY <1>a, <4>1 DEF Attempts, States, Searching, Active
    <3> QED
      BY <1>11, <3>1, <3>2 DEF TickTurns
  <2> QED
    BY <1>11, <1>a, <2>1 DEF TickTurns, Resting, LocalizationTypes
<1>12. CASE TickRotates
  BY <1>12, <1>a DEF TickRotates, LocalizationTypes
<1>13. CASE Accept
  <2>1. att' \in Attempts
    BY <1>13, <1>a, AcceptedAttempt
  <2>2. nav' \in Missions /\ resumes' \subseteq Threaded
    BY <1>13, <1>a, MissionOperators, ThreadTypes DEF Accept, LocalizationTypes
  <2> QED
    BY <1>13, <2>1, <2>2 DEF Accept, LocalizationTypes
<1>14. CASE Rotate
  BY <1>14 DEF Rotate, LocalizationTypes
<1> QED
  BY <1>1, <1>2, <1>3, <1>4, <1>5, <1>6, <1>7, <1>8, <1>9, <1>10, <1>11, <1>12, <1>13, <1>14
     DEF Ticks, Writes

LEMMA WorldKeepsTypes == LocalizationTypes /\ World => LocalizationTypes'
<1> SUFFICES ASSUME LocalizationTypes, World PROVE LocalizationTypes'
  OBVIOUS
<1> USE DEF evidence, search, mission
<1>1. ASSUME NEW level \in Levels, Observe(level) PROVE LocalizationTypes'
  <2>1. obs' \in Evidence
    BY <1>1 DEF Observe, LocalizationTypes, Evidence
  <2> QED
    BY <1>1, <2>1 DEF Observe, LocalizationTypes
<1>2. CASE SensorFault
  <2>1. spent' \in Spendings
    BY <1>2, SpendTypes DEF SensorFault, AllFaults
  <2>2. sensor' \in Sensors
    BY <1>2 DEF SensorFault, LocalizationTypes, Sensors
  <2> QED
    BY <1>2, <2>1, <2>2 DEF SensorFault, LocalizationTypes
<1>3. CASE SensorHeals
  <2>1. sensor' \in Sensors
    BY <1>3 DEF SensorHeals, LocalizationTypes, Sensors
  <2> QED
    BY <1>3, <2>1 DEF SensorHeals, LocalizationTypes
<1>4. CASE ServiceAnswers
  <2>1. CASE UNCHANGED <<att, rotating, nav, spent>>
    BY <1>4, <2>1 DEF ServiceAnswers, LocalizationTypes
  <2>2. CASE /\ Fails("call") /\ rotating' = FALSE /\ Resting
             /\ att' = [att EXCEPT !.ls = "LOCALIZATION_FAILED"]
    <3>1. spent' \in Spendings
      BY <2>2, SpendTypes DEF AllFaults
    <3>2. att' \in Attempts
      BY <2>2 DEF LocalizationTypes, Attempts, States
    <3>3. nav' \in Missions
      BY <2>2, MissionOperators DEF Resting, LocalizationTypes
    <3> QED
      BY <1>4, <2>2, <3>1, <3>2, <3>3 DEF ServiceAnswers, LocalizationTypes
  <2> QED
    BY <1>4, <2>1, <2>2 DEF ServiceAnswers
<1>5. CASE PoseJumps
  <2>1. spent' \in Spendings
    BY <1>5, SpendTypes DEF PoseJumps, AllFaults
  <2>2. nav' \in Missions
    <3>1. Halt(nav) \in Missions
      BY MissionOperators DEF LocalizationTypes
    <3> QED
      BY <1>5, <3>1 DEF PoseJumps, LocalizationTypes, Missions
  <2>3. resumes' \subseteq Threaded
    BY <1>5, SetTypes DEF PoseJumps, NewGeneration, LocalizationTypes
  <2>4. att' \in Attempts /\ rotating' = FALSE /\ obs' \in Evidence
    BY <1>5, VerifyTypes DEF PoseJumps
  <2> QED
    BY <1>5, <2>1, <2>2, <2>3, <2>4 DEF PoseJumps, LocalizationTypes
<1> QED
  BY <1>1, <1>2, <1>3, <1>4, <1>5 DEF World

LEMMA OperatorKeepsTypes == LocalizationTypes /\ Operator => LocalizationTypes'
<1> SUFFICES ASSUME LocalizationTypes, Operator PROVE LocalizationTypes'
  OBVIOUS
<1> USE DEF evidence, search
<1>a. /\ att \in Attempts /\ nav \in Missions /\ Prepared \in Missions
      /\ [Prepared EXCEPT !.goal = 0] \in Missions
  <2>1. nav \in Missions /\ Prepared \in Missions
    BY MissionOperators DEF Prepared, LocalizationTypes
  <2> QED
    BY <2>1 DEF LocalizationTypes, Missions, Goals
<1>b. ASSUME NewGeneration PROVE resumes' \subseteq Threaded
  BY <1>b, SetTypes DEF NewGeneration, LocalizationTypes
<1>1. CASE ForceRescan
  <2>1. May /\ resumes' \subseteq Threaded
    BY <1>1, <1>b DEF ForceRescan, Prepare
  <2>2. CASE /\ Is(Searching) /\ att' = [att EXCEPT !.allow = TRUE] /\ nav' = Prepared
             /\ Spend("calls") /\ UNCHANGED <<evidence, rotating, calling>>
    <3>1. att' \in Attempts
      BY <1>a, <2>2 DEF Attempts
    <3> QED
      BY <1>1, <1>a, <2>1, <2>2, <3>1, SpendTypes DEF ForceRescan, LocalizationTypes
  <2>3. CASE /\ nav' = [Prepared EXCEPT !.goal = 0]
             /\ anchor /\ att' = OdometryPrior(att, TRUE) /\ Forget
             /\ Spend("calls") /\ UNCHANGED <<rotating, calling>>
    <3>1. att' \in Attempts
      BY <1>a, <2>3, SeedAttempts
    <3> QED
      BY <1>1, <1>a, <2>1, <2>3, <3>1, SpendTypes, ForgetTypes DEF ForceRescan, LocalizationTypes
  <2>4. CASE nav' = [Prepared EXCEPT !.goal = 0] /\ StartGlobalFor([att EXCEPT !.allow = TRUE], 1)
    <3>1. [att EXCEPT !.allow = TRUE] \in Attempts
      BY <1>a DEF Attempts
    <3>2. GlobalBegins([att EXCEPT !.allow = TRUE])
      BY <2>1, <2>4, <3>1, StartGlobalTypes
    <3> QED
      BY <1>1, <1>a, <2>1, <2>4, <3>2 DEF ForceRescan, GlobalBegins, LocalizationTypes
  <2> QED
    BY <1>1, <2>2, <2>3, <2>4 DEF ForceRescan
<1>2. ASSUME NEW allow \in BOOLEAN, Relocalize(allow) PROVE LocalizationTypes'
  <2>1. May /\ resumes' \subseteq Threaded
    BY <1>2, <1>b DEF Relocalize, Prepare
  <2>2. CASE /\ att' = [att EXCEPT !.allow = @ \/ allow] /\ Spend("calls")
             /\ UNCHANGED <<evidence, rotating, calling>>
    <3>1. att' \in Attempts
      BY <1>a, <2>2 DEF Attempts
    <3> QED
      BY <1>2, <1>a, <2>1, <2>2, <3>1, SpendTypes DEF Relocalize, LocalizationTypes
  <2>3. CASE Verify(allow) /\ Spend("calls") /\ UNCHANGED <<search, calling>>
    BY <1>2, <1>a, <2>1, <2>3, SpendTypes, VerifyTypes DEF Relocalize, LocalizationTypes
  <2>4. CASE StartGlobalFor([att EXCEPT !.allow = allow], 1)
    <3>1. [att EXCEPT !.allow = allow] \in Attempts
      BY <1>a DEF Attempts
    <3>2. GlobalBegins([att EXCEPT !.allow = allow])
      BY <2>1, <2>4, <3>1, StartGlobalTypes
    <3> QED
      BY <1>2, <1>a, <2>1, <2>4, <3>2 DEF Relocalize, GlobalBegins, LocalizationTypes
  <2> QED
    BY <1>2, <2>2, <2>3, <2>4 DEF Relocalize
<1>3. CASE SetInitialPose
  <2>1. May /\ resumes' \subseteq Threaded /\ nav' \in Missions
    BY <1>3, <1>a, <1>b DEF SetInitialPose, Prepare
  <2>2. CASE UNCHANGED <<att, evidence>>
    BY <1>3, <2>1, <2>2, SpendTypes DEF SetInitialPose, LocalizationTypes
  <2>3. CASE att' = ClickHint(att) /\ Forget
    <3>1. att' \in Attempts
      BY <1>a, <2>3, SeedAttempts
    <3> QED
      BY <1>3, <2>1, <2>3, <3>1, SpendTypes, ForgetTypes DEF SetInitialPose, LocalizationTypes
  <2> QED
    BY <1>3, <2>2, <2>3 DEF SetInitialPose
<1>4. CASE Start
  <2>1. nav' \in Missions
    <3>1. spent.goals + 1 \in Goals
      BY <1>4 DEF Start, LocalizationTypes, Goals, Spendings
    <3> QED
      BY <1>4, <1>a, <3>1 DEF Start, Missions
  <2> QED
    BY <1>4, <1>b, <2>1, SpendTypes DEF Start, LocalizationTypes
<1>5. CASE MissionEnds
  <2>1. nav' \in Missions
    <3>1. Halt(nav) \in Missions /\ NoResume(Halt(nav)) \in Missions
      BY <1>a, MissionOperators
    <3> QED
      BY <1>5, <3>1 DEF MissionEnds, Missions, Goals
  <2>2. resumes' \subseteq Threaded
    BY <1>5, <1>b DEF MissionEnds, LocalizationTypes
  <2> QED
    BY <1>5, <2>1, <2>2 DEF MissionEnds, LocalizationTypes
<1> QED
  BY <1>1, <1>2, <1>3, <1>4, <1>5 DEF Operator

LEMMA LoadingKeepsTypes == LocalizationTypes /\ Loading => LocalizationTypes'
<1> SUFFICES ASSUME LocalizationTypes, Loading PROVE LocalizationTypes'
  OBVIOUS
<1> USE DEF evidence, search, mission
<1>a. /\ att \in Attempts /\ nav \in Missions /\ Rests(nav) \in Missions
      /\ NoResume(Halt(nav)) \in Missions
  BY MissionOperators DEF LocalizationTypes
<1>b. {"IDLE", "LOCALIZATION_INITIALIZING"} \subseteq States
  BY DEF States
<1>c. NoCommand \in Loads /\ [NoCommand EXCEPT !.through = TRUE] \in Loads
  BY <1>b, Zeros DEF NoCommand, Loads
<1>1. CASE LoadStarts
  <2>1. att' \in Attempts /\ command' \in Loads
    BY <1>1, <1>a, <1>b DEF LoadStarts, LocalizationTypes, Attempts, Loads
  <2> QED
    BY <1>1, <2>1, SpendTypes DEF LoadStarts, LocalizationTypes
<1>2. CASE LoadCommits
  <2>1. att' \in Attempts /\ command' \in Loads
    BY <1>2, <1>a, <1>b DEF LoadCommits, LocalizationTypes, Attempts, Loads
  <2>2. nav' \in Missions
    BY <1>2, <1>a, Zeros DEF LoadCommits, Missions
  <2>3. grid' \in 0 .. MaxLoads
    BY <1>2 DEF LoadCommits, LocalizationTypes, Spendings
  <2> QED
    BY <1>2, <2>1, <2>2, <2>3 DEF LoadCommits, LocalizationTypes
<1>3. CASE RollsBack
  <2>1. spent' \in Spendings
    BY <1>3, SpendTypes DEF RollsBack, AllFaults
  <2>2. att' \in Attempts /\ grid' \in 0 .. MaxLoads
    BY <1>3, <1>a, <1>b DEF RollsBack, LocalizationTypes, Attempts, Loads
  <2> QED
    BY <1>3, <1>a, <1>c, <2>1, <2>2 DEF RollsBack, Resting, LocalizationTypes
<1>4. CASE LoadTimesOut
  BY <1>4, <1>c, SpendTypes DEF LoadTimesOut, AllFaults, LocalizationTypes
<1>5. ASSUME NEW stored \in Goals, NEW auto \in BOOLEAN, LoadEnds(stored, auto)
      PROVE  LocalizationTypes'
  <2>1. nav' \in Missions
    BY <1>5, <1>a DEF LoadEnds, Missions
  <2>2. ASSUME NEW approx \in BOOLEAN, att' = LastPose(att, approx), Forget, rotating' = FALSE,
               UNCHANGED <<calling, spent>>
        PROVE  LocalizationTypes'
    <3>1. att' \in Attempts
      BY <1>a, <2>2, SeedAttempts
    <3> QED
      BY <1>5, <1>c, <2>1, <2>2, <3>1, ForgetTypes DEF LoadEnds, LocalizationTypes
  <2>3. CASE StartGlobal([att EXCEPT !.allow = FALSE])
    <3>1. [att EXCEPT !.allow = FALSE] \in Attempts
      BY <1>a DEF Attempts
    <3>2. GlobalBegins([att EXCEPT !.allow = FALSE])
      BY <2>3, <3>1, SearchTypes
    <3> QED
      BY <1>5, <1>c, <2>1, <3>2 DEF LoadEnds, GlobalBegins, LocalizationTypes
  <2> QED
    BY <1>5, <2>2, <2>3 DEF LoadEnds, BeginAuto
<1>6. CASE Deactivate
  <2>1. att' \in Attempts /\ nav' \in Missions
    <3>1. att' \in Attempts
      BY <1>6, <1>a, <1>b DEF Deactivate, Attempts
    <3> QED
      BY <1>6, <1>a, <3>1, Zeros DEF Deactivate, Missions
  <2>2. resumes' \subseteq Threaded
    BY <1>6, SetTypes DEF Deactivate, NewGeneration, LocalizationTypes
  <2> QED
    BY <1>6, <2>1, <2>2, Zeros DEF Deactivate, LocalizationTypes
<1> QED
  BY <1>1, <1>2, <1>3, <1>4, <1>5, <1>6 DEF Loading

LEMMA ThreadsKeepTypes ==
  ASSUME LocalizationTypes,
         (\E w \in workers : SearchEnds(w)) \/ (\E r \in resumes : ResumeStep(r))
  PROVE  LocalizationTypes'
<1> USE DEF evidence, search
<1>a. att \in Attempts /\ nav \in Missions
  BY DEF LocalizationTypes
<1>1. ASSUME NEW w \in workers, SearchEnds(w) PROVE LocalizationTypes'
  <2>1. workers' \subseteq Searches
    BY <1>1 DEF SearchEnds, LocalizationTypes
  <2>2. CASE UNCHANGED <<att, obs, verdict, foreign, nav>>
    BY <1>1, <2>1, <2>2 DEF SearchEnds, LocalizationTypes
  <2>3. CASE /\ Fits(w) /\ foreign' = ~(w.current /\ w.grid = grid)
             /\ verdict' \in {"good", "bad"}
             /\ IF w.kind = "seed" /\ verdict' = "good"
                  THEN att' = ScanSeed(att) /\ obs' = NoEvidence /\ Resting
                  ELSE UNCHANGED <<att, obs, nav>>
    <3>1. foreign' \in BOOLEAN
      BY <2>3 DEF Fits
    <3>2. ScanSeed(att) \in Attempts /\ Rests(nav) \in Missions /\ NoEvidence \in Evidence
      BY <1>a, SeedAttempts, MissionOperators, Zeros DEF NoEvidence, Evidence, Levels
    <3>3. att' \in Attempts /\ obs' \in Evidence /\ nav' \in Missions
      BY <2>3, <3>2 DEF Resting, LocalizationTypes
    <3> QED
      BY <1>1, <2>1, <2>3, <3>1, <3>3 DEF SearchEnds, LocalizationTypes
  <2> QED
    BY <1>1, <2>2, <2>3 DEF SearchEnds
<1>2. ASSUME NEW r \in resumes, ResumeStep(r) PROVE LocalizationTypes'
  <2>a. r \in Threaded
    BY DEF LocalizationTypes
  <2>1. nav' \in Missions /\ resumes' \subseteq Threaded /\ spent' \in Spendings
    <3>1. CASE ResumeChecks(r)
      BY <1>a, <2>a, <3>1 DEF ResumeChecks, LocalizationTypes, Threaded
    <3>2. CASE ResumeStarts(r)
      <4>1. [r EXCEPT !.pc = "clear"] \in Threaded /\ r.goal \in Goals
        BY <2>a DEF Threaded
      <4>2. Retired(resumes \ {r}) \subseteq Threaded
        BY SetTypes DEF LocalizationTypes
      <4>3. nav' \in Missions
        BY <1>a, <3>2, <4>1 DEF ResumeStarts, Missions
      <4> QED
        BY <3>2, <4>1, <4>2, <4>3 DEF ResumeStarts, LocalizationTypes
    <3>3. CASE ResumeClears(r)
      <4>1. nav' \in Missions
        BY <1>a, <3>3, Zeros DEF ResumeClears, Without, Missions
      <4> QED
        BY <3>3, <4>1 DEF ResumeClears, LocalizationTypes
    <3>4. CASE ResumeFails(r)
      <4>1. nav' \in Missions
        BY <1>a, <3>4 DEF ResumeFails, Without, Missions
      <4>2. spent' \in Spendings
        BY <3>4, SpendTypes DEF ResumeFails, AllFaults, LocalizationTypes
      <4> QED
        BY <3>4, <4>1, <4>2 DEF ResumeFails, LocalizationTypes
    <3> QED
      BY <1>2, <3>1, <3>2, <3>3, <3>4 DEF ResumeStep
  <2> QED
    BY <1>2, <2>1 DEF ResumeStep, LocalizationTypes
<1> QED
  BY <1>1, <1>2

\* The attempt, the evidence, the searches, the mission and the load keep their types.
THEOREM LocalizationTypeCorrect == LocalizationSpec => []LocalizationTypeOK
<1>1. LocalizationInit => LocalizationTypes
  <2> SUFFICES ASSUME LocalizationInit PROVE LocalizationTypes
    OBVIOUS
  <2>1. "IDLE" \in States
    BY DEF States
  <2>2. att \in Attempts /\ sensor \in Sensors
    BY <2>1, Zeros DEF LocalizationInit, Attempts, Sensors
  <2>3. obs \in Evidence /\ command \in Loads
    BY <2>1, Zeros DEF LocalizationInit, Evidence, Levels, NoEvidence, Loads, NoCommand
  <2>4. nav \in Missions
    BY Zeros DEF LocalizationInit, Missions
  <2>5. spent \in Spendings
    BY Zeros DEF LocalizationInit, Spendings
  <2> QED
    BY <2>2, <2>3, <2>4, <2>5, Zeros DEF LocalizationInit, LocalizationTypes
<1>2. LocalizationTypes /\ [LocalizationNext]_localizationVars => LocalizationTypes'
  <2>1. ASSUME LocalizationTypes, UNCHANGED localizationVars PROVE LocalizationTypes'
    BY <2>1 DEF localizationVars, LocalizationTypes
  <2> QED
    BY <2>1, MonitorsKeepTypes, TicksKeepTypes, WorldKeepsTypes, OperatorKeepsTypes,
       LoadingKeepsTypes, ThreadsKeepTypes DEF LocalizationNext
<1> QED
  BY <1>1, <1>2, NamedTypes, PTL DEF LocalizationSpec

-----------------------------------------------------------------------------
(* Who moves the robot.                                                    *)

\* The states from which localization can turn the robot without being asked again.
TurnsIn(ls) == ls \in Active \/ (ls = "SENSOR_TIME_INVALID" /\ sensor.previous \in Active)
MayTurn == \/ att.allow \/ rotating \/ tick = "rotate" \/ TurnsIn(att.ls)
           \/ command.pc # "idle" /\ TurnsIn(command.ls)
NobodyDrives == nav.drive = 0 /\ \A r \in resumes : r.pc = "clear"

\* While it may turn no route is driven and no thread is about to start one.
TurnsAlone == MayTurn => NobodyDrives
\* Nothing is driven and nothing waits to be resumed while a map is loaded.
LoadsAtRest == command.pc # "idle" => /\ NobodyDrives /\ nav.cur = "rest"
                                      /\ nav.byTime = 0 /\ nav.byLoss = 0
\* READY, and what a rollback takes for READY, has let go of the chassis.
ReadyIsStill ==
  att.ls = "READY" \/ (command.pc # "idle" /\ command.ls = "READY") =>
    ~att.allow /\ ~rotating /\ tick # "rotate" /\ ~TurnsIn(att.ls)

Chassis == TurnsAlone /\ LoadsAtRest /\ ReadyIsStill

\* A step that gives localization no new way to turn and the mission no new way to move.
CalmStep ==
  /\ att'.allow => att.allow
  /\ rotating' => rotating
  /\ tick' = "rotate" => tick = "rotate"
  /\ TurnsIn(att.ls)' => TurnsIn(att.ls)
  /\ att'.ls = "READY" => att.ls = "READY"
  /\ nav'.drive \in {0, nav.drive}
  /\ \A r \in resumes' : r \in resumes \/ r.pc = "clear"
  /\ command'.pc # "idle" =>
       /\ command.pc # "idle" /\ command'.ls = command.ls
       /\ TurnsIn(command.ls)' => TurnsIn(command.ls)
       /\ nav'.cur \in {nav.cur, "rest"}
       /\ nav'.byTime \in {0, nav.byTime} /\ nav'.byLoss \in {0, nav.byLoss}

LEMMA CalmStepKeepsChassis ==
  ASSUME Chassis, CalmStep
  PROVE  Chassis'
<1> USE DEF Chassis, CalmStep, TurnsAlone, LoadsAtRest, ReadyIsStill, MayTurn, NobodyDrives
<1>1. TurnsAlone'
  OBVIOUS
<1>2. LoadsAtRest'
  OBVIOUS
<1>3. ReadyIsStill'
  OBVIOUS
<1> QED
  BY <1>1, <1>2, <1>3

\* A step of an attempt that changes nothing else but how the mission rests.
AttemptStep ==
  /\ att'.allow => att.allow
  /\ att'.ls \in Active => att.ls \in Active
  /\ att'.ls \in {"READY", "SENSOR_TIME_INVALID"} => att'.ls = att.ls
  /\ rotating' => rotating
  /\ tick' = "rotate" => tick = "rotate"
  /\ nav' \in {nav, Rests(nav), Halt(nav), NoResume(Halt(nav))}
  /\ resumes' \subseteq resumes
  /\ sensor'.previous = sensor.previous /\ UNCHANGED command

LEMMA AttemptStepIsCalm ==
  ASSUME LocalizationTypes, AttemptStep
  PROVE  CalmStep
<1>1. /\ nav'.drive \in {0, nav.drive} /\ nav'.cur \in {nav.cur, "rest"}
      /\ nav'.byTime \in {0, nav.byTime} /\ nav'.byLoss \in {0, nav.byLoss}
  <2>1. nav \in Missions /\ Halt(nav) \in Missions
    BY MissionOperators DEF LocalizationTypes
  <2> QED
    BY <2>1, MissionOperators DEF AttemptStep
<1>2. (TurnsIn(att.ls)' => TurnsIn(att.ls)) /\ (TurnsIn(command.ls)' => TurnsIn(command.ls))
  BY DEF AttemptStep, TurnsIn
<1> QED
  BY <1>1, <1>2 DEF AttemptStep, CalmStep

LEMMA ActiveStates ==
  /\ Active = {"LOCALIZING_ROTATING", "LOCALIZING_SETTLING"}
  /\ \A ls \in Seeds \cup Passive \cup {"CANDIDATE", "VERIFYING", "IDLE", "READY",
       "LOCALIZATION_INITIALIZING", "LOCALIZATION_FAILED", "SENSOR_TIME_INVALID"} : ls \notin Active
  /\ \A ls \in Seeds \cup Searching : ls \notin {"READY", "SENSOR_TIME_INVALID"}
BY DEF Active, Seeds, Passive, Searching

\* The ticks that only move the attempt on.
LEMMA QuietTicksAreCalm ==
  ASSUME LocalizationTypes,
         \/ TickSettles \/ TickAsks \/ TickAdvances \/ TickRejects \/ TickAccepts
         \/ TickNextHeading \/ TickVerifyTimesOut \/ TickSessionTimesOut
         \/ TickSeedTimesOut \/ TickTurns
  PROVE  CalmStep
<1> USE DEF evidence, search, Quiet, Resting
<1>a. /\ att \in Attempts /\ Judged \in Attempts /\ Judged.ls = att.ls
      /\ Judged.allow = att.allow
  BY JudgedTypes DEF LocalizationTypes
<1>b. SUFFICES AttemptStep
  BY AttemptStepIsCalm
<1>1. CASE TickSettles
  <2>1. att'.ls = att.ls /\ att'.allow = att.allow
    BY <1>1, <1>a DEF TickSettles, Attempts
  <2> QED
    BY <1>1, <2>1 DEF TickSettles, AttemptStep
<1>2. CASE TickAsks
  <2>1. att'.ls = att.ls /\ att'.allow = att.allow
    BY <1>2, <1>a DEF TickAsks, Attempts
  <2> QED
    BY <1>2, <2>1 DEF TickAsks, AttemptStep
<1>3. CASE TickAdvances
  <2>1. att'.ls \in {att.ls, "CANDIDATE", "VERIFYING"} /\ att'.allow = att.allow
    BY <1>3, <1>a DEF TickAdvances, Attempts
  <2> QED
    BY <1>3, <2>1, ActiveStates DEF TickAdvances, AttemptStep
<1>4. CASE TickRejects
  BY <1>4, <1>a DEF TickRejects, AttemptStep
<1>5. CASE TickAccepts
  BY <1>5 DEF TickAccepts, AttemptStep
<1>6. CASE TickNextHeading
  <2>1. att.ls \in Active
    BY <1>6 DEF TickNextHeading, Is, Active
  <2>2. att'.allow = att.allow
        /\ att'.ls \in {"LOCALIZATION_FAILED", "LOCALIZING_ROTATING", "AMBIGUOUS"}
    <3>1. [Judged EXCEPT !.localized = FALSE, !.ls = "LOCALIZATION_FAILED"].allow = att.allow
          /\ [Judged EXCEPT !.localized = FALSE, !.ls = "LOCALIZATION_FAILED"].ls
               = "LOCALIZATION_FAILED"
      BY <1>a DEF Attempts
    <3>2. [Judged EXCEPT !.ls = "AMBIGUOUS", !.assisted = TRUE].allow = att.allow
          /\ [Judged EXCEPT !.ls = "AMBIGUOUS", !.assisted = TRUE].ls = "AMBIGUOUS"
      BY <1>a DEF Attempts
    <3> QED
      BY <1>6, <1>a, <3>1, <3>2, TickAttempts DEF TickNextHeading
  <2> QED
    BY <1>6, <2>1, <2>2 DEF TickNextHeading, AttemptStep
<1>7. CASE TickVerifyTimesOut
  <2>1. GlobalBegins(att)
    BY <1>7, <1>a, SearchTypes DEF TickVerifyTimesOut
  <2> QED
    BY <1>7, <2>1, ActiveStates DEF TickVerifyTimesOut, GlobalBegins, AttemptStep, Passive
<1>8. CASE TickSessionTimesOut
  BY <1>8, <1>a, TickAttempts, ActiveStates DEF TickSessionTimesOut, AttemptStep, Passive
<1>9. CASE TickSeedTimesOut
  <2>1. CASE /\ att' = [Judged EXCEPT !.ls = "AMBIGUOUS", !.assisted = TRUE, !.pending = FALSE]
             /\ Resting /\ UNCHANGED <<evidence, rotating, calling, spent, anchor, resumes>>
    <3>1. att'.ls = "AMBIGUOUS" /\ att'.allow = att.allow
      BY <1>a, <2>1 DEF Attempts
    <3> QED
      BY <1>9, <2>1, <3>1, ActiveStates DEF TickSeedTimesOut, AttemptStep, Passive
  <2>2. CASE /\ StartGlobal(att)
             /\ IF att.odometry /\ att'.ls = "LOCALIZATION_FAILED"
                  THEN anchor' = FALSE /\ nav' = NoResume(Halt(nav)) /\ NewGeneration
                  ELSE Resting /\ UNCHANGED <<anchor, resumes>>
    <3>1. GlobalBegins(att)
      BY <1>a, <2>2, SearchTypes
    <3>2. resumes' \subseteq resumes /\ nav' \in {Rests(nav), NoResume(Halt(nav))}
      BY <2>2 DEF NewGeneration, Retired
    <3> QED
      BY <1>9, <3>1, <3>2, ActiveStates DEF TickSeedTimesOut, GlobalBegins, AttemptStep, Passive
  <2> QED
    BY <1>9, <2>1, <2>2 DEF TickSeedTimesOut
<1>10. CASE TickTurns
  <2>1. att.ls \in Active
    BY <1>10 DEF TickTurns, Is, Active
  <2>2. att'.allow = att.allow /\ att'.ls \in {"LOCALIZING_SETTLING", "AMBIGUOUS"}
    BY <1>10, <1>a DEF TickTurns, Attempts
  <2> QED
    BY <1>10, <2>1, <2>2 DEF TickTurns, AttemptStep
<1> QED
  BY <1>1, <1>2, <1>3, <1>4, <1>5, <1>6, <1>7, <1>8, <1>9, <1>10

\* The monitors, apart from the pause of a mission and its resumption.
LEMMA MonitorsAreCalm ==
  ASSUME LocalizationTypes, LoadsAtRest,
         \/ TickLosesTf \/ TickGivesUpOnSensors \/ TickRestores \/ LoseLocalization \/ FailClosed
  PROVE  CalmStep
<1> USE DEF evidence, search, mission, Resting
<1>a. att \in Attempts /\ nav \in Missions /\ Halt(nav) \in Missions
  BY MissionOperators DEF LocalizationTypes
<1>b. ASSUME NewGeneration PROVE resumes' \subseteq resumes
  BY <1>b DEF NewGeneration, Retired
<1>1. CASE TickLosesTf
  <2>1. att'.ls = "LOCALIZATION_FAILED" /\ att'.allow = att.allow
    BY <1>1, <1>a DEF TickLosesTf, Attempts
  <2>2. AttemptStep
    BY <1>1, <2>1, ActiveStates DEF TickLosesTf, AttemptStep
  <2> QED
    BY <2>2, AttemptStepIsCalm
<1>2. CASE TickGivesUpOnSensors
  <2>1. sensor'.previous = sensor.previous
    BY <1>2 DEF TickGivesUpOnSensors, LocalizationTypes, Sensors
  <2>2. nav'.drive = nav.drive /\ nav'.cur = "rest"
        /\ nav'.byTime = nav.byTime /\ nav'.byLoss = nav.byLoss
    BY <1>2, <1>a DEF TickGivesUpOnSensors, Missions
  <2> QED
    BY <1>2, <2>1, <2>2 DEF TickGivesUpOnSensors, CalmStep, TurnsIn
<1>3. CASE TickRestores
  <2>1. /\ nav'.drive = nav.drive /\ nav'.cur = "rest"
        /\ nav'.byTime = nav.byTime /\ nav'.byLoss = nav.byLoss
    BY <1>3, <1>a, MissionOperators DEF TickRestores
  <2>2. sensor'.previous = "IDLE" /\ att.ls = "SENSOR_TIME_INVALID"
    BY <1>3 DEF TickRestores, Is, LocalizationTypes, Sensors
  <2>3. /\ att'.ls \in Active => att'.ls = sensor.previous
        /\ att'.ls \notin {"READY", "SENSOR_TIME_INVALID"}
        /\ (att'.allow => att.allow) /\ (rotating' => rotating)
    <3>1. CASE sensor.previous \in Seeds \cup Searching /\ att' = [att EXCEPT !.ls = sensor.previous]
               /\ UNCHANGED <<evidence, rotating, calling, spent>>
      BY <1>a, <3>1, ActiveStates DEF Attempts
    <3>2. CASE Verify(FALSE)
      BY <3>2, VerifyTypes, ActiveStates
    <3>3. CASE StartGlobal(att)
      <4>1. GlobalBegins(att)
        BY <1>a, <3>3, SearchTypes
      <4> QED
        BY <4>1, ActiveStates DEF GlobalBegins, Passive
    <3> QED
      BY <1>3, <3>1, <3>2, <3>3 DEF TickRestores
  <2>4. TurnsIn(att.ls)' => TurnsIn(att.ls)
    BY <2>2, <2>3 DEF TurnsIn
  <2>5. UNCHANGED command => (TurnsIn(command.ls)' => TurnsIn(command.ls))
    BY <2>2, ActiveStates DEF TurnsIn
  <2> QED
    BY <1>3, <2>1, <2>3, <2>4, <2>5 DEF TickRestores, CalmStep
<1>4. CASE LoseLocalization
  <2>1. GlobalBegins(att)
    BY <1>4, <1>a, SearchTypes DEF LoseLocalization
  <2>2. nav'.drive = 0 /\ nav'.cur = "rest" /\ nav'.byTime = nav.byTime
        /\ (nav'.byLoss = nav.byLoss \/ MissionActive)
    BY <1>4, <1>a, MissionOperators DEF LoseLocalization, Missions
  <2>3. /\ ~(TurnsIn(att.ls)') /\ att'.ls # "READY" /\ att'.allow = att.allow
        /\ rotating' = FALSE
    BY <2>1, ActiveStates DEF GlobalBegins, TurnsIn, Passive
  <2>4. UNCHANGED command => (TurnsIn(command.ls)' => TurnsIn(command.ls))
    BY <1>4 DEF LoseLocalization, TurnsIn
  <2>5. command.pc # "idle" => nav'.byLoss = nav.byLoss
    BY <2>2 DEF LoadsAtRest, MissionActive
  <2> QED
    BY <1>4, <1>b, <2>2, <2>3, <2>4, <2>5 DEF LoseLocalization, CalmStep
<1>5. CASE FailClosed
  <2>1. att'.ls = "LOCALIZATION_FAILED" /\ att'.allow = att.allow
    BY <1>5, <1>a DEF FailClosed, Attempts
  <2>2. AttemptStep
    BY <1>5, <1>b, <2>1, ActiveStates DEF FailClosed, AttemptStep
  <2> QED
    BY <2>2, AttemptStepIsCalm
<1> QED
  BY <1>1, <1>2, <1>3, <1>4, <1>5

\* What the sensors, the service and the search workers do.
LEMMA WorldIsCalm ==
  ASSUME LocalizationTypes,
         \/ \E level \in Levels : Observe(level)
         \/ SensorFault \/ SensorHeals \/ ServiceAnswers
         \/ \E w \in workers : SearchEnds(w)
  PROVE  CalmStep
<1> USE DEF evidence, search, mission, Resting
<1>a. att \in Attempts
  BY DEF LocalizationTypes
<1> SUFFICES AttemptStep
  BY AttemptStepIsCalm
<1>1. CASE \E level \in Levels : Observe(level)
  BY <1>1 DEF Observe, AttemptStep
<1>2. CASE SensorFault \/ SensorHeals
  <2>1. sensor'.previous = sensor.previous
    BY <1>2 DEF SensorFault, SensorHeals, LocalizationTypes, Sensors
  <2> QED
    BY <1>2, <2>1 DEF SensorFault, SensorHeals, AttemptStep
<1>3. CASE ServiceAnswers
  <2>1. CASE UNCHANGED <<att, rotating, nav, spent>>
    BY <1>3, <2>1 DEF ServiceAnswers, AttemptStep
  <2>2. CASE /\ Fails("call") /\ rotating' = FALSE /\ Resting
             /\ att' = [att EXCEPT !.ls = "LOCALIZATION_FAILED"]
    <3>1. att'.ls = "LOCALIZATION_FAILED" /\ att'.allow = att.allow
      BY <1>a, <2>2 DEF Attempts
    <3> QED
      BY <1>3, <2>2, <3>1, ActiveStates DEF ServiceAnswers, AttemptStep
  <2> QED
    BY <1>3, <2>1, <2>2 DEF ServiceAnswers
<1>4. ASSUME NEW w \in workers, SearchEnds(w) PROVE AttemptStep
  <2>1. CASE UNCHANGED <<att, obs, verdict, foreign, nav>>
    BY <1>4, <2>1 DEF SearchEnds, AttemptStep
  <2>2. CASE att' = ScanSeed(att) /\ Resting
    BY <1>4, <1>a, <2>2, SeedAttempts, ActiveStates DEF SearchEnds, AttemptStep
  <2>3. CASE UNCHANGED <<att, obs, nav>>
    BY <1>4, <2>3 DEF SearchEnds, AttemptStep
  <2> QED
    BY <1>4, <2>1, <2>2, <2>3 DEF SearchEnds
<1> QED
  BY <1>1, <1>2, <1>3, <1>4

\* The commands that end something, and the threads of a resume that do not start a route.
LEMMA EndingsAreCalm ==
  ASSUME LocalizationTypes, LoadsAtRest,
         \/ SetInitialPose \/ MissionEnds \/ LoadCommits \/ LoadTimesOut \/ Deactivate
         \/ \E stored \in Goals, auto \in BOOLEAN : LoadEnds(stored, auto)
         \/ \E r \in resumes : /\ ResumeClears(r) \/ ResumeFails(r)
                               /\ UNCHANGED <<grid, att, evidence, rotating, anchor, calling,
                                              sensor, command, tick>>
  PROVE  CalmStep
<1> USE DEF evidence, search, mission
<1>a. att \in Attempts /\ nav \in Missions /\ Halt(nav) \in Missions
      /\ NoResume(Halt(nav)) \in Missions /\ Rests(nav) \in Missions
  BY MissionOperators DEF LocalizationTypes
<1>b. ASSUME NewGeneration PROVE resumes' \subseteq resumes
  BY <1>b DEF NewGeneration, Retired
<1>c. command' = NoCommand => command'.pc = "idle"
  BY DEF NoCommand
<1>1. CASE SetInitialPose
  <2>1. nav'.drive = nav.drive /\ command.pc = "idle" /\ resumes' \subseteq resumes
    BY <1>1, <1>a, <1>b, MissionOperators DEF SetInitialPose, Prepare, Prepared
  <2>2. /\ att'.allow = att.allow
        /\ att' = att \/ att'.ls \in Seeds
    BY <1>1, <1>a, SeedAttempts DEF SetInitialPose
  <2>3. (TurnsIn(att.ls)' => TurnsIn(att.ls)) /\ (att'.ls = "READY" => att.ls = "READY")
    BY <1>1, <2>2, ActiveStates DEF SetInitialPose, TurnsIn
  <2> QED
    BY <1>1, <2>1, <2>2, <2>3 DEF SetInitialPose, CalmStep
<1>2. CASE MissionEnds
  <2>1. nav'.drive = 0 /\ resumes' \subseteq resumes
    <3>1. nav' \in {[Halt(nav) EXCEPT !.goal = 0], [Halt(nav) EXCEPT !.cur = "WAITING"],
                    [NoResume(Halt(nav)) EXCEPT !.goal = 0], NoResume(Halt(nav))}
      BY <1>2 DEF MissionEnds
    <3>2. Halt(nav).drive = 0 /\ NoResume(Halt(nav)).drive = 0
      BY <1>a, MissionOperators
    <3>3. [Halt(nav) EXCEPT !.goal = 0].drive = 0 /\ [Halt(nav) EXCEPT !.cur = "WAITING"].drive = 0
          /\ [NoResume(Halt(nav)) EXCEPT !.goal = 0].drive = 0
      BY <1>a, <3>2 DEF Missions
    <3> QED
      BY <1>2, <1>b, <3>1, <3>2, <3>3 DEF MissionEnds
  <2>2. command.pc # "idle" =>
          /\ nav'.cur = "rest" /\ nav'.byTime \in {0, nav.byTime}
          /\ nav'.byLoss \in {0, nav.byLoss}
    <3>1. SUFFICES ASSUME command.pc # "idle"
                   PROVE  /\ nav'.cur = "rest" /\ nav'.byTime \in {0, nav.byTime}
                          /\ nav'.byLoss \in {0, nav.byLoss}
      OBVIOUS
    <3>2. nav' \in {[NoResume(Halt(nav)) EXCEPT !.goal = 0], NoResume(Halt(nav))}
      BY <1>2, <3>1 DEF MissionEnds, LoadsAtRest, NobodyDrives
    <3>3. /\ NoResume(Halt(nav)).cur = "rest" /\ NoResume(Halt(nav)).byTime = 0
          /\ NoResume(Halt(nav)).byLoss = 0
      BY <1>a, MissionOperators
    <3> QED
      BY <1>a, <3>2, <3>3 DEF Missions
  <2>3. (TurnsIn(att.ls)' => TurnsIn(att.ls)) /\ (TurnsIn(command.ls)' => TurnsIn(command.ls))
    BY <1>2 DEF MissionEnds, TurnsIn
  <2> QED
    BY <1>2, <2>1, <2>2, <2>3 DEF MissionEnds, CalmStep
<1>3. CASE LoadCommits
  <2>1. att'.ls = "LOCALIZATION_INITIALIZING" /\ att'.allow = att.allow
    BY <1>3, <1>a DEF LoadCommits, Attempts
  <2>2. command'.ls = command.ls
    BY <1>3 DEF LoadCommits, LocalizationTypes, Loads
  <2>3. nav'.drive = nav.drive /\ nav'.cur = "rest" /\ nav'.byTime = nav.byTime /\ nav'.byLoss = 0
    BY <1>3, <1>a DEF LoadCommits, Missions
  <2>4. ~(TurnsIn(att.ls)') /\ (TurnsIn(command.ls)' => TurnsIn(command.ls))
    BY <1>3, <2>1, <2>2, ActiveStates DEF LoadCommits, TurnsIn
  <2> QED
    BY <1>3, <2>1, <2>2, <2>3, <2>4 DEF LoadCommits, CalmStep
<1>4. CASE LoadTimesOut
  <2>1. TurnsIn(att.ls)' => TurnsIn(att.ls)
    BY <1>4 DEF LoadTimesOut, TurnsIn
  <2> QED
    BY <1>4, <1>c, <2>1 DEF LoadTimesOut, CalmStep
<1>5. CASE Deactivate
  <2>1. att'.ls = "IDLE" /\ ~att'.allow
    BY <1>5, <1>a DEF Deactivate, Attempts
  <2>2. nav'.drive = 0
    <3>1. NoResume(Halt(nav)).drive = 0
      BY <1>a, MissionOperators
    <3> QED
      BY <1>5, <1>a, <3>1 DEF Deactivate, Missions
  <2>3. ~(TurnsIn(att.ls)')
    BY <2>1, ActiveStates DEF TurnsIn
  <2> QED
    BY <1>5, <1>b, <2>1, <2>2, <2>3 DEF Deactivate, CalmStep
<1>6. ASSUME NEW stored \in Goals, NEW auto \in BOOLEAN, LoadEnds(stored, auto) PROVE CalmStep
  <2>1. command'.pc = "idle"
    BY <1>6 DEF LoadEnds, NoCommand
  <2>2. nav'.drive = nav.drive
    <3>1. Rests(nav).drive = nav.drive
      BY <1>a, MissionOperators
    <3> QED
      BY <1>6, <1>a, <3>1 DEF LoadEnds, Missions
  <2>3. /\ ~att'.allow /\ rotating' = FALSE
        /\ att'.ls \in Seeds \cup {"PASSIVE_LOCALIZING", "LOCALIZATION_FAILED"}
    <3>1. ASSUME NEW approx \in BOOLEAN, att' = LastPose(att, approx)
          PROVE  ~att'.allow /\ att'.ls \in Seeds
      BY <1>a, <3>1, SeedAttempts
    <3>2. CASE StartGlobal([att EXCEPT !.allow = FALSE])
      <4>1. [att EXCEPT !.allow = FALSE] \in Attempts /\ ~[att EXCEPT !.allow = FALSE].allow
        BY <1>a DEF Attempts
      <4> QED
        BY <3>2, <4>1, SearchTypes DEF GlobalBegins
    <3> QED
      BY <1>6, <3>1, <3>2 DEF LoadEnds, BeginAuto
  <2>4. ~(TurnsIn(att.ls)') /\ att'.ls # "READY"
    BY <2>3, ActiveStates DEF TurnsIn, Passive
  <2> QED
    BY <1>6, <2>1, <2>2, <2>3, <2>4 DEF LoadEnds, CalmStep
<1>7. ASSUME NEW r \in resumes, ResumeClears(r) \/ ResumeFails(r),
             UNCHANGED <<grid, att, evidence, rotating, anchor, calling, sensor, command, tick>>
      PROVE  CalmStep
  <2>1. nav'.drive = nav.drive /\ resumes' \subseteq resumes
    BY <1>7, <1>a DEF ResumeClears, ResumeFails, Without, Missions
  <2>2. command.pc # "idle" =>
          /\ nav'.cur = nav.cur /\ nav'.byTime \in {0, nav.byTime}
          /\ nav'.byLoss \in {0, nav.byLoss}
    <3>1. command.pc # "idle" => ResumeClears(r)
      BY <1>7 DEF ResumeFails, LoadsAtRest, NobodyDrives
    <3> QED
      BY <1>a, <3>1 DEF ResumeClears, Without, Missions
  <2>3. (TurnsIn(att.ls)' => TurnsIn(att.ls)) /\ (TurnsIn(command.ls)' => TurnsIn(command.ls))
    BY <1>7 DEF TurnsIn
  <2> QED
    BY <1>7, <2>1, <2>2, <2>3 DEF CalmStep
<1> QED
  BY <1>1, <1>2, <1>3, <1>4, <1>5, <1>6, <1>7

\* The steps by which localization comes to turn, or that take the mission from it.
LEMMA TurningKeepsChassis ==
  ASSUME LocalizationTypes, Chassis,
         TickDegrades \/ TickSearches \/ TickRotates \/ Rotate \/ PoseJumps
  PROVE  Chassis'
<1> USE DEF evidence, search, mission, Quiet, Resting
<1>a. /\ att \in Attempts /\ Judged \in Attempts /\ Judged.ls = att.ls
      /\ Judged.allow = att.allow /\ nav \in Missions /\ Halt(nav) \in Missions
  BY JudgedTypes, MissionOperators DEF LocalizationTypes
<1>b. ASSUME NewGeneration PROVE \A r \in resumes' : r.pc = "clear"
  BY <1>b, SetTypes DEF NewGeneration, LocalizationTypes
<1>1. CASE TickDegrades
  <2>1. /\ att'.ls = "SENSOR_TIME_INVALID" /\ att'.allow = att.allow
        /\ sensor'.previous = att.ls /\ att.ls # "SENSOR_TIME_INVALID"
    BY <1>1, <1>a DEF TickDegrades, Attempts, Is, LocalizationTypes, Sensors
  <2>2. /\ nav'.drive = 0 /\ nav'.cur = "rest" /\ nav'.byLoss = nav.byLoss
        /\ (nav'.byTime = nav.byTime \/ MissionActive)
    BY <1>1, <1>a, MissionOperators DEF TickDegrades, Missions
  <2>3. NobodyDrives'
    BY <1>1, <1>b, <2>2 DEF TickDegrades, NobodyDrives
  <2>4. LoadsAtRest'
    BY <1>1, <2>2, <2>3 DEF TickDegrades, Chassis, LoadsAtRest, MissionActive
  <2>5. ReadyIsStill'
    BY <1>1, <2>1, ActiveStates DEF TickDegrades, Chassis, ReadyIsStill, TurnsIn
  <2> QED
    BY <2>3, <2>4, <2>5 DEF Chassis, TurnsAlone
<1>2. CASE TickSearches
  <2>1. nav'.drive = nav.drive /\ nav'.cur = "rest"
        /\ nav'.byTime = nav.byTime /\ nav'.byLoss = nav.byLoss
    BY <1>2, <1>a, MissionOperators DEF TickSearches
  <2>2. /\ att'.allow = att.allow /\ (rotating' => rotating)
        /\ att'.ls \in {"AMBIGUOUS", "LOCALIZING_ROTATING"}
        /\ att'.ls = "LOCALIZING_ROTATING" => att.allow
    <3>1. [Judged EXCEPT !.pending = FALSE] \in Attempts
          /\ [Judged EXCEPT !.pending = FALSE].allow = att.allow
      BY <1>a DEF Attempts
    <3>2. Assistance(Judged) \in Attempts /\ Assistance(Judged).ls = "AMBIGUOUS"
          /\ Assistance(Judged).allow = att.allow
      BY <1>a, TickAttempts
    <3>3. CASE att.pending /\ att' = [Judged EXCEPT !.ls = "AMBIGUOUS", !.pending = FALSE]
               /\ UNCHANGED rotating
      BY <1>a, <3>3 DEF Attempts
    <3>4. CASE att.allow /\ att' = [Assistance(Judged) EXCEPT !.pending = FALSE] /\ rotating' = FALSE
      BY <3>2, <3>4 DEF Attempts
    <3>5. CASE /\ att.allow /\ SafeToRotate
               /\ att' = NextRotation([Judged EXCEPT !.pending = FALSE]) /\ UNCHANGED rotating
      BY <3>1, <3>5, TickAttempts
    <3> QED
      BY <1>2, <3>3, <3>4, <3>5 DEF TickSearches
  <2>3. MayTurn' => MayTurn
    BY <1>2, <2>2, ActiveStates DEF TickSearches, MayTurn, TurnsIn, Passive
  <2>4. NobodyDrives => NobodyDrives'
    BY <1>2, <2>1 DEF TickSearches, NobodyDrives
  <2>5. LoadsAtRest'
    BY <1>2, <2>1, <2>4 DEF TickSearches, Chassis, LoadsAtRest
  <2>6. ReadyIsStill'
    BY <1>2, <2>2, ActiveStates DEF TickSearches, Chassis, ReadyIsStill, TurnsIn, Passive
  <2> QED
    BY <2>3, <2>4, <2>5, <2>6 DEF Chassis, TurnsAlone
<1>3. CASE TickRotates
  <2>1. TurnsIn(att.ls) /\ att.ls = "LOCALIZING_ROTATING" /\ att'.ls = att.ls
    BY <1>3, <1>a DEF TickRotates, TurnsIn, Is, Active
  <2>2. NobodyDrives' /\ ReadyIsStill'
    BY <1>3, <2>1 DEF TickRotates, Chassis, TurnsAlone, MayTurn, NobodyDrives, ReadyIsStill
  <2>3. LoadsAtRest'
    BY <1>3, <2>2 DEF TickRotates, Chassis, LoadsAtRest
  <2> QED
    BY <2>2, <2>3 DEF Chassis, TurnsAlone
<1>4. CASE Rotate
  <2>1. NobodyDrives' /\ ReadyIsStill'
    BY <1>4 DEF Rotate, Chassis, TurnsAlone, MayTurn, NobodyDrives, ReadyIsStill
  <2>2. LoadsAtRest'
    BY <1>4, <2>1 DEF Rotate, Chassis, LoadsAtRest
  <2> QED
    BY <2>1, <2>2 DEF Chassis, TurnsAlone
<1>5. CASE PoseJumps
  <2>1. command.pc = "idle" /\ UNCHANGED command
    BY <1>5 DEF PoseJumps, Chassis, LoadsAtRest
  <2>2. att'.ls = "VERIFYING"
    BY <1>5, VerifyTypes DEF PoseJumps
  <2>3. nav'.drive = 0
    BY <1>5, <1>a, MissionOperators DEF PoseJumps, Missions
  <2> QED
    BY <1>5, <1>b, <2>1, <2>2, <2>3
       DEF PoseJumps, Chassis, TurnsAlone, NobodyDrives, LoadsAtRest, ReadyIsStill
<1> QED
  BY <1>1, <1>2, <1>3, <1>4, <1>5

\* The commands that let localization turn, and the load and its rollback.
LEMMA CommandsKeepChassis ==
  ASSUME LocalizationTypes, Chassis,
         \/ ForceRescan \/ (\E allow \in BOOLEAN : Relocalize(allow))
         \/ LoadStarts \/ RollsBack
  PROVE  Chassis'
<1> USE DEF evidence, search, mission, Resting
<1>a. att \in Attempts /\ nav \in Missions /\ Prepared \in Missions /\ Prepared.drive = nav.drive
  BY MissionOperators DEF Prepared, LocalizationTypes
<1>b. ASSUME NewGeneration PROVE \A r \in resumes' : r.pc = "clear"
  BY <1>b, SetTypes DEF NewGeneration, LocalizationTypes
<1>1. CASE ForceRescan
  <2>1. command.pc = "idle" /\ UNCHANGED command
    BY <1>1 DEF ForceRescan, Prepare
  <2>2. NobodyDrives'
    <3>1. nav'.drive = nav.drive /\ nav.drive = 0
      BY <1>1, <1>a DEF ForceRescan, Prepare, Motionless, Missions
    <3> QED
      BY <1>1, <1>b, <3>1 DEF ForceRescan, Prepare, NobodyDrives
  <2>3. att'.ls # "READY"
    <3>1. CASE Is(Searching) /\ att' = [att EXCEPT !.allow = TRUE]
      BY <1>a, <3>1, ActiveStates DEF Is, Attempts
    <3>2. CASE att' = OdometryPrior(att, TRUE)
      BY <1>a, <3>2, SeedAttempts, ActiveStates
    <3>3. CASE StartGlobalFor([att EXCEPT !.allow = TRUE], 1)
      <4>1. [att EXCEPT !.allow = TRUE] \in Attempts
        BY <1>a DEF Attempts
      <4>2. May
        BY <1>1 DEF ForceRescan, Prepare
      <4> QED
        BY <3>3, <4>1, <4>2, StartGlobalTypes DEF GlobalBegins
    <3> QED
      BY <1>1, <3>1, <3>2, <3>3 DEF ForceRescan
  <2> QED
    BY <2>1, <2>2, <2>3 DEF Chassis, TurnsAlone, LoadsAtRest, ReadyIsStill
<1>2. ASSUME NEW allow \in BOOLEAN, Relocalize(allow) PROVE Chassis'
  <2>1. command.pc = "idle" /\ UNCHANGED command
    BY <1>2 DEF Relocalize, Prepare
  <2>2. NobodyDrives'
    BY <1>2, <1>a, <1>b DEF Relocalize, Prepare, Motionless, NobodyDrives
  <2>3. att'.ls # "READY"
    <3>1. CASE Is(Seeds \cup {"LOCALIZATION_INITIALIZING", "VERIFYING"})
               /\ att' = [att EXCEPT !.allow = @ \/ allow]
      BY <1>a, <3>1, ActiveStates DEF Is, Attempts
    <3>2. CASE Verify(allow)
      BY <3>2, VerifyTypes
    <3>3. CASE StartGlobalFor([att EXCEPT !.allow = allow], 1)
      <4>1. [att EXCEPT !.allow = allow] \in Attempts
        BY <1>a DEF Attempts
      <4>2. May
        BY <1>2 DEF Relocalize, Prepare
      <4> QED
        BY <3>3, <4>1, <4>2, StartGlobalTypes DEF GlobalBegins
    <3> QED
      BY <1>2, <3>1, <3>2, <3>3 DEF Relocalize
  <2> QED
    BY <2>1, <2>2, <2>3 DEF Chassis, TurnsAlone, LoadsAtRest, ReadyIsStill
<1>3. CASE LoadStarts
  <2>1. att'.ls = "LOCALIZATION_INITIALIZING" /\ att'.allow = att.allow
    BY <1>3, <1>a DEF LoadStarts, Attempts
  <2>2. command'.ls = att.ls /\ command'.pc # "idle"
    BY <1>3 DEF LoadStarts
  <2>3. NobodyDrives' /\ LoadsAtRest'
    BY <1>3 DEF LoadStarts, NobodyDrives, LoadsAtRest
  <2>4. ReadyIsStill'
    BY <1>3, <2>1, <2>2, ActiveStates DEF LoadStarts, Chassis, ReadyIsStill, TurnsIn
  <2> QED
    BY <2>3, <2>4 DEF Chassis, TurnsAlone
<1>4. CASE RollsBack
  <2>1. command'.pc = "idle" /\ command.pc # "idle"
    BY <1>4 DEF RollsBack, NoCommand
  <2>2. att'.allow = att.allow /\ att'.ls \in {att.ls, "IDLE", command.ls}
    BY <1>4, <1>a DEF RollsBack, Attempts
  <2>3. NobodyDrives'
    <3>1. nav'.drive = nav.drive
      BY <1>4, <1>a, MissionOperators DEF RollsBack
    <3> QED
      BY <1>4, <2>1, <3>1 DEF RollsBack, Chassis, LoadsAtRest, NobodyDrives
  <2>4. LoadsAtRest'
    BY <2>1 DEF LoadsAtRest
  <2>5. ReadyIsStill'
    BY <1>4, <2>1, <2>2, ActiveStates DEF RollsBack, Chassis, ReadyIsStill, TurnsIn
  <2> QED
    BY <2>3, <2>4, <2>5 DEF Chassis, TurnsAlone
<1> QED
  BY <1>1, <1>2, <1>3, <1>4

\* The steps by which a mission moves or is about to.
LEMMA DrivingKeepsChassis ==
  ASSUME LocalizationTypes, Chassis,
         \/ TickRetriesResume \/ Accept \/ Start
         \/ \E r \in resumes : /\ ResumeChecks(r) \/ ResumeStarts(r)
                               /\ UNCHANGED <<grid, att, evidence, rotating, anchor, calling,
                                              sensor, command, tick>>
  PROVE  Chassis'
<1> USE DEF evidence, search
<1>a. att \in Attempts /\ nav \in Missions /\ Rests(nav) \in Missions
  BY MissionOperators DEF LocalizationTypes
<1>b. ASSUME UNCHANGED <<att, rotating, sensor, command, tick>>
      PROVE  (MayTurn' <=> MayTurn) /\ ReadyIsStill'
  BY <1>b DEF MayTurn, TurnsIn, Chassis, ReadyIsStill
<1>1. CASE TickRetriesResume
  <2>1. command.pc = "idle" /\ att.ls = "READY"
    BY <1>1 DEF TickRetriesResume, DueByLoss, Is, Chassis, LoadsAtRest
  <2>2. ~MayTurn
    BY <2>1 DEF Chassis, ReadyIsStill, MayTurn
  <2> QED
    BY <1>1, <1>b, <2>1, <2>2 DEF TickRetriesResume, Chassis, TurnsAlone, LoadsAtRest
<1>2. CASE Accept
  <2>1. att'.ls = "READY" /\ ~att'.allow
    BY <1>2, <1>a, AcceptedAttempt
  <2>2. ReadyIsStill'
    BY <1>2, <2>1, ActiveStates DEF Accept, ReadyIsStill, TurnsIn
  <2>3. CASE command.pc = "idle"
    <3>1. ~MayTurn'
      BY <1>2, <2>1, <2>3, ActiveStates DEF Accept, MayTurn, TurnsIn
    <3>2. command'.pc = "idle"
      BY <1>2, <2>3 DEF Accept
    <3> QED
      BY <2>2, <3>1, <3>2 DEF Chassis, TurnsAlone, LoadsAtRest
  <2>4. CASE command.pc # "idle"
    <3>1. Threads(nav) = {} /\ Resumed(Rests(nav)).cur = "rest"
          /\ Resumed(Rests(nav)).drive = nav.drive
          /\ Resumed(Rests(nav)).byTime = nav.byTime /\ Resumed(Rests(nav)).byLoss = nav.byLoss
      <4>1. nav.byTime = 0 /\ nav.byLoss = 0
        BY <2>4 DEF Chassis, LoadsAtRest
      <4>2. ~DueByTime(nav) /\ ~DueByLoss(nav) /\ ~DueByTime(Rests(nav)) /\ ~DueByLoss(Rests(nav))
        BY <1>a, <4>1, MissionOperators DEF DueByTime, DueByLoss
      <4>3. Resumed(Rests(nav)).cur = Rests(nav).cur
        BY <1>a, <4>2 DEF Resumed, Missions
      <4> QED
        BY <1>a, <4>2, <4>3, MissionOperators DEF Threads
    <3>2. NobodyDrives' /\ LoadsAtRest'
      BY <1>2, <2>4, <3>1 DEF Accept, Chassis, LoadsAtRest, NobodyDrives
    <3> QED
      BY <2>2, <3>2 DEF Chassis, TurnsAlone
  <2> QED
    BY <2>3, <2>4
<1>3. CASE Start
  <2>1. command.pc = "idle" /\ ~MayTurn
    BY <1>3 DEF Start, Is, Chassis, ReadyIsStill, MayTurn
  <2> QED
    BY <1>3, <1>b, <2>1 DEF Start, Chassis, TurnsAlone, LoadsAtRest
<1>4. ASSUME NEW r \in resumes, ResumeChecks(r) \/ ResumeStarts(r),
             UNCHANGED <<grid, att, evidence, rotating, anchor, calling, sensor, command, tick>>
      PROVE  Chassis'
  <2>1. r.pc # "clear"
    BY <1>4 DEF ResumeChecks, ResumeStarts
  <2>2. command.pc = "idle" /\ ~MayTurn
    BY <2>1 DEF Chassis, TurnsAlone, LoadsAtRest, NobodyDrives
  <2> QED
    BY <1>4, <1>b, <2>2 DEF Chassis, TurnsAlone, LoadsAtRest
<1> QED
  BY <1>1, <1>2, <1>3, <1>4

LEMMA ChassisKept ==
  LocalizationTypes /\ Chassis /\ [LocalizationNext]_localizationVars => Chassis'
<1> SUFFICES ASSUME LocalizationTypes, Chassis, [LocalizationNext]_localizationVars
             PROVE  Chassis'
  OBVIOUS
<1> USE CalmStepKeepsChassis
<1>a. LoadsAtRest
  BY DEF Chassis
<1>1. CASE Monitors
  BY <1>1, <1>a, MonitorsAreCalm, TurningKeepsChassis, DrivingKeepsChassis DEF Monitors
<1>2. CASE Ticks
  BY <1>2, QuietTicksAreCalm, TurningKeepsChassis DEF Ticks
<1>3. CASE Writes
  BY <1>3, TurningKeepsChassis, DrivingKeepsChassis DEF Writes
<1>4. CASE World \/ \E w \in workers : SearchEnds(w)
  BY <1>4, WorldIsCalm, TurningKeepsChassis DEF World
<1>5. CASE Operator
  BY <1>5, <1>a, EndingsAreCalm, CommandsKeepChassis, DrivingKeepsChassis DEF Operator
<1>6. CASE Loading
  BY <1>6, <1>a, EndingsAreCalm, CommandsKeepChassis DEF Loading
<1>7. ASSUME NEW r \in resumes, ResumeStep(r) PROVE Chassis'
  BY <1>7, <1>a, EndingsAreCalm, DrivingKeepsChassis DEF ResumeStep
<1>8. CASE UNCHANGED localizationVars
  BY <1>8 DEF localizationVars, Chassis, TurnsAlone, LoadsAtRest, ReadyIsStill, MayTurn,
              NobodyDrives, TurnsIn
<1> QED
  BY <1>1, <1>2, <1>3, <1>4, <1>5, <1>6, <1>7, <1>8 DEF LocalizationNext

\* Localization and navigation never own the chassis together.  Nothing but READY lets a
\* route start, and READY is reached only after the permission to rotate is gone; the
\* velocity that a tick has already decided on is the step between that counts.
THEOREM OneOwnerOfMotion == LocalizationSpec => []OneMotionOwner
<1>1. LocalizationInit => Chassis
  BY DEF LocalizationInit, Chassis, TurnsAlone, LoadsAtRest, ReadyIsStill, NobodyDrives, NoCommand
<1>2. LocalizationTypes /\ Chassis /\ [LocalizationNext]_localizationVars => Chassis'
  BY ChassisKept
<1>3. Chassis => OneMotionOwner
  BY DEF Chassis, TurnsAlone, MayTurn, NobodyDrives, OneMotionOwner
<1> QED
  BY <1>1, <1>2, <1>3, LocalizationTypeCorrect, NamedTypes, PTL DEF LocalizationSpec

-----------------------------------------------------------------------------
(* What READY rests on.                                                    *)

\* Not only of a robot that counts as localized.
SeenOnThisGrid == command.pc = "idle" /\ command.through /\ grid # 0 => obs.grid \in {0, grid}

\* What a tick has decided is still so when it writes.
DecidedIsUnique ==
  ~foreign /\ (tick = "accept" /\ att.untrusted => att.hint \/ verdict = "good")

Basis == SeenOnThisGrid /\ DecidedIsUnique

\* A step that leaves the grid and the load alone and sees nothing of another grid.
LEMMA SameGridKeepsSeen ==
  ASSUME SeenOnThisGrid, UNCHANGED <<grid, command>>, obs'.grid \in {0, obs.grid, grid}
  PROVE  SeenOnThisGrid'
BY DEF SeenOnThisGrid

\* The ticks: the decision to accept is taken on the verdict there is.
LEMMA TicksKeepBasis ==
  ASSUME LocalizationTypes, Basis, Monitors \/ Ticks \/ Writes
  PROVE  Basis'
<1> USE DEF evidence, search, mission, Quiet
<1>a. att \in Attempts /\ NoEvidence.grid = 0 /\ foreign = FALSE
  BY DEF LocalizationTypes, NoEvidence, Basis, DecidedIsUnique
<1>b. ASSUME StartGlobal(att) PROVE obs' = NoEvidence /\ foreign' = FALSE
  BY <1>a, <1>b, SearchTypes DEF GlobalBegins
<1>c. ASSUME NEW allow \in BOOLEAN, Verify(allow) PROVE obs'.grid = obs.grid
  BY <1>c, VerifyTypes
<1>1. UNCHANGED <<grid, command>>
  BY DEF Monitors, Ticks, Writes, TickLosesTf, TickDegrades, TickGivesUpOnSensors, TickRestores,
         LoseLocalization, TickRetriesResume, FailClosed, TickSettles, TickAsks, TickAdvances,
         TickRejects, TickAccepts, TickNextHeading, TickVerifyTimesOut, TickSessionTimesOut,
         TickSeedTimesOut, TickSearches, TickTurns, TickRotates, Accept, Rotate
<1>2. CASE TickRestores
  <2>1. obs'.grid \in {0, obs.grid} /\ foreign' = FALSE /\ tick' = "idle"
    BY <1>2, <1>a, <1>b, <1>c DEF TickRestores
  <2> QED
    BY <1>1, <2>1, SameGridKeepsSeen DEF Basis, DecidedIsUnique
<1>3. CASE LoseLocalization \/ TickVerifyTimesOut
  <2>1. obs'.grid = 0 /\ foreign' = FALSE /\ tick' = "idle"
    BY <1>3, <1>a, <1>b DEF LoseLocalization, TickVerifyTimesOut, Tick
  <2> QED
    BY <1>1, <2>1, SameGridKeepsSeen DEF Basis, DecidedIsUnique
<1>4. CASE TickSeedTimesOut
  <2>1. obs'.grid \in {0, obs.grid} /\ foreign' = FALSE /\ tick' = "idle"
    BY <1>4, <1>a, <1>b DEF TickSeedTimesOut, Tick
  <2> QED
    BY <1>1, <2>1, SameGridKeepsSeen DEF Basis, DecidedIsUnique
<1>5. CASE TickSettles
  <2>1. obs'.grid = obs.grid
    BY <1>5 DEF TickSettles, StationaryReset, LocalizationTypes, Evidence
  <2> QED
    BY <1>1, <1>5, <1>a, <2>1, SameGridKeepsSeen DEF TickSettles, Basis, DecidedIsUnique
<1>6. CASE TickAsks
  <2>1. obs' = obs /\ foreign' = FALSE /\ tick' = "idle"
    BY <1>6 DEF TickAsks, Tick, Ask
  <2> QED
    BY <1>1, <2>1, SameGridKeepsSeen DEF Basis, DecidedIsUnique
<1>7. CASE TickAccepts
  BY <1>7, <1>1, SameGridKeepsSeen DEF TickAccepts, Accepted, Basis, DecidedIsUnique
<1>8. CASE \/ TickLosesTf \/ TickDegrades \/ TickGivesUpOnSensors \/ TickRetriesResume
           \/ FailClosed \/ TickAdvances \/ TickRejects \/ TickNextHeading
           \/ TickSessionTimesOut \/ TickSearches \/ TickTurns \/ TickRotates
           \/ Accept \/ Rotate
  <2>1. obs' = obs /\ foreign' = foreign /\ tick' # "accept"
    BY <1>8 DEF TickLosesTf, TickDegrades, TickGivesUpOnSensors, TickRetriesResume, FailClosed,
                TickAdvances, TickRejects, TickNextHeading, TickSessionTimesOut, TickSearches,
                TickTurns, TickRotates, Accept, Rotate, Tick
  <2> QED
    BY <1>1, <2>1, SameGridKeepsSeen DEF Basis, DecidedIsUnique
<1> QED
  BY <1>2, <1>3, <1>4, <1>5, <1>6, <1>7, <1>8 DEF Monitors, Ticks, Writes

\* Everything else: what is written between the two halves of a tick takes nothing from
\* the verdict but the attempt it is needed for.
LEMMA OthersKeepBasis ==
  ASSUME LocalizationTypes, Basis,
         \/ World \/ Operator \/ Loading
         \/ (\E w \in workers : SearchEnds(w)) \/ (\E r \in resumes : ResumeStep(r))
  PROVE  Basis'
<1> USE DEF evidence, search, mission
<1>a. att \in Attempts /\ NoEvidence.grid = 0 /\ foreign = FALSE
  BY DEF LocalizationTypes, NoEvidence, Basis, DecidedIsUnique
<1>b. ASSUME Forget PROVE obs' = NoEvidence /\ foreign' = FALSE
  BY <1>b DEF Forget
<1>c. ASSUME NEW allow \in BOOLEAN, Verify(allow) PROVE obs'.grid = obs.grid /\ ~att'.untrusted
  BY <1>c, VerifyTypes
<1>d. ASSUME NEW a, NEW calls, StartGlobalFor(a, calls) PROVE obs' = NoEvidence /\ foreign' = FALSE
  BY <1>b, <1>d DEF StartGlobalFor
<1>1. CASE \E level \in Levels : Observe(level)
  <2>1. obs'.grid = grid /\ tick' = "idle" /\ foreign' = foreign /\ UNCHANGED <<grid, command>>
    BY <1>1 DEF Observe
  <2> QED
    BY <2>1, SameGridKeepsSeen DEF Basis, DecidedIsUnique
<1>2. CASE SensorFault \/ SensorHeals
  BY <1>2, SameGridKeepsSeen DEF SensorFault, SensorHeals, Basis, DecidedIsUnique
<1>3. CASE ServiceAnswers
  <2>1. att'.untrusted = att.untrusted /\ att'.hint = att.hint
    BY <1>3, <1>a DEF ServiceAnswers, Attempts
  <2> QED
    BY <1>3, <2>1, SameGridKeepsSeen DEF ServiceAnswers, Basis, DecidedIsUnique
<1>4. CASE PoseJumps
  BY <1>4, <1>c, SameGridKeepsSeen DEF PoseJumps, Basis, DecidedIsUnique
<1>5. CASE ForceRescan
  <2>1. UNCHANGED <<grid, command, tick>>
    BY <1>5 DEF ForceRescan
  <2>2. CASE att' = [att EXCEPT !.allow = TRUE] /\ UNCHANGED <<evidence, rotating, calling>>
    <3>1. att'.untrusted = att.untrusted /\ att'.hint = att.hint
      BY <1>a, <2>2 DEF Attempts
    <3> QED
      BY <2>1, <2>2, <3>1, SameGridKeepsSeen DEF Basis, DecidedIsUnique
  <2>3. CASE att' = OdometryPrior(att, TRUE) /\ Forget
    <3>1. ~att'.untrusted
      BY <1>a, <2>3, SeedAttempts
    <3> QED
      BY <1>a, <1>b, <2>1, <2>3, <3>1, SameGridKeepsSeen DEF Basis, DecidedIsUnique
  <2>4. CASE tick = "idle" /\ StartGlobalFor([att EXCEPT !.allow = TRUE], 1)
    BY <1>a, <1>d, <2>1, <2>4, SameGridKeepsSeen DEF Basis, DecidedIsUnique
  <2> QED
    BY <1>5, <2>2, <2>3, <2>4 DEF ForceRescan
<1>6. ASSUME NEW allow \in BOOLEAN, Relocalize(allow) PROVE Basis'
  <2>1. UNCHANGED <<grid, command, tick>>
    BY <1>6 DEF Relocalize
  <2>2. CASE att' = [att EXCEPT !.allow = @ \/ allow] /\ UNCHANGED <<evidence, rotating, calling>>
    <3>1. att'.untrusted = att.untrusted /\ att'.hint = att.hint
      BY <1>a, <2>2 DEF Attempts
    <3> QED
      BY <2>1, <2>2, <3>1, SameGridKeepsSeen DEF Basis, DecidedIsUnique
  <2>3. CASE Verify(allow) /\ UNCHANGED <<search, calling>>
    BY <1>c, <2>1, <2>3, SameGridKeepsSeen DEF Basis, DecidedIsUnique
  <2>4. CASE tick = "idle" /\ StartGlobalFor([att EXCEPT !.allow = allow], 1)
    BY <1>a, <1>d, <2>1, <2>4, SameGridKeepsSeen DEF Basis, DecidedIsUnique
  <2> QED
    BY <1>6, <2>2, <2>3, <2>4 DEF Relocalize
<1>7. CASE SetInitialPose
  <2>1. obs'.grid \in {0, obs.grid} /\ foreign' = FALSE /\ tick' = "idle"
        /\ UNCHANGED <<grid, command>>
    BY <1>7, <1>a, <1>b DEF SetInitialPose
  <2> QED
    BY <2>1, SameGridKeepsSeen DEF Basis, DecidedIsUnique
<1>8. CASE Start \/ MissionEnds
  BY <1>8, SameGridKeepsSeen DEF Start, MissionEnds, Basis, DecidedIsUnique
<1>9. CASE LoadStarts \/ LoadCommits
  <2>1. command'.pc # "idle"
    BY <1>9 DEF LoadStarts, LoadCommits, LocalizationTypes, Loads
  <2>2. att'.untrusted = att.untrusted /\ att'.hint = att.hint
    BY <1>9, <1>a DEF LoadStarts, LoadCommits, Attempts
  <2> QED
    BY <1>9, <2>1, <2>2 DEF LoadStarts, LoadCommits, Basis, SeenOnThisGrid, DecidedIsUnique
<1>10. CASE RollsBack \/ LoadTimesOut
  <2>1. ~command'.through
    BY <1>10 DEF RollsBack, LoadTimesOut, NoCommand
  <2>2. att'.untrusted = att.untrusted /\ att'.hint = att.hint
    BY <1>10, <1>a DEF RollsBack, LoadTimesOut, Attempts
  <2> QED
    BY <1>10, <2>1, <2>2 DEF RollsBack, LoadTimesOut, Basis, SeenOnThisGrid, DecidedIsUnique
<1>11. CASE Deactivate
  <2>1. att'.untrusted = att.untrusted /\ att'.hint = att.hint
    BY <1>11, <1>a DEF Deactivate, Attempts
  <2> QED
    BY <1>11, <2>1 DEF Deactivate, Basis, SeenOnThisGrid, DecidedIsUnique
<1>12. ASSUME NEW stored \in Goals, NEW auto \in BOOLEAN, LoadEnds(stored, auto) PROVE Basis'
  <2>1. obs' = NoEvidence /\ foreign' = FALSE /\ tick' = "idle"
    BY <1>12, <1>b, <1>d DEF LoadEnds, BeginAuto, StartGlobal
  <2> QED
    BY <1>a, <2>1 DEF Basis, SeenOnThisGrid, DecidedIsUnique
<1>13. ASSUME NEW w \in workers, SearchEnds(w) PROVE Basis'
  <2>1. obs'.grid \in {0, obs.grid} /\ foreign' = FALSE /\ tick' = "idle"
        /\ UNCHANGED <<grid, command>>
    BY <1>13, <1>a DEF SearchEnds, Fits
  <2> QED
    BY <2>1, SameGridKeepsSeen DEF Basis, DecidedIsUnique
<1>14. ASSUME NEW r \in resumes, ResumeStep(r) PROVE Basis'
  BY <1>14, SameGridKeepsSeen DEF ResumeStep, Basis, DecidedIsUnique
<1> QED
  BY <1>1, <1>2, <1>3, <1>4, <1>5, <1>6, <1>7, <1>8, <1>9, <1>10, <1>11, <1>12, <1>13, <1>14
     DEF World, Operator, Loading

LEMMA BasisKept ==
  LocalizationTypes /\ Basis /\ [LocalizationNext]_localizationVars => Basis'
<1>1. ASSUME Basis, UNCHANGED localizationVars PROVE Basis'
  BY <1>1 DEF localizationVars, Basis, SeenOnThisGrid, DecidedIsUnique
<1> QED
  BY <1>1, TicksKeepBasis, OthersKeepBasis DEF LocalizationNext

LEMMA BasisHolds == LocalizationSpec => []Basis
<1>1. LocalizationInit => Basis
  BY DEF LocalizationInit, Basis, SeenOnThisGrid, DecidedIsUnique
<1> QED
  BY <1>1, BasisKept, LocalizationTypeCorrect, NamedTypes, PTL DEF LocalizationSpec

\* After a map.load that went through, a robot counts as localized on evidence of that map
\* only: none of what the commands write outside localization_lock lets the evidence of
\* the map before survive.
THEOREM SeenOnItsMap == LocalizationSpec => []EvidenceFitsMap
<1>1. Basis => EvidenceFitsMap
  BY DEF Basis, SeenOnThisGrid, EvidenceFitsMap
<1> QED
  BY <1>1, BasisHolds, PTL

\* A pose found by searching the whole map becomes READY only on a verdict of its own
\* attempt and grid, or where the operator pointed, although the tick that writes READY
\* has decided on it earlier and commands fall in between.
THEOREM ReadyRestsOnItsVerdict == LocalizationSpec => ReadyIsUnique
<1>1. Basis => [tick = "accept" /\ att.untrusted /\ att'.localized
                 => att.hint \/ (verdict = "good" /\ ~foreign)]_localizationVars
  BY DEF Basis, DecidedIsUnique
<1> QED
  BY <1>1, BasisHolds, PTL DEF ReadyIsUnique
=============================================================================
