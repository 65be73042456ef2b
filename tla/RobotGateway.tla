---------------------------- MODULE RobotGateway ----------------------------
(***************************************************************************)
(* One robot's connections to the center (robot_gateway in                 *)
(* api/websockets.py), its presence in the hub, and the commands that      *)
(* operators send it once (_dispatch_idempotent in api/maps.py and         *)
(* api/navigation.py) through ConnectionHub.request_robot, which waits for *)
(* the answer that a connection's handler hands over.                      *)
(*                                                                         *)
(* An action is the code between two awaits that really wait.  Waiting for *)
(* the robot's send lock is the state "sending"; which waiter comes first  *)
(* plays no part here (ControlRelay is about that).  A receipt is found    *)
(* and written, and the request entered among the pending ones, without    *)
(* an await.  Asking again under the same request_id reads the receipt and *)
(* changes nothing.  The edge process and the network are external.        *)
(***************************************************************************)
EXTENDS Naturals, FiniteSets

CONSTANTS
  Conns,      \* connections of the robot
  Requests,   \* request_ids of the operators
  NoConn,     \* no connection
  MaxRestarts \* bound on the restarts of the center

ASSUME NoConnAssumption == NoConn \notin Conns
ASSUME RestartsAssumption == MaxRestarts \in Nat

VARIABLES
  pc,        \* where the handler of a connection is
  sock,      \* its socket at the center: "closing" may still deliver a message
  old,       \* the socket it replaced, while it waits for the close handshake
  link,      \* hub.robot_sockets[robot]
  online,    \* RobotRuntime.status = "online"
  receipt,   \* the row of command_receipts
  task,      \* request_robot of the request
  via,       \* the socket that forward_to_robot read
  future,    \* the future in hub.pending_robot_requests
  restarts,  \* restarts of the center so far
  edge,      \* the connection the edge process holds
  toRobot,   \* requests on their way to the edge
  owed,      \* requests the edge carries out and will answer on the connection
  fromRobot, \* answers on their way to the center
  ran        \* how often the edge carried a request out

handlerVars == <<pc, sock, old>>
presenceVars == <<link, online>>
callVars == <<receipt, task, via, future>>
edgeVars == <<edge, toRobot, owed, fromRobot, ran>>
vars == <<pc, sock, old, link, online, receipt, task, via, future, restarts,
          edge, toRobot, owed, fromRobot, ran>>

Answers == [request : Requests, status : {"accepted", "rejected"}]

TypeOK ==
  /\ pc \in [Conns -> {"new", "closingOld", "receiving", "handling", "done"}]
  /\ sock \in [Conns -> {"open", "closing", "closed"}]
  /\ old \in [Conns -> Conns \cup {NoConn}]
  /\ link \in Conns \cup {NoConn}
  /\ online \in BOOLEAN
  /\ receipt \in [Requests -> {"none", "pending", "accepted", "rejected"}]
  /\ task \in [Requests -> {"idle", "sending", "waiting", "done"}]
  /\ via \in [Requests -> Conns \cup {NoConn}]
  /\ future \in [Requests -> {"none", "pending", "accepted", "rejected", "offline"}]
  /\ restarts \in 0 .. MaxRestarts
  /\ edge \in Conns \cup {NoConn}
  /\ toRobot \in [Conns -> SUBSET Requests]
  /\ owed \in [Conns -> SUBSET Requests]
  /\ fromRobot \in [Conns -> SUBSET Answers]
  /\ ran \in [Requests -> 0 .. 2]

Init ==
  /\ pc = [c \in Conns |-> "new"]
  /\ sock = [c \in Conns |-> "open"]
  /\ old = [c \in Conns |-> NoConn]
  /\ link = NoConn
  /\ online = FALSE
  /\ receipt = [r \in Requests |-> "none"]
  /\ task = [r \in Requests |-> "idle"]
  /\ via = [r \in Requests |-> NoConn]
  /\ future = [r \in Requests |-> "none"]
  /\ restarts = 0
  /\ edge = NoConn
  /\ toRobot = [c \in Conns |-> {}]
  /\ owed = [c \in Conns |-> {}]
  /\ fromRobot = [c \in Conns |-> {}]
  /\ ran = [r \in Requests |-> 0]

-----------------------------------------------------------------------------
(* The handler of a connection.                                            *)

\* close() of a socket: from now on its handler cannot start to receive.
Closing(s) == IF s = "open" THEN "closing" ELSE s

\* register_robot, then ws_error on the socket that was registered before.
EdgeConnects(c) ==
  /\ edge = NoConn
  /\ pc[c] = "new"
  /\ edge' = c
  /\ link' = c
  /\ online' = TRUE
  /\ old' = [old EXCEPT ![c] = link]
  /\ pc' = [pc EXCEPT ![c] = IF link = NoConn THEN "handling" ELSE "closingOld"]
  /\ sock' = [s \in Conns |-> IF s = link THEN Closing(sock[s]) ELSE sock[s]]
  /\ UNCHANGED <<callVars, restarts, toRobot, owed, fromRobot, ran>>

OldClosed(c) ==
  /\ pc[c] = "closingOld"
  /\ sock[old[c]] = "closed"
  /\ pc' = [pc EXCEPT ![c] = "handling"]
  /\ old' = [old EXCEPT ![c] = NoConn]
  /\ UNCHANGED <<sock, presenceVars, callVars, restarts, edgeVars>>

\* The next receive_text, after the welcome or after a message.
StartReceive(c) ==
  /\ pc[c] = "handling"
  /\ sock[c] = "open"
  /\ pc' = [pc EXCEPT ![c] = "receiving"]
  /\ UNCHANGED <<sock, old, presenceVars, callVars, restarts, edgeVars>>

Arrives(c) == pc[c] = "receiving" /\ sock[c] # "closed"

\* touch_robot.
Touched(c) == online' = TRUE

\* Telemetry and heartbeats.  Persisting and broadcasting them may take long.
ReceiveTelemetry(c) ==
  /\ Arrives(c)
  /\ Touched(c)
  /\ pc' = [pc EXCEPT ![c] = "handling"]
  /\ UNCHANGED <<sock, old, link, callVars, restarts, edgeVars>>

\* resolve_robot_request; an answer nobody waits for is broadcast as telemetry.
Resolved(a) ==
  [r \in Requests |-> IF r = a.request /\ future[r] = "pending" THEN a.status ELSE future[r]]

ReceiveAnswer(c) ==
  /\ Arrives(c)
  /\ \E a \in fromRobot[c] :
       /\ fromRobot' = [fromRobot EXCEPT ![c] = @ \ {a}]
       /\ future' = Resolved(a)
  /\ Touched(c)
  /\ pc' = [pc EXCEPT ![c] = "handling"]
  /\ UNCHANGED <<sock, old, link, receipt, task, via, restarts, edge, toRobot, owed, ran>>

\* unregister_robot fails what is pending.
Failed == [r \in Requests |-> IF future[r] = "pending" THEN "offline" ELSE future[r]]

Registered(c) == link = c

StatusAfter(c) == IF Registered(c) THEN FALSE ELSE online

\* The handler finds its socket closed: at the welcome, or when it receives.
Over(c) ==
  \/ pc[c] = "receiving" /\ sock[c] = "closed"
  \/ pc[c] = "handling" /\ sock[c] # "open"

\* The finally of robot_gateway.
Leave(c) ==
  /\ Over(c)
  /\ pc' = [pc EXCEPT ![c] = "done"]
  /\ sock' = [sock EXCEPT ![c] = "closed"]
  /\ link' = IF Registered(c) THEN NoConn ELSE link
  /\ future' = IF Registered(c) THEN Failed ELSE future
  /\ online' = StatusAfter(c)
  /\ UNCHANGED <<old, receipt, task, via, restarts, edgeVars>>

\* presence_monitor: nothing was heard for heartbeat_timeout_seconds.
HeartbeatTimeout ==
  /\ online /\ link # NoConn
  /\ sock[link] = "open"
  /\ sock' = [sock EXCEPT ![link] = "closing"]
  /\ UNCHANGED <<pc, old, presenceVars, callVars, restarts, edgeVars>>

-----------------------------------------------------------------------------
(* A command of an operator.                                               *)

Finish(r, status) ==
  /\ receipt' = [receipt EXCEPT ![r] = status]
  /\ task' = [task EXCEPT ![r] = "done"]
  /\ future' = [future EXCEPT ![r] = "none"]
  /\ UNCHANGED via

\* mutation: only an answer is written down.
MayDispatchAgain(r) == receipt[r] \in {"none", "pending"} /\ task[r] = "idle"

\* No receipt, so the request was never sent.
MayDispatch(r) == receipt[r] = "none"

\* _dispatch_idempotent up to the first await: the lock of the robot's socket.
Dispatch(r) ==
  /\ MayDispatch(r)
  /\ IF link = NoConn
       THEN Finish(r, "rejected")
       ELSE /\ receipt' = [receipt EXCEPT ![r] = "pending"]
            /\ task' = [task EXCEPT ![r] = "sending"]
            /\ via' = [via EXCEPT ![r] = link]
            /\ future' = [future EXCEPT ![r] = "pending"]
  /\ UNCHANGED <<handlerVars, presenceVars, restarts, edgeVars>>

\* The socket read before the lock is still the robot's, and still open.
Sendable(r) == link = via[r] /\ sock[via[r]] = "open"

\* What is sent on a connection the edge has given up is lost.
Send(r) ==
  /\ task[r] = "sending"
  /\ \/ /\ ~Sendable(r)
        /\ Finish(r, "rejected")
        /\ UNCHANGED toRobot
     \/ /\ Sendable(r)
        /\ task' = [task EXCEPT ![r] = "waiting"]
        /\ toRobot' = IF edge = via[r]
                        THEN [toRobot EXCEPT ![edge] = @ \cup {r}] ELSE toRobot
        /\ UNCHANGED <<receipt, via, future>>
  /\ UNCHANGED <<handlerVars, presenceVars, restarts, edge, owed, fromRobot, ran>>

\* The future is done: its answer, or robot_offline.
Wake(r) ==
  /\ task[r] = "waiting"
  /\ future[r] \notin {"none", "pending"}
  /\ Finish(r, IF future[r] = "offline" THEN "rejected" ELSE future[r])
  /\ UNCHANGED <<handlerVars, presenceVars, restarts, edgeVars>>

\* mutation: a command without an answer is left as it is.
TimedOutNever(r) == FALSE

\* wait_for may run out in the turn in which the future is done, too.
TimedOut(r) == task[r] = "waiting"

Timeout(r) ==
  /\ TimedOut(r)
  /\ Finish(r, "rejected")
  /\ UNCHANGED <<handlerVars, presenceVars, restarts, edgeVars>>

-----------------------------------------------------------------------------
(* The edge process, the network, and a restart of the center.             *)

RobotRuns(c, r) ==
  /\ edge = c /\ r \in toRobot[c]
  /\ toRobot' = [toRobot EXCEPT ![c] = @ \ {r}]
  /\ owed' = [owed EXCEPT ![c] = @ \cup {r}]
  /\ ran' = [ran EXCEPT ![r] = @ + 1]
  /\ UNCHANGED <<handlerVars, presenceVars, callVars, restarts, edge, fromRobot>>

RobotAnswers(c, r) ==
  /\ edge = c /\ r \in owed[c]
  /\ owed' = [owed EXCEPT ![c] = @ \ {r}]
  /\ fromRobot' = [fromRobot EXCEPT ![c] =
                     @ \cup {[request |-> r, status |-> "accepted"]}]
  /\ UNCHANGED <<handlerVars, presenceVars, callVars, restarts, edge, toRobot, ran>>

RobotRefuses(c, r) ==
  /\ edge = c /\ r \in toRobot[c]
  /\ toRobot' = [toRobot EXCEPT ![c] = @ \ {r}]
  /\ fromRobot' = [fromRobot EXCEPT ![c] =
                     @ \cup {[request |-> r, status |-> "rejected"]}]
  /\ UNCHANGED <<handlerVars, presenceVars, callVars, restarts, edge, owed, ran>>

\* The edge gives its connection up; the center need not notice.
EdgeLeaves ==
  /\ edge # NoConn
  /\ edge' = NoConn
  /\ toRobot' = [toRobot EXCEPT ![edge] = {}]
  /\ owed' = [owed EXCEPT ![edge] = {}]
  /\ UNCHANGED <<handlerVars, presenceVars, callVars, restarts, fromRobot, ran>>

\* The center notices that a connection is gone, or its close handshake ends.
SocketCloses(c) ==
  /\ pc[c] # "new" /\ edge # c
  /\ sock[c] # "closed"
  /\ sock' = [sock EXCEPT ![c] = "closed"]
  /\ UNCHANGED <<pc, old, presenceVars, callVars, restarts, edgeVars>>

\* Only the receipts are kept; lifespan does not look at them.
Restart ==
  /\ restarts < MaxRestarts
  /\ restarts' = restarts + 1
  /\ pc' = [c \in Conns |-> IF pc[c] = "new" THEN "new" ELSE "done"]
  /\ sock' = [c \in Conns |-> IF pc[c] = "new" THEN "open" ELSE "closed"]
  /\ old' = [c \in Conns |-> NoConn]
  /\ link' = NoConn /\ online' = FALSE
  /\ task' = [r \in Requests |-> "idle"]
  /\ via' = [r \in Requests |-> NoConn]
  /\ future' = [r \in Requests |-> "none"]
  /\ fromRobot' = [c \in Conns |-> {}]
  /\ UNCHANGED <<receipt, edge, toRobot, owed, ran>>

-----------------------------------------------------------------------------
Handler(c) ==
  \/ EdgeConnects(c)
  \/ OldClosed(c)
  \/ StartReceive(c)
  \/ ReceiveTelemetry(c)
  \/ ReceiveAnswer(c)
  \/ Leave(c)

Call(r) ==
  \/ Dispatch(r)
  \/ Send(r)
  \/ Wake(r)
  \/ Timeout(r)

Robot ==
  \/ \E c \in Conns, r \in Requests :
       RobotRuns(c, r) \/ RobotAnswers(c, r) \/ RobotRefuses(c, r)
  \/ EdgeLeaves

Next ==
  \/ \E c \in Conns : Handler(c) \/ SocketCloses(c)
  \/ \E r \in Requests : Call(r)
  \/ Robot
  \/ HeartbeatTimeout
  \/ Restart

Spec == Init /\ [][Next]_vars

\* A task that can go on does: its turn for the lock comes, its timer runs out.
Fairness ==
  \A r \in Requests : WF_vars(Send(r)) /\ WF_vars(Wake(r) \/ Timeout(r))

LiveSpec == Spec /\ Fairness

-----------------------------------------------------------------------------
(* Properties.                                                             *)

\* A robot with a registered connection is never listed as offline, whatever
\* the handlers of its earlier connections still do (unregister_robot).
LinkedIsOnline == link # NoConn => online

\* The registered connection has a handler that will still take it away: no
\* replacement leaves a dead socket behind as the robot's (register_robot,
\* the finally of robot_gateway).
LinkHasHandler == link # NoConn => pc[link] \in {"closingOld", "receiving", "handling"}

\* Once the last connection is gone no request goes on waiting for an answer
\* (unregister_robot, request_robot).
NobodyWaitsForNobody ==
  \A r \in Requests : future[r] = "pending" => link # NoConn

\* However often an operator asks, and whether or not the center restarts in
\* between, the robot carries a request out once at most (_dispatch_idempotent).
AtMostOnce == \A r \in Requests : ran[r] <= 1

\* An accepted receipt is of a request that the robot did carry out, over
\* whichever connection the answer came (resolve_robot_request).
AcceptedWasRun == \A r \in Requests : receipt[r] = "accepted" => ran[r] = 1

\* Whoever sends a command gets its outcome, whatever becomes of the edge and of
\* the connections: the wait for the robot ends (request_robot).
CallReturns ==
  \A r \in Requests : task[r] \in {"sending", "waiting"} ~> task[r] \in {"idle", "done"}

=============================================================================
