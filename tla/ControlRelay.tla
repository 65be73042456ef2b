---------------------------- MODULE ControlRelay ----------------------------
(***************************************************************************)
(* What reaches one robot: the controllers of its sessions (user_control   *)
(* in api/websockets.py), the tasks that end a session and stop the robot  *)
(* (close_session, expire_*, _finalize_expired_session in services/hub.py) *)
(* and forward_to_robot, whose send lock makes them take turns.            *)
(*                                                                         *)
(* An action is the code between two awaits that really wait.  A session   *)
(* is claimed in the same step in which it is looked up: get_session,      *)
(* accept and claim_control do not wait for anything in between.  Media    *)
(* messages, camera.ptz and heartbeats go the same way as the messages     *)
(* below and have no part in the properties.                               *)
(***************************************************************************)
EXTENDS Naturals, Sequences

CONSTANTS
  Sessions,  \* sessions of the robot
  Conns,     \* control WebSockets, each of one browser tab
  Tabs,      \* client_id of a page process
  TabOf,     \* the tab a connection belongs to
  NoConn,    \* no socket
  MaxLinks   \* bound on the connections of the robot

ASSUME TabAssumption == TabOf \in [Conns -> Tabs]
ASSUME NoConnAssumption == NoConn \notin Conns
ASSUME TaskAssumption == Sessions \cap Conns = {}
ASSUME LinksAssumption == MaxLinks \in Nat

VARIABLES
  status,      \* SessionRuntime.status ("expired" counts as ended)
  connected,   \* SessionRuntime.control_connected
  lastFrom,    \* whose number SessionRuntime.last_sequence is; NoConn: -1
  controller,  \* hub.control_sockets; control_clients is TabOf of it
  ender,       \* the task that ends the session
  pc,          \* where the handler of a control socket is
  sess,        \* the session it claimed
  old,         \* the socket it replaces, while it waits for the close handshake
  sock,        \* its socket: "closing" may still deliver one message
  link,        \* hub.robot_sockets[robot]: the number of the link, 0 for none
  links,       \* links so far
  linkDead,    \* the link is closed or broken, and not unregistered yet
  sendQ,       \* tasks that hold or wait for robot_send_locks[robot]
  wire         \* the last motion message delivered on the link

sessionVars == <<status, connected, lastFrom, controller, ender>>
handlerVars == <<pc, sess, old, sock>>
linkVars == <<link, links, linkDead>>
vars == <<status, connected, lastFrom, controller, ender, pc, sess, old, sock,
          link, links, linkDead, sendQ, wire>>

Quiet == [kind |-> "none"]
Motion == {Quiet} \cup [kind : {"velocity", "stop"}, session : Sessions]

\* A call of forward_to_robot: the link it read, the message, the task that waits.
Sends == [to : 1 .. MaxLinks, kind : {"velocity", "stop", "cancel"},
          session : Sessions, task : Conns \cup Sessions]

TypeOK ==
  /\ status \in [Sessions -> {"none", "active", "ended"}]
  /\ connected \in [Sessions -> BOOLEAN]
  /\ lastFrom \in [Sessions -> Conns \cup {NoConn}]
  /\ controller \in [Sessions -> Conns \cup {NoConn}]
  /\ ender \in [Sessions -> {"none", "scheduled", "cancelling", "stopping",
                             "notifying", "closing", "done"}]
  /\ pc \in [Conns -> {"new", "closingOld", "ready", "loop", "forwarding",
                       "requesting", "awaiting", "acking", "leaving", "done", "dead"}]
  /\ sess \in [Conns -> Sessions]
  /\ old \in [Conns -> Conns \cup {NoConn}]
  /\ sock \in [Conns -> {"open", "closing", "closed"}]
  /\ link \in 0 .. MaxLinks
  /\ links \in 0 .. MaxLinks
  /\ linkDead \in BOOLEAN
  /\ sendQ \in Seq(Sends)
  /\ wire \in Motion

Init ==
  /\ status = [s \in Sessions |-> "none"]
  /\ connected = [s \in Sessions |-> FALSE]
  /\ lastFrom = [s \in Sessions |-> NoConn]
  /\ controller = [s \in Sessions |-> NoConn]
  /\ ender = [s \in Sessions |-> "none"]
  /\ pc = [c \in Conns |-> "new"]
  /\ sess \in [Conns -> Sessions]
  /\ old = [c \in Conns |-> NoConn]
  /\ sock = [c \in Conns |-> "open"]
  /\ link = 0
  /\ links = 0
  /\ linkDead = FALSE
  /\ sendQ = <<>>
  /\ wire = Quiet

Active(s) == status[s] = "active"

-----------------------------------------------------------------------------
(* forward_to_robot                                                        *)

\* mutation: what stops the robot overtakes what waits
Overtaking(q, m) == IF m.kind # "velocity" THEN <<m>> \o q ELSE Append(q, m)

\* asyncio.Lock lets its waiters in first come first served.
Joined(q, m) == Append(q, m)

\* forward_to_robot reads the link and waits for the send lock.
Forward(kind, s, t) ==
  sendQ' = Joined(sendQ, [to |-> link, kind |-> kind, session |-> s, task |-> t])

\* Without a link it returns False at once.
NoLink == link = 0

\* The message has gone: it reached the robot if its link is still the one.
Delivered(m) == m.to = link /\ ~linkDead

\* The ending task's next message after one of its messages has gone.
EnderGoesOn(m) ==
  LET s == m.session IN
  \/ /\ m.kind = "cancel"
     /\ ~NoLink
     /\ ender' = [ender EXCEPT ![s] = "stopping"]
     /\ sendQ' = Joined(Tail(sendQ), [m EXCEPT !.kind = "stop", !.to = link])
  \/ /\ m.kind = "stop" \/ NoLink
     /\ ender' = [ender EXCEPT ![s] = "notifying"]
     /\ sendQ' = Tail(sendQ)

\* Where a handler goes when its message has gone.  request_robot goes on to
\* wait for the answer unless forward_to_robot returned False; a handler that
\* was leaving is done.
HandlerGoesOn(c) ==
  pc' = [pc EXCEPT ![c] = CASE @ = "forwarding" -> "acking"
                            [] @ = "requesting" ->
                                 IF Delivered(Head(sendQ)) THEN "awaiting" ELSE "acking"
                            [] @ = "leaving" -> "done"]

\* The task at the head of the queue gets the lock, finds its link still there
\* or not, sends, and runs on to its next wait.
Transmit ==
  /\ sendQ # <<>>
  /\ LET m == Head(sendQ) IN
     /\ wire' = IF Delivered(m) /\ m.kind # "cancel"
                THEN [kind |-> m.kind, session |-> m.session] ELSE wire
     /\ \/ /\ m.task \in Sessions
           /\ EnderGoesOn(m)
           /\ UNCHANGED pc
        \/ /\ m.task \in Conns
           /\ HandlerGoesOn(m.task)
           /\ sendQ' = Tail(sendQ)
           /\ UNCHANGED ender
  /\ UNCHANGED <<status, connected, lastFrom, controller, sess, old, sock>>
  /\ UNCHANGED linkVars

-----------------------------------------------------------------------------
(* The session's life                                                      *)

\* hub.create_session: the robot is online and has no active session.
CreateSession(s) ==
  /\ status[s] = "none"
  /\ ~NoLink
  /\ \A t \in Sessions : ~Active(t)
  /\ status' = [status EXCEPT ![s] = "active"]
  /\ UNCHANGED <<connected, lastFrom, controller, ender, sendQ, wire>>
  /\ UNCHANGED handlerVars
  /\ UNCHANGED linkVars

\* stop_session_robot: navigation.cancel, then control.stop, both skipped
\* without a link.
StartStopping(s) ==
  \/ /\ NoLink
     /\ ender' = [ender EXCEPT ![s] = "notifying"]
     /\ UNCHANGED sendQ
  \/ /\ ~NoLink
     /\ ender' = [ender EXCEPT ![s] = "cancelling"]
     /\ Forward("cancel", s, s)

\* close_session, expire_unconnected_sessions, expire_disconnected_sessions:
\* the session has ended and the same task stops the robot.
EndSession(s) ==
  /\ Active(s)
  /\ status' = [status EXCEPT ![s] = "ended"]
  /\ StartStopping(s)
  /\ UNCHANGED <<connected, lastFrom, controller, wire>>
  /\ UNCHANGED handlerVars
  /\ UNCHANGED linkVars

\* mutation: no task is created
NotScheduled == "none"

Scheduled == "scheduled"

\* _expire_sessions: the session has ended, a task of its own will stop the robot.
ExpireSession(s) ==
  /\ Active(s)
  /\ status' = [status EXCEPT ![s] = "ended"]
  /\ ender' = [ender EXCEPT ![s] = Scheduled]
  /\ UNCHANGED <<connected, lastFrom, controller, sendQ, wire>>
  /\ UNCHANGED handlerVars
  /\ UNCHANGED linkVars

\* _finalize_expired_session begins.
FinalizeExpired(s) ==
  /\ ender[s] = "scheduled"
  /\ StartStopping(s)
  /\ UNCHANGED <<status, connected, lastFrom, controller, wire>>
  /\ UNCHANGED handlerVars
  /\ UNCHANGED linkVars

\* notify_session_ended closes every socket of the session, one after the other.
Notify(s) ==
  /\ ender[s] = "notifying"
  /\ ender' = [ender EXCEPT ![s] = "closing"]
  /\ sock' = [c \in Conns |-> IF pc[c] # "new" /\ sess[c] = s /\ sock[c] = "open"
                              THEN "closing" ELSE sock[c]]
  /\ UNCHANGED <<status, connected, lastFrom, controller, pc, sess, old, sendQ, wire>>
  /\ UNCHANGED linkVars

\* ... and forgets them when the last handshake is over.
Notified(s) ==
  /\ ender[s] = "closing"
  /\ ender' = [ender EXCEPT ![s] = "done"]
  /\ controller' = [controller EXCEPT ![s] = NoConn]
  /\ UNCHANGED <<status, connected, lastFrom, sendQ, wire>>
  /\ UNCHANGED handlerVars
  /\ UNCHANGED linkVars

-----------------------------------------------------------------------------
(* The handler of a control socket                                         *)

\* The socket registered for a connection's session.
Registered(c) == controller[sess[c]]

\* The connections of the same page process: the same client_id.
SameTab(c) == {d \in Conns : TabOf[d] = TabOf[c]}

\* claim_control accepts a first socket and the tab that has control already.
\* A socket that is replaced is closed; the handler waits for the handshake.
Claim(c) ==
  LET s == sess[c] IN
  /\ pc[c] = "new"
  /\ Active(s)
  /\ Registered(c) \in SameTab(c) \cup {NoConn}
  /\ controller' = [controller EXCEPT ![s] = c]
  /\ connected' = [connected EXCEPT ![s] = TRUE]
  /\ \/ /\ Registered(c) = NoConn
        /\ lastFrom' = [lastFrom EXCEPT ![s] = NoConn]
        /\ pc' = [pc EXCEPT ![c] = "ready"]
        /\ UNCHANGED <<old, sock>>
     \/ /\ Registered(c) # NoConn
        /\ pc' = [pc EXCEPT ![c] = "closingOld"]
        /\ old' = [old EXCEPT ![c] = Registered(c)]
        /\ sock' = [sock EXCEPT ![Registered(c)] = IF @ = "open" THEN "closing" ELSE @]
        /\ UNCHANGED lastFrom
  /\ UNCHANGED <<status, ender, sess, sendQ, wire>>
  /\ UNCHANGED linkVars

\* Another tab is turned away with 4009, an ended session with 1008.
Refuse(c) ==
  /\ pc[c] = "new"
  /\ \/ status[sess[c]] = "ended"
     \/ Active(sess[c]) /\ Registered(c) \notin SameTab(c) \cup {NoConn}
  /\ pc' = [pc EXCEPT ![c] = "done"]
  /\ UNCHANGED <<sess, old, sock, sendQ, wire>>
  /\ UNCHANGED sessionVars
  /\ UNCHANGED linkVars

FreshSequence(s) == [lastFrom EXCEPT ![s] = NoConn]

\* The old socket's close handshake is over: it delivers nothing any more, and
\* last_sequence starts anew.
OldClosed(c) ==
  /\ pc[c] = "closingOld"
  /\ pc' = [pc EXCEPT ![c] = "ready"]
  /\ sock' = [sock EXCEPT ![old[c]] = "closed"]
  /\ old' = [old EXCEPT ![c] = NoConn]
  /\ lastFrom' = FreshSequence(sess[c])
  /\ UNCHANGED <<status, connected, controller, ender, sess, sendQ, wire>>
  /\ UNCHANGED linkVars

\* control.ready is sent before the handler's try block: when that fails, the
\* handler is gone and its cleanup never runs.
SendReady(c) ==
  /\ pc[c] = "ready"
  /\ pc' = [pc EXCEPT ![c] = IF sock[c] = "open" THEN "loop" ELSE "dead"]
  /\ UNCHANGED <<sess, old, sock, sendQ, wire>>
  /\ UNCHANGED sessionVars
  /\ UNCHANGED linkVars

\* The sequence of a message compares with the handler's own last one as it
\* should; with another's it may come out either way.
MayAccept(c) == Active(sess[c])
MayReject(c) == ~Active(sess[c]) \/ lastFrom[sess[c]] \notin {NoConn, c}

\* A velocity goes to forward_to_robot, control.stop and control.estop.reset
\* to request_robot; both return at once without a link.
Accept(c) ==
  /\ pc[c] = "loop"
  /\ sock[c] # "closed"
  /\ MayAccept(c)
  /\ lastFrom' = [lastFrom EXCEPT ![sess[c]] = c]
  /\ \/ /\ NoLink
        /\ pc' = [pc EXCEPT ![c] = "acking"]
        /\ UNCHANGED sendQ
     \/ /\ ~NoLink
        /\ \/ /\ pc' = [pc EXCEPT ![c] = "forwarding"]
              /\ Forward("velocity", sess[c], c)
           \/ /\ pc' = [pc EXCEPT ![c] = "requesting"]
              /\ Forward("stop", sess[c], c)
  /\ UNCHANGED <<status, connected, controller, ender, sess, old, sock, wire>>
  /\ UNCHANGED linkVars

Reject(c) ==
  /\ pc[c] = "loop"
  /\ sock[c] # "closed"
  /\ MayReject(c)
  /\ pc' = [pc EXCEPT ![c] = "acking"]
  /\ UNCHANGED <<sess, old, sock, sendQ, wire>>
  /\ UNCHANGED sessionVars
  /\ UNCHANGED linkVars

\* mutation: request_robot has no timeout
AnswerComes(c) == pc[c] = "awaiting" /\ ~NoLink /\ ~linkDead

\* The answer, the timeout, or the robot's link unregistered.
AnswerOrTimeout(c) == pc[c] = "awaiting"

Answered(c) ==
  /\ AnswerOrTimeout(c)
  /\ pc' = [pc EXCEPT ![c] = "acking"]
  /\ UNCHANGED <<sess, old, sock, sendQ, wire>>
  /\ UNCHANGED sessionVars
  /\ UNCHANGED linkVars

\* command.ack, then the next receive.
Ack(c) ==
  /\ pc[c] = "acking"
  /\ sock[c] = "open"
  /\ pc' = [pc EXCEPT ![c] = "loop"]
  /\ UNCHANGED <<sess, old, sock, sendQ, wire>>
  /\ UNCHANGED sessionVars
  /\ UNCHANGED linkVars

\* release_control asks whether this is still the registered socket.
Owns(c) == Registered(c) = c

\* control_connected after the handler's release.
Stays(c) == connected[sess[c]] /\ ~Owns(c)

\* The handler sends control.stop when nobody controls the session any more.
MustStop(c) == Active(sess[c]) /\ ~Stays(c)

\* The handler finds its socket closed, in receive_text or when it sends an
\* acknowledgement, and runs its finally block.
Leave(c) ==
  LET s == sess[c] IN
  /\ \/ pc[c] = "loop" /\ sock[c] # "open"
     \/ pc[c] = "acking" /\ sock[c] # "open"
  /\ controller' = [controller EXCEPT ![s] = IF Owns(c) THEN NoConn ELSE @]
  /\ connected' = [connected EXCEPT ![s] = Stays(c)]
  /\ \/ /\ MustStop(c) /\ ~NoLink
        /\ pc' = [pc EXCEPT ![c] = "leaving"]
        /\ Forward("stop", s, c)
     \/ /\ ~MustStop(c) \/ NoLink
        /\ pc' = [pc EXCEPT ![c] = "done"]
        /\ UNCHANGED sendQ
  /\ UNCHANGED <<status, lastFrom, ender, sess, old, sock, wire>>
  /\ UNCHANGED linkVars

\* The browser goes away, or sends what the handler answers with a close.
BrowserLeaves(c) ==
  /\ pc[c] \notin {"new", "done", "dead"}
  /\ sock[c] = "open"
  /\ sock' = [sock EXCEPT ![c] = "closing"]
  /\ UNCHANGED <<pc, sess, old, sendQ, wire>>
  /\ UNCHANGED sessionVars
  /\ UNCHANGED linkVars

-----------------------------------------------------------------------------
(* The robot's link                                                        *)

\* register_robot, also while an older link is registered.  The edge stops the
\* base before it connects.
RobotConnects ==
  /\ links < MaxLinks
  /\ links' = links + 1
  /\ link' = links + 1
  /\ linkDead' = FALSE
  /\ wire' = Quiet
  /\ UNCHANGED sendQ
  /\ UNCHANGED sessionVars
  /\ UNCHANGED handlerVars

\* The link breaks, or the monitor closes it: what is sent on it now is lost.
LinkBreaks ==
  /\ ~NoLink
  /\ ~linkDead
  /\ linkDead' = TRUE
  /\ UNCHANGED <<link, links, sendQ, wire>>
  /\ UNCHANGED sessionVars
  /\ UNCHANGED handlerVars

\* unregister_robot.  The edge stops the base when its connection is gone.
RobotUnregisters ==
  /\ ~NoLink
  /\ linkDead
  /\ link' = 0
  /\ linkDead' = FALSE
  /\ wire' = Quiet
  /\ UNCHANGED <<links, sendQ>>
  /\ UNCHANGED sessionVars
  /\ UNCHANGED handlerVars

-----------------------------------------------------------------------------
Enders(s) ==
  \/ FinalizeExpired(s)
  \/ Notify(s)
  \/ Notified(s)

Handler(c) ==
  \/ OldClosed(c)
  \/ SendReady(c)
  \/ Answered(c)
  \/ Ack(c)
  \/ Leave(c)

Next ==
  \/ Transmit
  \/ \E s \in Sessions : CreateSession(s) \/ EndSession(s) \/ ExpireSession(s) \/ Enders(s)
  \/ \E c \in Conns : \/ Claim(c) \/ Refuse(c) \/ Accept(c) \/ Reject(c)
                      \/ BrowserLeaves(c) \/ Handler(c)
  \/ RobotConnects
  \/ LinkBreaks
  \/ RobotUnregisters

Spec == Init /\ [][Next]_vars

\* Sends end, the event loop runs what is ready, handshakes and waits for
\* answers have timeouts.
Fairness ==
  /\ WF_vars(Transmit)
  /\ \A s \in Sessions : WF_vars(Enders(s))
  /\ \A c \in Conns : WF_vars(Handler(c))

FairSpec == Spec /\ Fairness

-----------------------------------------------------------------------------
(* Properties                                                              *)

\* The last motion message delivered on the robot's present link is a velocity.
Moving == wire.kind = "velocity" /\ ~NoLink /\ ~linkDead

\* Once the stop of an ended session has gone, no velocity of that session is
\* the last word on the robot's link or waits to become it: the handler's check
\* of the session, the send lock and the order of its waiters together.
StopIsLastWord ==
  \A s \in Sessions : ender[s] \in {"notifying", "closing", "done"} =>
    /\ Moving => wire.session # s
    /\ \A i \in 1 .. Len(sendQ) :
         sendQ[i].kind = "velocity" /\ sendQ[i].session = s => sendQ[i].to # link

\* A stop of session s, or a task that will send one, is under way.
StopComing(s) ==
  \/ ender[s] \in {"scheduled", "cancelling", "stopping"}
  \/ \E i \in 1 .. Len(sendQ) : sendQ[i].kind = "stop"
  \/ \E c \in Conns : /\ sess[c] = s
                      /\ sock[c] # "open"
                      /\ pc[c] \in {"loop", "forwarding", "requesting", "awaiting", "acking"}

\* The registered controller of an active session has a handler that still runs:
\* it reads what its socket delivers, or finds it closed and runs its finally block.
Attended(s) ==
  /\ Active(s)
  /\ \E c \in Conns :
       /\ controller[s] = c
       /\ sess[c] = s
       /\ pc[c] \in {"closingOld", "ready", "loop", "forwarding", "requesting",
                     "awaiting", "acking"}

\* The registered controller's handler died of its control.ready, which is sent
\* before the try block: control_connected stays TRUE and nobody cleans up.
DiedGreeting(s) ==
  Active(s) /\ \E c \in Conns : controller[s] = c /\ sess[c] = s /\ pc[c] = "dead"

\* A robot left moving by its last message has a controller whose handler runs, or
\* a stop is coming: no order of replacements, late messages, departures and ends
\* leaves a velocity behind that nobody follows up.  There is one exception, which
\* the README names in section 5: a tab that replaced another one and is gone
\* before its control.ready, since its predecessor left without a stop.
MotionHasOwner ==
  Moving =>
    \/ Attended(wire.session)
    \/ StopComing(wire.session)
    \/ DiedGreeting(wire.session)

\* The same without the exception.  The code does not keep this: see the README,
\* section 5.
MotionIsAttended ==
  Moving => Attended(wire.session) \/ StopComing(wire.session)

\* The flag by which the monitor decides that a controller is missing agrees
\* with the socket by which claim_control turns other tabs away.
FlagFollowsSocket ==
  \A s \in Sessions : Active(s) => (connected[s] <=> controller[s] # NoConn)

\* A handler that still listens on an open socket of an active session is the
\* registered controller: a replaced handler takes nothing from its successor,
\* and a session never listens to two.
ListenerIsRegistered ==
  \A c \in Conns :
    /\ pc[c] \in {"ready", "loop", "forwarding", "requesting", "awaiting", "acking"}
    /\ sock[c] = "open"
    /\ Active(sess[c])
    => Registered(c) = c

\* The registered controller competes with no sequence but its own, as soon as
\* no predecessor's close handshake is outstanding.
OwnSequence ==
  \A c \in Conns :
    /\ pc[c] \in {"loop", "forwarding", "requesting", "awaiting", "acking"}
    /\ Registered(c) = c
    /\ \A d \in Conns : ~(pc[d] = "closingOld" /\ sess[d] = sess[c])
    => lastFrom[sess[c]] \in {NoConn, c}

\* Every end of a session is carried through: robot stopped, browsers told.
EndsAreFinished ==
  \A s \in Sessions : status[s] = "ended" ~> ender[s] = "done"

\* A handler whose socket is closed goes away.
HandlersLeave ==
  \A c \in Conns : sock[c] # "open" ~> pc[c] \in {"done", "dead"}
=============================================================================
