--------------------------- MODULE ControlBridge ---------------------------
(***************************************************************************)
(* The way of a motion command from the edge process to the ROS topic      *)
(* /cmd_vel_web: UnixMotionDriver (simulator/motion_driver.py) sends       *)
(* datagrams, RosControlBridge (ros_bridge/control_bridge.py) receives     *)
(* them in one thread, keeps the newest in a LatestMotionSlot and works on *)
(* it in the callbacks of its executor, together with a 100 Hz timer, the  *)
(* joystick of the vehicle and the obstacle signals.                       *)
(*                                                                         *)
(* Time is counted in units of the motion watchdog's resolution; Elapse is *)
(* one unit.  The executor and the threads may be late by any number of    *)
(* units.  A velocity is reduced to its direction.  The state published on *)
(* a topic is the last message on it; the zero messages of a stop burst    *)
(* count, their content does not change.  The twist_mux mode is left out:  *)
(* ros_bridge/entrypoint.sh refuses it.                                    *)
(***************************************************************************)
EXTENDS Naturals, Sequences

CONSTANTS
  Directions,       \* directions of travel
  Choices,          \* obstacle_avoidance_enabled in the velocities of the operator
  Joystick,         \* the joystick node of the vehicle runs
  Still,            \* no travel
  NoCommand,        \* no datagram
  StopRepeats,      \* datagrams of one stop or reset: 3 in the code
  QueueLimit,       \* datagrams the Unix socket holds
  Ttl,              \* motion_watchdog_ms of the edge: life of a datagram
  Watchdog,         \* watchdog_ms of the bridge
  ObstacleWatchdog, \* obstacle_watchdog_ms of the bridge, 0: disabled
  Dwell,            \* stop_zero_dwell_seconds of the edge
  MaxBoots,         \* bound on the edge processes
  MaxSeq,           \* bound on the datagrams of one edge process
  MaxStops          \* bound on the ends of the bridge

ASSUME StillAssumption == Still \notin Directions
ASSUME ChoicesAssumption == Choices \subseteq BOOLEAN
ASSUME JoystickAssumption == Joystick \in BOOLEAN
ASSUME BoundAssumption ==
  /\ StopRepeats \in Nat \ {0}
  /\ QueueLimit \in Nat \ {0}
  /\ Ttl \in Nat
  /\ Watchdog \in Nat
  /\ ObstacleWatchdog \in Nat
  /\ Dwell \in Nat
  /\ MaxBoots \in Nat \ {0}
  /\ MaxSeq \in Nat
  /\ MaxStops \in Nat

VARIABLES
  boot,        \* UnixMotionDriver.boot_id
  seq,         \* UnixMotionDriver.sequence
  todo,        \* what the loop of stop or reset_estop still has to send
  edgeIdle,    \* time since last_command_monotonic; Off when that is 0
  wait,        \* time the edge still measures before it reads the next message
  queue,       \* datagrams in the Unix socket
  up,          \* the bridge runs
  stops,       \* ends of the bridge so far
  lastBoot,    \* LatestMotionSlot._boot_id
  lastSeq,     \* LatestMotionSlot._last_sequence
  slot,        \* LatestMotionSlot._command
  active,      \* _active_command
  idle,        \* time since _last_receive_monotonic; 0 without a command
  burst,       \* _stop_burst_remaining
  latched,     \* _estop_latched
  sensorStop,  \* SafetyInterlock.sensor_stop_active
  blocked,     \* SafetyInterlock.blocked_directions
  obstacleAge, \* time since SafetyInterlock.last_update_monotonic
  joyMode,     \* _legacy_mode_active
  joyRecent,   \* now < _legacy_override_until
  zeroRecent,  \* _last_safety_zero_monotonic is in the present unit
  out,         \* last message on /cmd_vel_web
  avoidance    \* last message on /safety/manual_obstacle_avoidance_enabled

edgeVars == <<boot, seq, todo, edgeIdle, wait>>
slotVars == <<lastBoot, lastSeq, slot>>
commandVars == <<active, idle, burst>>
interlockVars == <<sensorStop, blocked, obstacleAge>>
joyVars == <<joyMode, joyRecent>>
topicVars == <<zeroRecent, out, avoidance>>
lifeVars == <<up, stops>>
vars == <<boot, seq, todo, edgeIdle, wait, queue, up, stops, lastBoot, lastSeq, slot,
          active, idle, burst, latched, sensorStop, blocked, obstacleAge,
          joyMode, joyRecent, zeroRecent, out, avoidance>>

\* No motion command is under the edge watchdog.
Off == Ttl + 2

\* Beyond this age nothing tells two datagrams apart.
MaxAge == Ttl + Watchdog + 1

\* "estop" is a stop with the reason emergency_stop.
Kinds == {"velocity", "stop", "estop", "reset"}

Datagram == [boot : 1 .. MaxBoots, seq : 1 .. MaxSeq, kind : Kinds,
             dir : Directions \cup {Still}, avoid : BOOLEAN, age : 0 .. MaxAge]

ASSUME NoCommandAssumption == NoCommand \notin Datagram

TypeOK ==
  /\ boot \in 1 .. MaxBoots
  /\ seq \in 0 .. MaxSeq
  /\ todo \in [kind : Kinds, left : 0 .. StopRepeats]
  /\ edgeIdle \in 0 .. Off
  /\ wait \in 0 .. Dwell
  /\ queue \in Seq(Datagram)
  /\ up \in BOOLEAN
  /\ stops \in 0 .. MaxStops
  /\ lastBoot \in 0 .. MaxBoots
  /\ lastSeq \in 0 .. MaxSeq
  /\ slot \in Datagram \cup {NoCommand}
  /\ active \in Datagram \cup {NoCommand}
  /\ idle \in 0 .. Watchdog + 1
  /\ burst \in 0 .. 2
  /\ latched \in BOOLEAN
  /\ sensorStop \in BOOLEAN
  /\ blocked \in SUBSET Directions
  /\ obstacleAge \in 0 .. ObstacleWatchdog + 1
  /\ joyMode \in BOOLEAN
  /\ joyRecent \in BOOLEAN
  /\ zeroRecent \in BOOLEAN
  /\ out \in Directions \cup {Still}
  /\ avoidance \in BOOLEAN

Init ==
  /\ boot = 1 /\ seq = 0 /\ edgeIdle = Off /\ wait = 0
  /\ todo = [kind |-> "stop", left |-> 0]
  /\ queue = <<>>
  /\ up = TRUE /\ stops = 0
  /\ lastBoot = 0 /\ lastSeq = 0 /\ slot = NoCommand
  /\ active = NoCommand /\ idle = 0 /\ burst = 0
  /\ latched = FALSE
  /\ sensorStop = FALSE /\ blocked = {} /\ obstacleAge = ObstacleWatchdog + 1
  /\ joyMode = FALSE /\ joyRecent = FALSE
  /\ zeroRecent = FALSE /\ out = Still /\ avoidance = TRUE

-----------------------------------------------------------------------------
(* The edge.                                                               *)

\* A datagram that finds the socket full or absent is lost; its number is used.
Send(kind, dir, avoid) ==
  /\ seq < MaxSeq
  /\ seq' = seq + 1
  /\ queue' = IF up /\ Len(queue) < QueueLimit
                THEN Append(queue, [boot |-> boot, seq |-> seq + 1, kind |-> kind,
                                    dir |-> dir, avoid |-> avoid, age |-> 0])
                ELSE queue

SetVelocity(dir, avoid) ==
  /\ todo.left = 0 /\ wait = 0
  /\ Send("velocity", dir, avoid)
  /\ edgeIdle' = 0
  /\ UNCHANGED <<boot, todo, wait, lifeVars, slotVars, commandVars, latched,
                 interlockVars, joyVars, topicVars>>

\* stop and reset_estop send their datagrams one by one; the bridge may read
\* between two of them.
SendsOf(kind) ==
  /\ todo.left = 0
  /\ todo' = [kind |-> kind, left |-> StopRepeats]
  /\ edgeIdle' = Off
  /\ UNCHANGED <<boot, seq, queue, lifeVars, slotVars, commandVars, latched,
                 interlockVars, joyVars, topicVars>>

\* The operator's stops and resets are followed by _wait_for_measured_zero,
\* which holds up the operator's next message.
OperatorStops(kind) == wait = 0 /\ wait' = Dwell /\ SendsOf(kind)

\* Any task of the edge may stop the motion at any time.
StopMotion(kind) ==
  /\ seq < MaxSeq
  /\ \/ kind = "stop" /\ SendsOf(kind) /\ UNCHANGED wait
     \/ kind # "stop" /\ OperatorStops(kind)

EdgeWatchdog == edgeIdle = Ttl + 1 /\ SendsOf("stop") /\ UNCHANGED wait

SendNext ==
  /\ todo.left > 0
  /\ Send(todo.kind, Still, TRUE)
  /\ todo' = [todo EXCEPT !.left = @ - 1]
  /\ UNCHANGED <<boot, edgeIdle, wait, lifeVars, slotVars, commandVars, latched,
                 interlockVars, joyVars, topicVars>>

\* boot_id is a uuid4: every process has a new one.
NextBoot(b) == b + 1

\* The process of the edge ends, in the middle of a stop perhaps, and starts again.
EdgeRestarts ==
  /\ boot < MaxBoots
  /\ boot' = NextBoot(boot)
  /\ seq' = 0
  /\ todo' = [kind |-> "stop", left |-> 0]
  /\ edgeIdle' = Off /\ wait' = 0
  /\ UNCHANGED <<queue, lifeVars, slotVars, commandVars, latched, interlockVars,
                 joyVars, topicVars>>

-----------------------------------------------------------------------------
(* The receiver thread.                                                    *)

\* mutation: one unit too long.
ExpiredLate(d) == d.age > Ttl + 1

Expired(d) == d.age > Ttl

Live(d) == ~Expired(d)

\* LatestMotionSlot.stage.
Stage(d) ==
  IF d.boot # lastBoot \/ d.seq > lastSeq
    THEN lastBoot' = d.boot /\ lastSeq' = d.seq /\ slot' = d
    ELSE UNCHANGED slotVars

\* The datagrams in the socket that decode.
Decoded == {i \in DOMAIN queue : Live(queue[i])}

\* The last of them.
Newest(i) == i \in Decoded /\ \A j \in Decoded : j <= i

\* Reads until the socket is empty; of what decodes, the last is staged.
Receive ==
  /\ up
  /\ queue # <<>>
  /\ queue' = <<>>
  /\ \/ Decoded = {} /\ UNCHANGED slotVars
     \/ \E i \in Decoded : Newest(i) /\ Stage(queue[i])
  /\ UNCHANGED <<edgeVars, lifeVars, commandVars, latched, interlockVars,
                 joyVars, topicVars>>

-----------------------------------------------------------------------------
(* What the executor publishes.                                            *)

\* SafetyInterlock.locked.
Locked ==
  sensorStop \/ (ObstacleWatchdog > 0 /\ obstacleAge > ObstacleWatchdog)

Overridden == joyMode \/ joyRecent

\* The interlock applies to every command but one that asks for no avoidance.
Avoiding == active # NoCommand => active.avoid

\* filter_velocity.
Filtered(d, locked, mask) ==
  IF d.avoid /\ (locked \/ d.dir \in mask) THEN Still ELSE d.dir

PublishVelocity(d, locked, mask) ==
  /\ out' = Filtered(d, locked, mask)
  /\ avoidance' = d.avoid
  /\ UNCHANGED zeroRecent

PublishZero ==
  /\ out' = Still
  /\ avoidance' = TRUE
  /\ UNCHANGED zeroRecent

PublishZeroBurst == PublishZero /\ burst' = 2

PublishSafetyZero ==
  /\ out' = Still
  /\ avoidance' = TRUE
  /\ zeroRecent' = TRUE

DropCommand == active' = NoCommand /\ idle' = 0

-----------------------------------------------------------------------------
(* The callbacks of the executor.                                          *)

ApplyReset ==
  /\ DropCommand
  /\ latched' = FALSE
  /\ PublishZeroBurst

\* When the lock is noticed here for the first time the burst is dropped too.
ApplyStop(d) ==
  /\ DropCommand
  /\ latched' = (latched \/ d.kind = "estop")
  /\ IF latched'
       THEN PublishSafetyZero /\ UNCHANGED burst
       ELSE IF Locked
              THEN PublishSafetyZero /\ burst' \in {0, burst}
              ELSE IF Overridden
                     THEN /\ burst' = 0
                          /\ avoidance' = TRUE
                          /\ UNCHANGED <<out, zeroRecent>>
                     ELSE PublishZeroBurst

InForce(d) ==
  /\ active' = d /\ idle' = 0
  /\ PublishVelocity(d, Locked, blocked)

\* mutation: a velocity does not ask for the latch.
ApplyVelocityUnasked(d) == InForce(d) /\ burst' = 0 /\ UNCHANGED latched

ApplyVelocity(d) ==
  /\ UNCHANGED latched
  /\ \/ /\ d.avoid /\ Locked
        /\ DropCommand /\ burst' = 0
        /\ PublishSafetyZero
     \/ /\ ~(d.avoid /\ Locked) /\ Overridden
        /\ DropCommand
        /\ UNCHANGED <<burst, topicVars>>
     \/ /\ ~(d.avoid /\ Locked) /\ ~Overridden /\ latched
        /\ DropCommand /\ burst' = 0
        /\ PublishSafetyZero
     \/ /\ ~(d.avoid /\ Locked) /\ ~Overridden /\ ~latched
        /\ InForce(d) /\ burst' = 0

\* _apply_pending, run by the guard condition that staging triggers.
ApplyPending ==
  /\ up
  /\ slot # NoCommand
  /\ slot' = NoCommand
  /\ \/ Expired(slot) /\ UNCHANGED <<commandVars, latched, topicVars>>
     \/ Live(slot) /\ slot.kind = "reset" /\ ApplyReset
     \/ Live(slot) /\ slot.kind \in {"stop", "estop"} /\ ApplyStop(slot)
     \/ Live(slot) /\ slot.kind = "velocity" /\ ApplyVelocity(slot)
  /\ UNCHANGED <<edgeVars, queue, lifeVars, lastBoot, lastSeq, interlockVars, joyVars>>

Stale == idle > Watchdog

\* A safety zero that is not in the present unit is due, another may be.
TickLocked ==
  /\ latched \/ (Avoiding /\ Locked)
  /\ DropCommand /\ burst' = 0
  /\ \/ PublishSafetyZero
     \/ zeroRecent /\ UNCHANGED topicVars

\* mutation: the command ends without a message.
TickStaleSilent == DropCommand /\ UNCHANGED <<burst, topicVars>>

TickStale ==
  /\ DropCommand
  /\ PublishZeroBurst

\* When the period of the output rate has passed.
TickRepublish ==
  /\ PublishVelocity(active, Locked, blocked)
  /\ UNCHANGED commandVars

TickBurst ==
  /\ burst > 0
  /\ burst' = burst - 1
  /\ PublishZero
  /\ UNCHANGED <<active, idle>>

Tick ==
  /\ up
  /\ \/ TickLocked
     \/ /\ ~(latched \/ (Avoiding /\ Locked))
        /\ \/ /\ active # NoCommand /\ Overridden
              /\ DropCommand /\ UNCHANGED <<burst, topicVars>>
           \/ active # NoCommand /\ ~Overridden /\ Stale /\ TickStale
           \/ active # NoCommand /\ ~Overridden /\ ~Stale /\ TickRepublish
           \/ (active = NoCommand \/ (~Overridden /\ ~Stale)) /\ TickBurst
  /\ UNCHANGED <<edgeVars, queue, lifeVars, slotVars, latched, interlockVars, joyVars>>

\* The joystick takes the vehicle over: the web command ends without a message.
YieldToJoystick ==
  /\ DropCommand /\ burst' = 0
  /\ avoidance' = TRUE
  /\ UNCHANGED <<zeroRecent, out>>

OnLegacyJoy ==
  /\ up /\ Joystick
  /\ joyRecent' = TRUE
  /\ YieldToJoystick
  /\ UNCHANGED <<edgeVars, queue, lifeVars, slotVars, latched, interlockVars, joyMode>>

OnLegacyState(on) ==
  /\ up /\ Joystick
  /\ joyMode' = on
  /\ IF on
       THEN YieldToJoystick /\ UNCHANGED joyRecent
       ELSE joyRecent' = TRUE /\ UNCHANGED <<commandVars, topicVars>>
  /\ UNCHANGED <<edgeVars, queue, lifeVars, slotVars, latched, interlockVars>>

OnObstacleStop(on) ==
  /\ up
  /\ sensorStop' = on
  /\ obstacleAge' = 0
  /\ IF Avoiding /\ on
       THEN DropCommand /\ burst' = 0 /\ PublishSafetyZero
       ELSE UNCHANGED <<commandVars, topicVars>>
  /\ UNCHANGED <<edgeVars, queue, lifeVars, slotVars, latched, blocked, joyVars>>

\* mutation: a blocked direction waits for the next velocity.
RepublishedLater(mask) == UNCHANGED topicVars

\* The active command is filtered again at once.
Republished(mask) ==
  IF active # NoCommand THEN PublishVelocity(active, FALSE, mask) ELSE UNCHANGED topicVars

OnObstacleDirections(mask) ==
  /\ up
  /\ blocked' = mask
  /\ obstacleAge' = 0
  /\ \/ Avoiding /\ sensorStop /\ DropCommand /\ burst' = 0 /\ PublishSafetyZero
     \/ Avoiding /\ ~sensorStop /\ UNCHANGED commandVars /\ Republished(mask)
     \/ ~Avoiding /\ UNCHANGED <<commandVars, topicVars>>
  /\ UNCHANGED <<edgeVars, queue, lifeVars, slotVars, latched, sensorStop, joyVars>>

-----------------------------------------------------------------------------
(* The life of the bridge, and time.                                       *)

\* close() publishes zeros; a killed process does not.
BridgeStops(clean) ==
  /\ up /\ stops < MaxStops
  /\ up' = FALSE /\ stops' = stops + 1
  /\ queue' = <<>>
  /\ IF clean THEN PublishZero ELSE UNCHANGED topicVars
  /\ lastBoot' = 0 /\ lastSeq' = 0 /\ slot' = NoCommand
  /\ active' = NoCommand /\ idle' = 0 /\ burst' = 0
  /\ sensorStop' = FALSE /\ blocked' = {} /\ obstacleAge' = ObstacleWatchdog + 1
  /\ joyMode' = FALSE /\ joyRecent' = FALSE
  /\ UNCHANGED <<edgeVars, latched>>

\* Nothing of the bridge is kept in a file.
BridgeStarts ==
  /\ ~up
  /\ up' = TRUE
  /\ latched' = FALSE
  /\ avoidance' = TRUE
  /\ zeroRecent' = FALSE
  /\ UNCHANGED <<edgeVars, queue, stops, slotVars, commandVars, interlockVars,
                 joyVars, out>>

\* t + 1, and no more than the last value that matters.
Later(t, last) == IF t < last THEN t + 1 ELSE last

Older(d) == IF d = NoCommand THEN d ELSE [d EXCEPT !.age = Later(@, MaxAge)]

Elapse ==
  /\ edgeIdle' = IF edgeIdle = Off THEN Off ELSE Later(edgeIdle, Ttl + 1)
  /\ wait' = IF wait > 0 /\ todo.left = 0 THEN wait - 1 ELSE wait
  /\ queue' = [i \in DOMAIN queue |-> Older(queue[i])]
  /\ slot' = Older(slot)
  /\ active' = Older(active)
  /\ idle' = IF active = NoCommand THEN 0 ELSE Later(idle, Watchdog + 1)
  /\ obstacleAge' = Later(obstacleAge, ObstacleWatchdog + 1)
  /\ zeroRecent' = FALSE
  /\ UNCHANGED <<boot, seq, todo, lifeVars, lastBoot, lastSeq, burst, latched,
                 sensorStop, blocked, joyVars, out, avoidance>>

\* legacy_override_ms have passed.
JoyLapses ==
  /\ joyRecent
  /\ joyRecent' = FALSE
  /\ UNCHANGED <<edgeVars, queue, lifeVars, slotVars, commandVars, latched,
                 interlockVars, joyMode, topicVars>>

-----------------------------------------------------------------------------
Edge ==
  \/ \E dir \in Directions, avoid \in Choices : SetVelocity(dir, avoid)
  \/ \E kind \in {"stop", "estop", "reset"} : StopMotion(kind)
  \/ EdgeWatchdog
  \/ SendNext
  \/ EdgeRestarts

Signals ==
  \/ OnLegacyJoy
  \/ \E on \in BOOLEAN : OnLegacyState(on)
  \/ \E on \in BOOLEAN : OnObstacleStop(on)
  \/ \E mask \in SUBSET Directions : OnObstacleDirections(mask)
  \/ JoyLapses

Bridge ==
  \/ Receive
  \/ ApplyPending
  \/ Tick
  \/ \E clean \in BOOLEAN : BridgeStops(clean)
  \/ BridgeStarts

Next == Edge \/ Signals \/ Bridge \/ Elapse

Spec == Init /\ [][Next]_vars

-----------------------------------------------------------------------------
(* Properties.                                                             *)

\* d was sent before e.
Before(d, e) == d.boot < e.boot \/ (d.boot = e.boot /\ d.seq < e.seq)

\* What the edge sends is heard in the order in which it was sent: the command
\* in force, the one in the slot, the last one staged and those in the socket
\* follow each other, across a restart of the edge too (LatestMotionSlot.stage,
\* take, _receive_loop).  A number the slot would refuse is never in the socket.
NewestWins ==
  /\ active # NoCommand /\ slot # NoCommand => Before(active, slot)
  /\ slot # NoCommand => slot.boot = lastBoot /\ slot.seq = lastSeq
  /\ \A i \in DOMAIN queue :
       /\ Before([boot |-> lastBoot, seq |-> lastSeq], queue[i])
       /\ \A j \in 1 .. i - 1 : Before(queue[j], queue[i])

\* Whatever process of the edge sent it, the last fresh datagram that the
\* receiver thread reads is the one it stages (_receive_loop, stage).
HeardIsStaged ==
  [][queue # <<>> /\ queue' = <<>> /\ up' =>
       \A i \in Decoded : Newest(i) => slot' = queue[i]]_vars

\* While the software latch is set the bridge has no command to repeat and its
\* last word on the topic is zero, whatever velocities, obstacle signals and
\* joystick messages come in between (_estop_latched).
LatchedMeansStill == up /\ latched => active = NoCommand /\ out = Still

\* The latch of a running bridge is released by a reset that is still alive when
\* the executor works on it, and by nothing else (_apply_pending).
OnlyResetUnlatches ==
  [][up /\ latched /\ ~latched' =>
         /\ slot # NoCommand /\ slot.kind = "reset" /\ Live(slot)
         /\ slot' = NoCommand /\ out' = Still]_vars

\* A command in force does not fade away: it ends with a zero and with obstacle
\* avoidance switched on again, unless the joystick has the vehicle or the
\* process was killed (_apply_pending, _tick, the callbacks).
CommandEndsInZero ==
  [][active # NoCommand /\ active' = NoCommand /\ up' =>
       (out' = Still /\ avoidance') \/ Overridden']_vars

\* A velocity with avoidance that is in force never points at an obstacle that
\* was reported, also when the report came after it (_on_obstacle_directions,
\* _on_obstacle_stop).
ObstaclesStopWeb ==
  active # NoCommand /\ active.avoid /\ out # Still =>
    ~sensorStop /\ out \notin blocked

\* The rest of a stop burst is not mixed with a later command (_publish_zero_burst).
BurstIsAlone == burst > 0 => active = NoCommand /\ out = Still

\* A command that the timer would still repeat was sent no longer ago than the
\* life of a datagram and the watchdog of the bridge together, however late the
\* threads run and whatever was left in the slot (_apply_pending, _tick).
MotionIsRecent ==
  active # NoCommand /\ ~Stale => active.age <= Ttl + Watchdog

=============================================================================
