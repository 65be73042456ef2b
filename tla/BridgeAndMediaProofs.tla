------------------------- MODULE BridgeAndMediaProofs -------------------------
(***************************************************************************)
(* Theorems about two components that share no state: the way of a velocity*)
(* from the edge to the base (ControlBridge), for every number of          *)
(* directions, queue lengths, watchdogs, dwell times and bounds, with and  *)
(* without the joystick, and the robot's camera (MediaStreaming), for every*)
(* set of pipelines, sources and leases and every number of faults.        *)
(*                                                                         *)
(* Of ControlBridge: LatchedMeansStill, ObstaclesStopWeb and BurstIsAlone  *)
(* are inductive once the types are known; MotionIsRecent needs the age of *)
(* the command in force bounded by the time since it was received,         *)
(* CommandEndsInZero that a recent safety zero leaves no command under a   *)
(* closed interlock, and NewestWins an order on everything that was sent and*)
(* not yet forgotten.                                                      *)
(*                                                                         *)
(* Of MediaStreaming: that no publisher is left behind untold needs to know*)
(* which coroutine waits for which thread, so that whoever begins a worker *)
(* finds no other, and that a worker stops its publisher first.            *)
(***************************************************************************)
EXTENDS ControlBridge, MediaStreaming, TLAPS

-----------------------------------------------------------------------------
(* ControlBridge: types.                                                   *)

LEMMA OffIsNat == Off \in Nat /\ MaxAge \in Nat
BY BoundAssumption DEF Off, MaxAge

LEMMA LaterIsBounded ==
  ASSUME NEW last \in Nat, NEW t \in 0 .. last
  PROVE  Later(t, last) \in 0 .. last
BY DEF Later

LEMMA OlderIsDatagram ==
  ASSUME NEW d \in Datagram \cup {NoCommand}
  PROVE  /\ Older(d) \in Datagram \cup {NoCommand}
         /\ d \in Datagram => Older(d) \in Datagram
         /\ Older(d) = NoCommand <=> d = NoCommand
         /\ d # NoCommand =>
              /\ Older(d).boot = d.boot /\ Older(d).seq = d.seq
              /\ Older(d).kind = d.kind /\ Older(d).dir = d.dir
              /\ Older(d).avoid = d.avoid
              /\ Older(d).age = Later(d.age, MaxAge)
<1>1. CASE d = NoCommand
  BY <1>1, NoCommandAssumption DEF Older
<1>2. CASE d \in Datagram
  <2>1. d # NoCommand
    BY <1>2, NoCommandAssumption
  <2>2. Later(d.age, MaxAge) \in 0 .. MaxAge
    BY <1>2, OffIsNat, LaterIsBounded DEF Datagram
  <2>3. Older(d) = [d EXCEPT !.age = Later(d.age, MaxAge)]
    BY <2>1 DEF Older
  <2>4. Older(d) \in Datagram
    BY <1>2, <2>2, <2>3 DEF Datagram
  <2> QED
    BY <1>2, <2>1, <2>3, <2>4, NoCommandAssumption DEF Datagram
<1> QED
  BY <1>1, <1>2

CommandsOK ==
  active \in Datagram \cup {NoCommand} /\ idle \in 0 .. Watchdog + 1 /\ burst \in 0 .. 2

TopicsOK ==
  zeroRecent \in BOOLEAN /\ out \in Directions \cup {Still} /\ avoidance \in BOOLEAN

LEMMA ZeroKeepsTopics ==
  ASSUME TypeOK, PublishZero \/ PublishSafetyZero \/ UNCHANGED topicVars
  PROVE  TopicsOK'
<1>1. out' \in Directions \cup {Still}
  BY DEF PublishZero, PublishSafetyZero, topicVars, TypeOK
<1>2. zeroRecent' \in BOOLEAN /\ avoidance' \in BOOLEAN
  BY Zenon DEF PublishZero, PublishSafetyZero, topicVars, TypeOK
<1> QED
  BY <1>1, <1>2 DEF TopicsOK

LEMMA VelocityKeepsTopics ==
  ASSUME TypeOK, NEW d \in Datagram, NEW locked, NEW mask, PublishVelocity(d, locked, mask)
  PROVE  TopicsOK'
<1>1. out' \in Directions \cup {Still}
  BY DEF PublishVelocity, Filtered, Datagram
<1>2. zeroRecent' \in BOOLEAN /\ avoidance' \in BOOLEAN
  <2>1. d.avoid \in BOOLEAN
    BY DEF Datagram
  <2> QED
    BY <2>1, Zenon DEF PublishVelocity, TypeOK
<1> QED
  BY <1>1, <1>2 DEF TopicsOK

LEMMA TypeStep ==
  ASSUME TypeOK, [Next]_vars
  PROVE  TypeOK'
<1>1. CASE Edge
  <2>1. ASSUME NEW kind \in Kinds, NEW dir \in Directions \cup {Still}, NEW avoid \in BOOLEAN,
               Send(kind, dir, avoid)
        PROVE  seq' \in 0 .. MaxSeq /\ queue' \in Seq(Datagram)
    <3>1. seq' \in 1 .. MaxSeq
      BY <2>1, BoundAssumption DEF TypeOK, Send
    <3> DEFINE d == [boot |-> boot, seq |-> seq + 1, kind |-> kind,
                     dir |-> dir, avoid |-> avoid, age |-> 0]
    <3>2. d \in Datagram
      BY <2>1, <3>1, OffIsNat DEF TypeOK, Datagram, Send
    <3>3. queue' = Append(queue, d) \/ queue' = queue
      BY <2>1 DEF Send
    <3> HIDE DEF d
    <3>4. queue' \in Seq(Datagram)
      <4>1. queue \in Seq(Datagram)
        BY DEF TypeOK
      <4> QED
        BY <3>2, <3>3, <4>1
    <3> QED
      BY <3>1, <3>4, BoundAssumption
  <2>2. ASSUME NEW dir \in Directions, NEW avoid \in Choices, SetVelocity(dir, avoid)
        PROVE  TypeOK'
    <3>1. "velocity" \in Kinds /\ avoid \in BOOLEAN
      BY ChoicesAssumption DEF Kinds
    <3>2. seq' \in 0 .. MaxSeq /\ queue' \in Seq(Datagram)
      BY <2>1, <2>2, <3>1 DEF SetVelocity
    <3> QED
      BY <2>2, <3>2, OffIsNat DEF SetVelocity, TypeOK, lifeVars, slotVars, commandVars,
         interlockVars, joyVars, topicVars
  <2>3. CASE \E kind \in {"stop", "estop", "reset"} : StopMotion(kind)
    <3>1. PICK kind \in {"stop", "estop", "reset"} :
               SendsOf(kind) /\ (wait' = Dwell \/ UNCHANGED wait)
      BY <2>3 DEF StopMotion, OperatorStops
    <3>2. todo' \in [kind : Kinds, left : 0 .. StopRepeats] /\ edgeIdle' \in 0 .. Off
            /\ wait' \in 0 .. Dwell
      BY <3>1, BoundAssumption, OffIsNat DEF SendsOf, Kinds, TypeOK
    <3> QED
      BY <3>1, <3>2 DEF SendsOf, TypeOK, lifeVars, slotVars, commandVars, interlockVars,
         joyVars, topicVars
  <2>4. CASE EdgeWatchdog
    BY <2>4, BoundAssumption, OffIsNat DEF EdgeWatchdog, SendsOf, Kinds, TypeOK,
       lifeVars, slotVars, commandVars, interlockVars, joyVars, topicVars
  <2>5. CASE SendNext
    <3>1. todo.kind \in Kinds /\ todo' \in [kind : Kinds, left : 0 .. StopRepeats]
      <4>1. todo \in [kind : Kinds, left : 0 .. StopRepeats] /\ StopRepeats \in Nat
        BY BoundAssumption DEF TypeOK
      <4>2. todo.left > 0 /\ todo' = [todo EXCEPT !.left = @ - 1]
        BY <2>5 DEF SendNext
      <4> QED
        BY <4>1, <4>2
    <3>2. seq' \in 0 .. MaxSeq /\ queue' \in Seq(Datagram)
      BY <2>1, <2>5, <3>1 DEF SendNext
    <3> QED
      BY <2>5, <3>1, <3>2 DEF SendNext, TypeOK, lifeVars, slotVars, commandVars,
         interlockVars, joyVars, topicVars
  <2>6. CASE EdgeRestarts
    BY <2>6, BoundAssumption, OffIsNat DEF EdgeRestarts, NextBoot, Kinds, TypeOK,
       lifeVars, slotVars, commandVars, interlockVars, joyVars, topicVars
  <2> QED
    BY <1>1, <2>2, <2>3, <2>4, <2>5, <2>6 DEF Edge
<1>2. CASE Receive
  <2>1. UNCHANGED slotVars \/ \E d \in Datagram : Stage(d)
    BY <1>2 DEF Receive, Decoded, TypeOK
  <2>2. lastBoot' \in 0 .. MaxBoots /\ lastSeq' \in 0 .. MaxSeq
          /\ slot' \in Datagram \cup {NoCommand}
    <3>1. CASE UNCHANGED slotVars
      BY <3>1 DEF slotVars, TypeOK
    <3>2. ASSUME NEW d \in Datagram, lastBoot' = d.boot /\ lastSeq' = d.seq /\ slot' = d
          PROVE  lastBoot' \in 0 .. MaxBoots /\ lastSeq' \in 0 .. MaxSeq /\ slot' \in Datagram
      BY <3>2, BoundAssumption DEF Datagram
    <3> QED
      BY <2>1, <3>1, <3>2 DEF Stage
  <2> QED
    BY <1>2, <2>2 DEF Receive, TypeOK, edgeVars, lifeVars, commandVars, interlockVars,
       joyVars, topicVars
<1>3. CASE ApplyPending
  <2> SUFFICES CommandsOK' /\ TopicsOK' /\ latched' \in BOOLEAN
    BY <1>3 DEF ApplyPending, TypeOK, CommandsOK, TopicsOK, edgeVars, lifeVars,
       interlockVars, joyVars
  <2>1. slot \in Datagram
    BY <1>3 DEF ApplyPending, TypeOK
  <2>2. CASE UNCHANGED <<commandVars, latched, topicVars>>
    <3>1. CommandsOK' /\ TopicsOK'
      BY <2>2, ZeroKeepsTopics DEF commandVars, TypeOK, CommandsOK
    <3> QED
      BY <2>2, <3>1 DEF TypeOK
  <2>3. CASE ApplyReset
    <3>1. CommandsOK'
      BY <2>3, BoundAssumption DEF ApplyReset, DropCommand, PublishZeroBurst, CommandsOK
    <3>2. TopicsOK'
      BY <2>3, ZeroKeepsTopics DEF ApplyReset, PublishZeroBurst
    <3> QED
      BY <2>3, <3>1, <3>2 DEF ApplyReset
  <2>4. CASE ApplyStop(slot)
    <3>1. CommandsOK'
      BY <2>4, BoundAssumption DEF ApplyStop, DropCommand, PublishZeroBurst, CommandsOK, TypeOK
    <3>2. PublishZero \/ PublishSafetyZero \/ (avoidance' = TRUE /\ UNCHANGED <<out, zeroRecent>>)
      BY <2>4 DEF ApplyStop, PublishZeroBurst
    <3>3. TopicsOK'
      BY <3>2, ZeroKeepsTopics DEF TopicsOK, TypeOK
    <3>4. latched' \in BOOLEAN
      BY <2>4, Zenon DEF ApplyStop
    <3> QED
      BY <3>1, <3>3, <3>4
  <2>5. CASE ApplyVelocity(slot)
    <3>1. CommandsOK'
      BY <2>1, <2>5, BoundAssumption DEF ApplyVelocity, InForce, DropCommand, CommandsOK, TypeOK
    <3>2. PublishSafetyZero \/ UNCHANGED topicVars \/ PublishVelocity(slot, Locked, blocked)
      BY <2>5 DEF ApplyVelocity, InForce
    <3>3. TopicsOK'
      BY <2>1, <3>2, ZeroKeepsTopics, VelocityKeepsTopics
    <3>4. latched' \in BOOLEAN
      BY <2>5, Zenon DEF ApplyVelocity, TypeOK
    <3> QED
      BY <3>1, <3>3, <3>4
  <2> QED
    BY <1>3, <2>2, <2>3, <2>4, <2>5 DEF ApplyPending
<1>4. CASE Tick
  <2>1. CommandsOK'
    <3>1. CASE DropCommand
      BY <1>4, <3>1, BoundAssumption DEF Tick, TickLocked, TickStale, TickRepublish, TickBurst,
         PublishZeroBurst, commandVars, CommandsOK, DropCommand, TypeOK
    <3>2. CASE ~DropCommand
      BY <1>4, <3>2 DEF Tick, TickLocked, TickStale, TickRepublish, TickBurst, commandVars,
         CommandsOK, TypeOK
    <3> QED
      BY <3>1, <3>2
  <2>2. \/ PublishZero \/ PublishSafetyZero \/ UNCHANGED topicVars
        \/ active # NoCommand /\ PublishVelocity(active, Locked, blocked)
    BY <1>4 DEF Tick, TickLocked, TickStale, TickRepublish, TickBurst, PublishZeroBurst
  <2>3. TopicsOK'
    BY <2>2, ZeroKeepsTopics, VelocityKeepsTopics DEF TypeOK
  <2> QED
    BY <1>4, <2>1, <2>3 DEF Tick, TypeOK, CommandsOK, TopicsOK, edgeVars, slotVars, lifeVars,
       interlockVars, joyVars
<1>5. CASE Signals
  <2>1. CASE OnLegacyJoy
    BY <2>1, BoundAssumption DEF OnLegacyJoy, YieldToJoystick, DropCommand, TypeOK, edgeVars,
       slotVars, lifeVars, interlockVars
  <2>2. ASSUME NEW on \in BOOLEAN, OnLegacyState(on)
        PROVE  TypeOK'
    <3>1. CASE on
      BY <2>2, <3>1, BoundAssumption DEF OnLegacyState, YieldToJoystick, DropCommand, TypeOK,
         edgeVars, slotVars, lifeVars, interlockVars
    <3>2. CASE ~on
      BY <2>2, <3>2 DEF OnLegacyState, TypeOK, edgeVars, slotVars, lifeVars, interlockVars,
         commandVars, topicVars
    <3> QED
      BY <3>1, <3>2
  <2>3. ASSUME NEW on \in BOOLEAN, OnObstacleStop(on)
        PROVE  TypeOK'
    <3>1. CommandsOK' /\ obstacleAge' \in 0 .. ObstacleWatchdog + 1
      BY <2>3, BoundAssumption DEF OnObstacleStop, DropCommand, commandVars, CommandsOK, TypeOK
    <3>2. TopicsOK'
      BY <2>3, ZeroKeepsTopics DEF OnObstacleStop
    <3> QED
      BY <2>3, <3>1, <3>2 DEF OnObstacleStop, CommandsOK, TopicsOK, TypeOK, edgeVars, slotVars,
         lifeVars, joyVars
  <2>4. ASSUME NEW mask \in SUBSET Directions, OnObstacleDirections(mask)
        PROVE  TypeOK'
    <3>1. CommandsOK' /\ obstacleAge' \in 0 .. ObstacleWatchdog + 1
      BY <2>4, BoundAssumption DEF OnObstacleDirections, DropCommand, commandVars, CommandsOK,
         TypeOK
    <3>2. \/ PublishSafetyZero \/ UNCHANGED topicVars
          \/ active # NoCommand /\ PublishVelocity(active, FALSE, mask)
      BY <2>4 DEF OnObstacleDirections, Republished
    <3>3. TopicsOK'
      BY <3>2, ZeroKeepsTopics, VelocityKeepsTopics DEF TypeOK
    <3> QED
      BY <2>4, <3>1, <3>3 DEF OnObstacleDirections, CommandsOK, TopicsOK, TypeOK, edgeVars,
         slotVars, lifeVars, joyVars
  <2>5. CASE JoyLapses
    BY <2>5 DEF JoyLapses, TypeOK, edgeVars, slotVars, lifeVars, interlockVars, commandVars,
       topicVars
  <2> QED
    BY <1>5, <2>1, <2>2, <2>3, <2>4, <2>5 DEF Signals
<1>6. ASSUME NEW clean \in BOOLEAN, BridgeStops(clean)
      PROVE  TypeOK'
  <2>1. TopicsOK'
    BY <1>6, ZeroKeepsTopics DEF BridgeStops
  <2>2. stops' \in 0 .. MaxStops /\ idle' \in 0 .. Watchdog + 1 /\ burst' \in 0 .. 2
          /\ obstacleAge' \in 0 .. ObstacleWatchdog + 1 /\ lastBoot' \in 0 .. MaxBoots
          /\ lastSeq' \in 0 .. MaxSeq
    BY <1>6, BoundAssumption DEF BridgeStops, TypeOK
  <2>3. queue' \in Seq(Datagram) /\ blocked' \in SUBSET Directions
    BY <1>6 DEF BridgeStops
  <2> QED
    BY <1>6, <2>1, <2>2, <2>3 DEF BridgeStops, TopicsOK, TypeOK, edgeVars
<1>7. CASE BridgeStarts
  BY <1>7 DEF BridgeStarts, TypeOK, edgeVars, slotVars, commandVars, interlockVars, joyVars
<1>8. CASE Elapse
  <2>1. queue' \in Seq(Datagram)
    <3>1. \A i \in DOMAIN queue : Older(queue[i]) \in Datagram
      BY OlderIsDatagram DEF TypeOK
    <3> QED
      BY <1>8, <3>1 DEF Elapse, TypeOK
  <2>2. slot' \in Datagram \cup {NoCommand} /\ active' \in Datagram \cup {NoCommand}
    BY <1>8, OlderIsDatagram DEF Elapse, TypeOK
  <2>3. edgeIdle' \in 0 .. Off
    BY <1>8, BoundAssumption DEF Elapse, TypeOK, Off, Later
  <2>4. wait' \in 0 .. Dwell
    BY <1>8, BoundAssumption DEF Elapse, TypeOK
  <2>5. idle' \in 0 .. Watchdog + 1 /\ obstacleAge' \in 0 .. ObstacleWatchdog + 1
    BY <1>8, BoundAssumption DEF Elapse, TypeOK, Later
  <2> QED
    BY <1>8, <2>1, <2>2, <2>3, <2>4, <2>5 DEF Elapse, TypeOK, lifeVars, joyVars
<1>9. CASE UNCHANGED vars
  BY <1>9 DEF vars, TypeOK
<1> QED
  BY <1>1, <1>2, <1>3, <1>4, <1>5, <1>6, <1>7, <1>8, <1>9 DEF Next, Bridge

\* Every variable of edge and bridge keeps its type; the sums of watchdogs at
\* which ages are cut off are never passed (TypeOK).
THEOREM TypeCorrect == Spec => []TypeOK
<1>1. Init => TypeOK
  <2> SUFFICES ASSUME Init PROVE TypeOK
    OBVIOUS
  <2>1. /\ boot \in 1 .. MaxBoots /\ seq \in 0 .. MaxSeq /\ edgeIdle \in 0 .. Off
        /\ wait \in 0 .. Dwell /\ stops \in 0 .. MaxStops /\ lastBoot \in 0 .. MaxBoots
        /\ lastSeq \in 0 .. MaxSeq /\ idle \in 0 .. Watchdog + 1 /\ burst \in 0 .. 2
        /\ obstacleAge \in 0 .. ObstacleWatchdog + 1
    BY BoundAssumption DEF Init, Off
  <2>2. todo \in [kind : Kinds, left : 0 .. StopRepeats]
    BY BoundAssumption DEF Init, Kinds
  <2>3. /\ queue \in Seq(Datagram) /\ blocked \in SUBSET Directions
        /\ slot \in Datagram \cup {NoCommand} /\ active \in Datagram \cup {NoCommand}
        /\ out \in Directions \cup {Still}
    BY DEF Init
  <2> QED
    BY <2>1, <2>2, <2>3 DEF Init, TypeOK
<1>2. TypeOK /\ [Next]_vars => TypeOK'
  BY TypeStep
<1> QED
  BY <1>1, <1>2, PTL DEF Spec

-----------------------------------------------------------------------------
(* The software latch.                                                     *)

\* Whatever the edge does, the bridge notices when it receives.
LEMMA EdgeLeavesBridge ==
  ASSUME Edge
  PROVE  UNCHANGED <<up, slotVars, commandVars, latched, interlockVars, joyVars, topicVars>>
BY DEF Edge, SetVelocity, StopMotion, EdgeWatchdog, SendNext, EdgeRestarts,
       SendsOf, OperatorStops, lifeVars

LEMMA LatchedStep ==
  ASSUME LatchedMeansStill, [Next]_vars
  PROVE  LatchedMeansStill'
<1> USE DEF LatchedMeansStill
<1>1. CASE Edge
  BY <1>1 DEF Edge, SetVelocity, StopMotion, EdgeWatchdog, SendNext, EdgeRestarts,
              Send, SendsOf, OperatorStops, lifeVars, commandVars, topicVars
<1>2. CASE Receive
  BY <1>2 DEF Receive, lifeVars, commandVars, topicVars
<1>3. CASE ApplyPending
  BY <1>3 DEF ApplyPending, ApplyReset, ApplyStop, ApplyVelocity, InForce, DropCommand,
              PublishZeroBurst, PublishZero, PublishSafetyZero, PublishVelocity,
              lifeVars, commandVars, topicVars
<1>4. CASE Tick
  BY <1>4 DEF Tick, TickLocked, TickStale, TickRepublish, TickBurst, DropCommand,
              PublishZeroBurst, PublishZero, PublishSafetyZero, lifeVars, topicVars
<1>5. CASE \E clean \in BOOLEAN : BridgeStops(clean)
  BY <1>5 DEF BridgeStops
<1>6. CASE BridgeStarts
  BY <1>6 DEF BridgeStarts
<1>7. CASE OnLegacyJoy
  BY <1>7 DEF OnLegacyJoy, YieldToJoystick, DropCommand, lifeVars
<1>8. CASE \E on \in BOOLEAN : OnLegacyState(on)
  BY <1>8 DEF OnLegacyState, YieldToJoystick, DropCommand, lifeVars, commandVars, topicVars
<1>9. CASE \E on \in BOOLEAN : OnObstacleStop(on)
  BY <1>9 DEF OnObstacleStop, DropCommand, PublishSafetyZero, lifeVars, commandVars, topicVars
<1>10. CASE \E mask \in SUBSET Directions : OnObstacleDirections(mask)
  BY <1>10 DEF OnObstacleDirections, Republished, DropCommand, PublishSafetyZero,
               lifeVars, commandVars, topicVars
<1>11. CASE JoyLapses
  BY <1>11 DEF JoyLapses, lifeVars, commandVars, topicVars
<1>12. CASE Elapse
  BY <1>12 DEF Elapse, Older, lifeVars
<1>13. CASE UNCHANGED vars
  BY <1>13 DEF vars
<1> QED
  BY <1>1, <1>2, <1>3, <1>4, <1>5, <1>6, <1>7, <1>8, <1>9, <1>10, <1>11, <1>12, <1>13
  DEF Next, Signals, Bridge

\* While the emergency latch is set nothing drives: no velocity, signal or
\* joystick message gets past _estop_latched (LatchedMeansStill).
THEOREM LatchHolds == Spec => []LatchedMeansStill
<1>1. Init => LatchedMeansStill
  BY DEF Init, LatchedMeansStill
<1>2. LatchedMeansStill /\ [Next]_vars => LatchedMeansStill'
  BY LatchedStep
<1> QED
  BY <1>1, <1>2, PTL DEF Spec

\* Only a live reset datagram that _apply_pending works on releases the latch of
\* a running bridge (OnlyResetUnlatches).
THEOREM LatchIsReleased == Spec => OnlyResetUnlatches
<1> DEFINE Release == up /\ latched /\ ~latched' =>
              /\ slot # NoCommand /\ slot.kind = "reset" /\ Live(slot)
              /\ slot' = NoCommand /\ out' = Still
<1>1. [Next]_vars => [Release]_vars
  <2> SUFFICES ASSUME Next PROVE Release
    OBVIOUS
  <2>1. CASE Edge
    BY <2>1 DEF Edge, SetVelocity, StopMotion, EdgeWatchdog, SendNext, EdgeRestarts,
                SendsOf, OperatorStops
  <2>2. CASE Receive
    BY <2>2 DEF Receive
  <2>3. CASE ApplyPending
    BY <2>3 DEF ApplyPending, ApplyReset, ApplyStop, ApplyVelocity,
                PublishZeroBurst, PublishZero
  <2>4. CASE Tick
    BY <2>4 DEF Tick
  <2>5. CASE Signals
    BY <2>5 DEF Signals, OnLegacyJoy, OnLegacyState, OnObstacleStop, OnObstacleDirections,
                JoyLapses
  <2>6. CASE (\E clean \in BOOLEAN : BridgeStops(clean)) \/ BridgeStarts
    BY <2>6 DEF BridgeStops, BridgeStarts
  <2>7. CASE Elapse
    BY <2>7 DEF Elapse
  <2> QED
    BY <2>1, <2>2, <2>3, <2>4, <2>5, <2>6, <2>7 DEF Next, Bridge
<1> QED
  BY <1>1, PTL DEF Spec, OnlyResetUnlatches

-----------------------------------------------------------------------------
(* Obstacles and stop bursts.                                              *)

LEMMA ObstaclesStep ==
  ASSUME TypeOK, ObstaclesStopWeb, [Next]_vars
  PROVE  ObstaclesStopWeb'
<1> USE DEF ObstaclesStopWeb
<1>1. CASE Edge
  BY <1>1, EdgeLeavesBridge DEF commandVars, topicVars, interlockVars
<1>2. CASE Receive
  BY <1>2 DEF Receive, commandVars, topicVars, interlockVars
<1>3. CASE ApplyPending
  <2>1. CASE ApplyVelocity(slot)
    BY <1>3, <2>1 DEF ApplyPending, ApplyVelocity, InForce, DropCommand, PublishVelocity, Filtered,
       Locked, interlockVars
  <2>2. CASE ~ApplyVelocity(slot)
    BY <1>3, <2>2 DEF ApplyPending, ApplyReset, ApplyStop, DropCommand, interlockVars,
       commandVars, topicVars
  <2> QED
    BY <2>1, <2>2
<1>4. CASE Tick
  <2>1. CASE DropCommand
    BY <2>1 DEF DropCommand
  <2>2. CASE PublishVelocity(active, Locked, blocked) /\ UNCHANGED commandVars
    BY <1>4, <2>2 DEF Tick, PublishVelocity, Filtered, Locked, interlockVars, commandVars
  <2>3. CASE PublishZero
    BY <2>3 DEF PublishZero
  <2> QED
    BY <1>4, <2>1, <2>2, <2>3
    DEF Tick, TickLocked, TickStale, TickRepublish, TickBurst
<1>5. CASE OnLegacyJoy \/ (\E on \in BOOLEAN : OnLegacyState(on)) \/ JoyLapses
  BY <1>5 DEF OnLegacyJoy, OnLegacyState, JoyLapses, YieldToJoystick, DropCommand,
              commandVars, topicVars, interlockVars
<1>6. CASE \E on \in BOOLEAN : OnObstacleStop(on)
  BY <1>6 DEF OnObstacleStop, DropCommand, Avoiding, commandVars, topicVars
<1>7. CASE \E mask \in SUBSET Directions : OnObstacleDirections(mask)
  BY <1>7 DEF OnObstacleDirections, Republished, PublishVelocity, Filtered, DropCommand,
              Avoiding, commandVars, topicVars
<1>8. CASE \E clean \in BOOLEAN : BridgeStops(clean)
  BY <1>8 DEF BridgeStops
<1>9. CASE BridgeStarts
  BY <1>9 DEF BridgeStarts, commandVars, interlockVars
<1>10. CASE Elapse
  BY <1>10, OlderIsDatagram DEF Elapse, TypeOK
<1>11. CASE UNCHANGED vars
  BY <1>11 DEF vars
<1> QED
  BY <1>1, <1>2, <1>3, <1>4, <1>5, <1>6, <1>7, <1>8, <1>9, <1>10, <1>11
  DEF Next, Signals, Bridge

\* A command with avoidance never points at a reported obstacle, whichever of
\* the two came first (ObstaclesStopWeb).
THEOREM ObstaclesAreRespected == Spec => []ObstaclesStopWeb
<1>1. Init => ObstaclesStopWeb
  BY DEF Init, ObstaclesStopWeb
<1>2. TypeOK /\ ObstaclesStopWeb /\ [Next]_vars => ObstaclesStopWeb'
  BY ObstaclesStep
<1> QED
  BY <1>1, <1>2, TypeCorrect, PTL DEF Spec

LEMMA BurstStep ==
  ASSUME TypeOK, BurstIsAlone, [Next]_vars
  PROVE  BurstIsAlone'
<1> USE DEF BurstIsAlone
<1> burst \in 0 .. 2
  BY DEF TypeOK
<1>1. CASE Edge
  BY <1>1, EdgeLeavesBridge DEF commandVars, topicVars
<1>2. CASE Receive
  BY <1>2 DEF Receive, commandVars, topicVars
<1>3. CASE ApplyPending
  BY <1>3 DEF ApplyPending, ApplyReset, ApplyStop, ApplyVelocity, InForce, DropCommand,
              PublishZeroBurst, PublishZero, PublishSafetyZero, commandVars, topicVars
<1>4. CASE Tick
  BY <1>4 DEF Tick, TickLocked, TickStale, TickRepublish, TickBurst, DropCommand,
              PublishZeroBurst, PublishZero, PublishSafetyZero, PublishVelocity,
              commandVars, topicVars
<1>5. CASE OnLegacyJoy \/ (\E on \in BOOLEAN : OnLegacyState(on)) \/ JoyLapses
  BY <1>5 DEF OnLegacyJoy, OnLegacyState, JoyLapses, YieldToJoystick, DropCommand,
              commandVars, topicVars
<1>6. CASE \E on \in BOOLEAN : OnObstacleStop(on)
  BY <1>6 DEF OnObstacleStop, DropCommand, PublishSafetyZero, commandVars, topicVars
<1>7. CASE \E mask \in SUBSET Directions : OnObstacleDirections(mask)
  BY <1>7 DEF OnObstacleDirections, Republished, PublishSafetyZero, DropCommand,
              commandVars, topicVars
<1>8. CASE \E clean \in BOOLEAN : BridgeStops(clean)
  BY <1>8 DEF BridgeStops
<1>9. CASE BridgeStarts
  BY <1>9 DEF BridgeStarts, commandVars
<1>10. CASE Elapse
  BY <1>10 DEF Elapse, Older
<1>11. CASE UNCHANGED vars
  BY <1>11 DEF vars
<1> QED
  BY <1>1, <1>2, <1>3, <1>4, <1>5, <1>6, <1>7, <1>8, <1>9, <1>10, <1>11
  DEF Next, Signals, Bridge

\* The rest of a stop burst is never published between the velocities of a
\* later command (BurstIsAlone).
THEOREM BurstsAreAlone == Spec => []BurstIsAlone
<1>1. Init => BurstIsAlone
  BY DEF Init, BurstIsAlone
<1>2. TypeOK /\ BurstIsAlone /\ [Next]_vars => BurstIsAlone'
  BY BurstStep
<1> QED
  BY <1>1, <1>2, TypeCorrect, PTL DEF Spec

-----------------------------------------------------------------------------
(* The age of the motion, and its end.                                     *)

\* A datagram was alive when it was applied; since then both clocks ran alike.
AgeFollowsIdle == active # NoCommand => active.age <= Ttl + idle

LEMMA AgeStep ==
  ASSUME TypeOK, AgeFollowsIdle, [Next]_vars
  PROVE  AgeFollowsIdle'
<1> USE DEF AgeFollowsIdle
<1>1. CASE Edge
  BY <1>1, EdgeLeavesBridge DEF commandVars
<1>2. CASE Receive
  BY <1>2 DEF Receive, commandVars
<1>3. CASE ApplyPending
  <2>1. slot \in Datagram /\ slot.age \in Nat
    BY <1>3, OffIsNat DEF ApplyPending, TypeOK, Datagram
  <2>2. CASE InForce(slot) /\ Live(slot)
    BY <2>1, <2>2, BoundAssumption DEF InForce, Live, Expired
  <2>3. CASE active' = NoCommand \/ UNCHANGED commandVars
    BY <2>3 DEF commandVars
  <2> QED
    BY <1>3, <2>2, <2>3 DEF ApplyPending, ApplyReset, ApplyStop, ApplyVelocity, DropCommand
<1>4. CASE Tick
  BY <1>4 DEF Tick, TickLocked, TickStale, TickRepublish, TickBurst, DropCommand, commandVars
<1>5. CASE Signals
  BY <1>5 DEF Signals, OnLegacyJoy, OnLegacyState, OnObstacleStop, OnObstacleDirections,
              JoyLapses, YieldToJoystick, DropCommand, commandVars
<1>6. CASE (\E clean \in BOOLEAN : BridgeStops(clean)) \/ BridgeStarts
  BY <1>6 DEF BridgeStops, BridgeStarts, commandVars
<1>7. CASE Elapse
  <2> SUFFICES ASSUME active' # NoCommand PROVE active'.age <= Ttl + idle'
    OBVIOUS
  <2>1. active # NoCommand /\ active \in Datagram /\ active'.age = Later(active.age, MaxAge)
    BY <1>7, OlderIsDatagram DEF Elapse, TypeOK
  <2>2. active.age \in 0 .. MaxAge /\ active.age <= Ttl + idle
    BY <2>1 DEF Datagram
  <2>3. idle' = Later(idle, Watchdog + 1) /\ idle \in 0 .. Watchdog + 1
    BY <1>7, <2>1 DEF Elapse, TypeOK
  <2> QED
    BY <2>1, <2>2, <2>3, BoundAssumption DEF Later, MaxAge
<1>8. CASE UNCHANGED vars
  BY <1>8 DEF vars
<1> QED
  BY <1>1, <1>2, <1>3, <1>4, <1>5, <1>6, <1>7, <1>8 DEF Next, Bridge

\* What the timer repeats was sent within the life of a datagram and the
\* bridge's watchdog, however late the threads are (MotionIsRecent).
THEOREM MotionRecent == Spec => []MotionIsRecent
<1>1. Init => AgeFollowsIdle
  BY DEF Init, AgeFollowsIdle
<1>2. TypeOK /\ AgeFollowsIdle /\ [Next]_vars => AgeFollowsIdle'
  BY AgeStep
<1>3. TypeOK /\ AgeFollowsIdle => MotionIsRecent
  <2> SUFFICES ASSUME TypeOK, AgeFollowsIdle, active # NoCommand, ~Stale
               PROVE  active.age <= Ttl + Watchdog
    BY DEF MotionIsRecent
  <2>1. idle \in Nat /\ idle <= Watchdog
    BY BoundAssumption DEF TypeOK, Stale
  <2>2. active.age \in Nat /\ active.age <= Ttl + idle
    BY OffIsNat DEF TypeOK, Datagram, AgeFollowsIdle
  <2> QED
    BY <2>1, <2>2, BoundAssumption
<1> QED
  BY <1>1, <1>2, <1>3, TypeCorrect, PTL DEF Spec

\* A safety zero of the present unit leaves no command under a closed interlock,
\* so that the timer may leave the zero out that it would publish.
RecentZeroIsOpen == zeroRecent /\ active # NoCommand /\ active.avoid => ~Locked

LEMMA RecentZeroStep ==
  ASSUME TypeOK, RecentZeroIsOpen, [Next]_vars
  PROVE  RecentZeroIsOpen'
<1> USE DEF RecentZeroIsOpen
<1>1. CASE Edge
  BY <1>1, EdgeLeavesBridge DEF commandVars, topicVars, interlockVars, Locked
<1>2. CASE Receive
  BY <1>2 DEF Receive, commandVars, topicVars, interlockVars, Locked
<1>3. CASE ApplyPending
  <2>1. Locked' <=> Locked
    BY <1>3 DEF ApplyPending, interlockVars, Locked
  <2> QED
    BY <1>3, <2>1 DEF ApplyPending, ApplyReset, ApplyStop, ApplyVelocity, InForce, DropCommand,
       PublishVelocity, commandVars, topicVars
<1>4. CASE Tick
  <2>1. Locked' <=> Locked
    BY <1>4 DEF Tick, interlockVars, Locked
  <2> QED
    BY <1>4, <2>1 DEF Tick, TickLocked, TickStale, TickRepublish, TickBurst, DropCommand,
       PublishVelocity, PublishZero, commandVars, topicVars
<1>5. CASE OnLegacyJoy \/ (\E on \in BOOLEAN : OnLegacyState(on)) \/ JoyLapses
  BY <1>5 DEF OnLegacyJoy, OnLegacyState, JoyLapses, YieldToJoystick, DropCommand,
              commandVars, topicVars, interlockVars, Locked
<1>6. CASE \E on \in BOOLEAN : OnObstacleStop(on)
  <2>1. Locked' => sensorStop'
    BY <1>6, BoundAssumption DEF OnObstacleStop, Locked
  <2> QED
    BY <1>6, <2>1 DEF OnObstacleStop, DropCommand, Avoiding, commandVars
<1>7. CASE \E mask \in SUBSET Directions : OnObstacleDirections(mask)
  <2>1. Locked' => sensorStop
    BY <1>7, BoundAssumption DEF OnObstacleDirections, Locked
  <2> QED
    BY <1>7, <2>1 DEF OnObstacleDirections, DropCommand, Avoiding, commandVars
<1>8. CASE (\E clean \in BOOLEAN : BridgeStops(clean)) \/ BridgeStarts
  BY <1>8 DEF BridgeStops, BridgeStarts
<1>9. CASE Elapse
  BY <1>9 DEF Elapse
<1>10. CASE UNCHANGED vars
  BY <1>10 DEF vars, Locked
<1> QED
  BY <1>1, <1>2, <1>3, <1>4, <1>5, <1>6, <1>7, <1>8, <1>9, <1>10
  DEF Next, Signals, Bridge

LEMMA EndStep ==
  ASSUME TypeOK, LatchedMeansStill, RecentZeroIsOpen, Next,
         active # NoCommand, active' = NoCommand, up'
  PROVE  (out' = Still /\ avoidance') \/ Overridden'
<1>1. CASE Edge
  BY <1>1, EdgeLeavesBridge DEF commandVars
<1>2. CASE Receive
  BY <1>2 DEF Receive, commandVars
<1>3. CASE ApplyPending
  <2>1. Overridden' <=> Overridden
    BY <1>3 DEF ApplyPending, joyVars, Overridden
  <2> QED
    BY <1>3, <2>1 DEF ApplyPending, ApplyReset, ApplyStop, ApplyVelocity, InForce,
       PublishZeroBurst, PublishZero, PublishSafetyZero, commandVars, topicVars
<1>4. CASE Tick
  <2>1. Overridden' <=> Overridden
    BY <1>4 DEF Tick, joyVars, Overridden
  <2>2. CASE TickLocked
    <3>1. PublishSafetyZero \/ (zeroRecent /\ (latched \/ (Avoiding /\ Locked)))
      BY <2>2 DEF TickLocked
    <3>2. ~latched
      BY <1>4 DEF Tick, LatchedMeansStill
    <3>3. ~(zeroRecent /\ Avoiding /\ Locked)
      BY DEF RecentZeroIsOpen, Avoiding
    <3> QED
      BY <3>1, <3>2, <3>3 DEF PublishSafetyZero
  <2>3. CASE TickStale
    BY <2>3 DEF TickStale, PublishZeroBurst, PublishZero
  <2> QED
    BY <1>4, <2>1, <2>2, <2>3 DEF Tick, TickRepublish, TickBurst, commandVars
<1>5. CASE OnLegacyJoy \/ (\E on \in BOOLEAN : OnLegacyState(on)) \/ JoyLapses
  BY <1>5 DEF OnLegacyJoy, OnLegacyState, JoyLapses, commandVars, Overridden
<1>6. CASE \E on \in BOOLEAN : OnObstacleStop(on)
  BY <1>6 DEF OnObstacleStop, PublishSafetyZero, commandVars
<1>7. CASE \E mask \in SUBSET Directions : OnObstacleDirections(mask)
  BY <1>7 DEF OnObstacleDirections, PublishSafetyZero, commandVars
<1>8. CASE (\E clean \in BOOLEAN : BridgeStops(clean)) \/ BridgeStarts
  BY <1>8 DEF BridgeStops, BridgeStarts, commandVars
<1>9. CASE Elapse
  BY <1>9, OlderIsDatagram DEF Elapse, TypeOK
<1> QED
  BY <1>1, <1>2, <1>3, <1>4, <1>5, <1>6, <1>7, <1>8, <1>9 DEF Next, Signals, Bridge

\* No command fades away: it ends with a zero and with avoidance switched on, or
\* the joystick has the vehicle (CommandEndsInZero).
THEOREM CommandsEndInZero == Spec => CommandEndsInZero
<1> DEFINE EndsIn == active # NoCommand /\ active' = NoCommand /\ up' =>
                     (out' = Still /\ avoidance') \/ Overridden'
<1>1. Init => RecentZeroIsOpen
  BY DEF Init, RecentZeroIsOpen
<1>2. TypeOK /\ RecentZeroIsOpen /\ [Next]_vars => RecentZeroIsOpen'
  BY RecentZeroStep
<1>3. TypeOK /\ LatchedMeansStill /\ RecentZeroIsOpen /\ [Next]_vars => [EndsIn]_vars
  BY EndStep
<1> QED
  BY <1>1, <1>2, <1>3, TypeCorrect, LatchHolds, PTL DEF Spec, CommandEndsInZero

-----------------------------------------------------------------------------
(* The order of what was sent.                                             *)

Last == [boot |-> lastBoot, seq |-> lastSeq]

\* d was sent before e, or they are one.
NotAfter(d, e) == d.boot < e.boot \/ (d.boot = e.boot /\ d.seq <= e.seq)

Sent == [boot |-> boot, seq |-> seq]

OrderInv ==
  /\ NewestWins
  /\ active # NoCommand => NotAfter(active, Last)
  /\ NotAfter(Last, Sent)
  /\ \A i \in DOMAIN queue : NotAfter(queue[i], Sent)

LEMMA DatagramFields ==
  ASSUME NEW d \in Datagram
  PROVE  d.boot \in Nat /\ d.boot >= 1 /\ d.seq \in Nat
BY BoundAssumption DEF Datagram

LEMMA SendKeepsOrder ==
  ASSUME TypeOK, OrderInv, NEW kind, NEW dir, NEW avoid, Send(kind, dir, avoid),
         UNCHANGED <<boot, slotVars, commandVars>>
  PROVE  OrderInv'
<1> DEFINE d == [boot |-> boot, seq |-> seq + 1, kind |-> kind, dir |-> dir,
                 avoid |-> avoid, age |-> 0]
<1>1. d.boot = boot /\ d.seq = seq + 1
  OBVIOUS
<1>2. boot \in Nat /\ seq \in Nat /\ lastBoot \in Nat /\ lastSeq \in Nat
  BY BoundAssumption DEF TypeOK
<1>3. queue \in Seq(Datagram) /\ \A i \in DOMAIN queue : queue[i] \in Datagram
  BY DEF TypeOK
<1>4. queue' = queue \/ queue' = Append(queue, d)
  BY DEF Send
<1>5. boot' = boot /\ seq' = seq + 1 /\ lastBoot' = lastBoot /\ lastSeq' = lastSeq
        /\ slot' = slot /\ active' = active
  BY DEF Send, slotVars, commandVars
<1> HIDE DEF d
<1>6. /\ active # NoCommand /\ slot # NoCommand => Before(active, slot)
      /\ slot # NoCommand => slot.boot = lastBoot /\ slot.seq = lastSeq
      /\ active # NoCommand => NotAfter(active, Last)
      /\ NotAfter(Last, Sent)
  BY DEF OrderInv, NewestWins
<1>7. /\ active' # NoCommand /\ slot' # NoCommand => Before(active', slot')
      /\ slot' # NoCommand => slot'.boot = lastBoot' /\ slot'.seq = lastSeq'
      /\ active' # NoCommand => NotAfter(active', Last')
      /\ NotAfter(Last', Sent')
  BY <1>2, <1>5, <1>6 DEF Last, Sent, NotAfter, Before
<1>8. \A i \in DOMAIN queue' :
        (i \in DOMAIN queue /\ queue'[i] = queue[i])
          \/ (queue'[i] = d /\ \A j \in 1 .. i - 1 : j \in DOMAIN queue /\ queue'[j] = queue[j])
  BY <1>3, <1>4
<1>9. \A i \in DOMAIN queue : /\ queue[i].boot \in Nat /\ queue[i].seq \in Nat
                              /\ NotAfter(queue[i], Sent) /\ Before(Last, queue[i])
                              /\ \A j \in 1 .. i - 1 : Before(queue[j], queue[i])
  BY <1>3, DatagramFields DEF OrderInv, NewestWins, Last
<1>10. ASSUME NEW i \in DOMAIN queue'
       PROVE  /\ NotAfter(queue'[i], Sent') /\ Before(Last', queue'[i])
              /\ \A j \in 1 .. i - 1 : Before(queue'[j], queue'[i])
  <2>1. CASE queue'[i] = d /\ \A j \in 1 .. i - 1 : j \in DOMAIN queue /\ queue'[j] = queue[j]
    <3>1. NotAfter(queue'[i], Sent') /\ Before(Last', queue'[i])
      BY <1>1, <1>2, <1>5, <1>6, <2>1 DEF NotAfter, Before, Sent, Last
    <3>2. ASSUME NEW j \in 1 .. i - 1
          PROVE  Before(queue'[j], queue'[i])
      BY <1>1, <1>2, <1>9, <2>1 DEF NotAfter, Before, Sent
    <3> QED
      BY <3>1, <3>2
  <2>2. CASE i \in DOMAIN queue /\ queue'[i] = queue[i]
    <3>1. NotAfter(queue'[i], Sent') /\ Before(Last', queue'[i])
      BY <1>2, <1>5, <1>9, <2>2 DEF NotAfter, Before, Sent, Last
    <3>2. ASSUME NEW j \in 1 .. i - 1
          PROVE  Before(queue'[j], queue'[i])
      <4>1. queue'[j] = queue[j]
        BY <1>3, <1>4, <2>2
      <4> QED
        BY <1>9, <2>2, <4>1
    <3> QED
      BY <3>1, <3>2
  <2> QED
    BY <1>8, <2>1, <2>2
<1> QED
  BY <1>7, <1>10 DEF OrderInv, NewestWins, Last

LEMMA ReceiveStages ==
  ASSUME TypeOK, OrderInv, NEW i \in DOMAIN queue, Stage(queue[i])
  PROVE  lastBoot' = queue[i].boot /\ lastSeq' = queue[i].seq /\ slot' = queue[i]
<1>1. queue[i] \in Datagram /\ Before(Last, queue[i])
  BY DEF OrderInv, NewestWins, TypeOK, Last
<1>2. lastBoot \in Nat /\ lastSeq \in Nat /\ queue[i].boot \in Nat /\ queue[i].seq \in Nat
  BY <1>1, DatagramFields, BoundAssumption DEF TypeOK
<1>3. queue[i].boot # lastBoot \/ queue[i].seq > lastSeq
  BY <1>1, <1>2 DEF Before, Last
<1> QED
  BY <1>3 DEF Stage

LEMMA OrderStep ==
  ASSUME TypeOK, OrderInv, [Next]_vars
  PROVE  OrderInv'
<1>0. /\ boot \in Nat /\ seq \in Nat /\ lastBoot \in Nat /\ lastSeq \in Nat
      /\ active # NoCommand => active.boot \in Nat /\ active.seq \in Nat
      /\ slot # NoCommand => slot.boot \in Nat /\ slot.seq \in Nat
      /\ \A i \in DOMAIN queue : queue[i] \in Datagram
  BY DatagramFields, BoundAssumption DEF TypeOK
<1>1. CASE UNCHANGED <<boot, seq, queue, slotVars, active>>
  BY <1>1 DEF OrderInv, NewestWins, slotVars, NotAfter, Last, Sent, Before
<1>2. CASE \E kind, dir, avoid : Send(kind, dir, avoid) /\ UNCHANGED <<boot, slotVars, commandVars>>
  BY <1>2, SendKeepsOrder
<1>3. CASE EdgeRestarts
  <2>1. boot' = boot + 1 /\ seq' = 0
    BY <1>3 DEF EdgeRestarts, NextBoot
  <2>2. UNCHANGED <<queue, active, lastBoot, lastSeq, slot>>
    BY <1>3 DEF EdgeRestarts, commandVars, slotVars
  <2>3. NewestWins' /\ (active' # NoCommand => NotAfter(active', Last'))
    BY <2>2 DEF OrderInv, NewestWins, Before, NotAfter, Last
  <2>4. ASSUME NEW i \in DOMAIN queue'
        PROVE  NotAfter(queue'[i], Sent')
    <3>1. queue'[i] = queue[i] /\ queue[i].boot \in Nat /\ queue[i].seq \in Nat
      BY <1>0, <2>2, DatagramFields
    <3>2. NotAfter(queue[i], Sent)
      BY <2>2 DEF OrderInv
    <3> QED
      BY <1>0, <2>1, <3>1, <3>2 DEF NotAfter, Sent
  <2>5. NotAfter(Last', Sent')
    BY <1>0, <2>1, <2>2 DEF OrderInv, NotAfter, Last, Sent
  <2> QED
    BY <2>3, <2>4, <2>5 DEF OrderInv
<1>4. CASE Receive
  <2>1. CASE UNCHANGED slotVars
    BY <1>4, <2>1 DEF Receive, OrderInv, NewestWins, slotVars, commandVars, edgeVars,
       NotAfter, Last, Sent, Before
  <2>2. ASSUME NEW i \in DOMAIN queue, Stage(queue[i])
        PROVE  OrderInv'
    <3>1. lastBoot' = queue[i].boot /\ lastSeq' = queue[i].seq /\ slot' = queue[i]
      BY <2>2, ReceiveStages
    <3>2. queue' = <<>> /\ active' = active /\ boot' = boot /\ seq' = seq
      BY <1>4 DEF Receive, commandVars, edgeVars
    <3>3. queue[i].boot \in Nat /\ queue[i].seq \in Nat
      BY <1>0, DatagramFields
    <3>4. NotAfter(queue[i], Sent) /\ Before(Last, queue[i])
            /\ (active # NoCommand => NotAfter(active, Last))
      BY DEF OrderInv, NewestWins, Last
    <3>5. NotAfter(Last', Sent') /\ (active' # NoCommand => Before(active', slot'))
            /\ (active' # NoCommand => NotAfter(active', Last'))
      BY <1>0, <3>1, <3>2, <3>3, <3>4 DEF NotAfter, Before, Last, Sent
    <3> QED
      BY <3>1, <3>2, <3>5 DEF OrderInv, NewestWins
  <2> QED
    BY <1>4, <2>1, <2>2 DEF Receive, Decoded
<1>5. CASE ApplyPending
  <2>1. active' \in {active, slot, NoCommand}
    BY <1>5 DEF ApplyPending, ApplyReset, ApplyStop, ApplyVelocity, InForce, DropCommand,
       commandVars
  <2>2. slot' = NoCommand /\ UNCHANGED <<boot, seq, queue, lastBoot, lastSeq>>
    BY <1>5 DEF ApplyPending, edgeVars
  <2>3. slot # NoCommand => NotAfter(slot, Last)
    BY <1>0 DEF OrderInv, NewestWins, NotAfter, Last
  <2>4. active' # NoCommand => NotAfter(active', Last)
    BY <2>1, <2>3 DEF OrderInv
  <2> QED
    BY <2>2, <2>4 DEF OrderInv, NewestWins, NotAfter, Last, Sent, Before
<1>6. CASE (active' = active \/ active' = NoCommand) /\ UNCHANGED <<boot, seq, queue, slotVars>>
  BY <1>6 DEF OrderInv, NewestWins, slotVars, NotAfter, Last, Sent, Before
<1>7. CASE \E clean \in BOOLEAN : BridgeStops(clean)
  BY <1>0, <1>7 DEF BridgeStops, OrderInv, NewestWins, edgeVars, NotAfter, Last, Sent, Before
<1>8. CASE Elapse
  <2>1. /\ active' = NoCommand <=> active = NoCommand
        /\ active # NoCommand => active'.boot = active.boot /\ active'.seq = active.seq
        /\ slot' = NoCommand <=> slot = NoCommand
        /\ slot # NoCommand => slot'.boot = slot.boot /\ slot'.seq = slot.seq
    BY <1>8, OlderIsDatagram DEF Elapse, TypeOK
  <2>2. DOMAIN queue' = DOMAIN queue /\ \A i \in DOMAIN queue : queue'[i] = Older(queue[i])
    BY <1>8 DEF Elapse
  <2>3. \A i \in DOMAIN queue : queue'[i].boot = queue[i].boot /\ queue'[i].seq = queue[i].seq
    BY <1>0, <2>2, OlderIsDatagram, NoCommandAssumption
  <2>4. UNCHANGED <<boot, seq, lastBoot, lastSeq>>
    BY <1>8 DEF Elapse
  <2>5. queue \in Seq(Datagram)
    BY DEF TypeOK
  <2>6. \A i \in DOMAIN queue : \A j \in 1 .. i - 1 : j \in DOMAIN queue
    BY <2>5
  <2> QED
    BY <2>1, <2>2, <2>3, <2>4, <2>6 DEF OrderInv, NewestWins, NotAfter, Last, Sent, Before
<1> QED
  <2>1. CASE Edge
    <3>1. UNCHANGED slotVars /\ UNCHANGED commandVars
      BY <2>1, EdgeLeavesBridge
    <3>2. CASE EdgeRestarts
      BY <1>3, <3>2
    <3>3. CASE ~EdgeRestarts
      <4>1. UNCHANGED boot
        BY <2>1, <3>3 DEF Edge, SetVelocity, StopMotion, EdgeWatchdog, SendNext, SendsOf, OperatorStops
      <4>2. (\E kind, dir, avoid : Send(kind, dir, avoid)) \/ UNCHANGED <<seq, queue>>
        BY <2>1, <3>3 DEF Edge, SetVelocity, StopMotion, EdgeWatchdog, SendNext, SendsOf, OperatorStops
      <4> QED
        BY <1>1, <1>2, <3>1, <4>1, <4>2 DEF commandVars
    <3> QED
      BY <3>2, <3>3
  <2>2. CASE Tick
    BY <1>6, <2>2 DEF Tick, TickLocked, TickStale, TickRepublish, TickBurst, DropCommand,
       commandVars, edgeVars
  <2>3. CASE Signals
    BY <1>6, <2>3 DEF Signals, OnLegacyJoy, OnLegacyState, OnObstacleStop, OnObstacleDirections,
       JoyLapses, YieldToJoystick, DropCommand, commandVars, edgeVars
  <2>4. CASE BridgeStarts
    BY <1>1, <2>4 DEF BridgeStarts, commandVars, edgeVars
  <2>5. CASE UNCHANGED vars
    BY <1>1, <2>5 DEF vars, slotVars
  <2> QED
    BY <1>4, <1>5, <1>7, <1>8, <2>1, <2>2, <2>3, <2>4, <2>5 DEF Next, Bridge

LEMMA OrderHolds == Spec => []OrderInv
<1>1. Init => OrderInv
  <2> SUFFICES ASSUME Init PROVE OrderInv
    OBVIOUS
  <2>1. NotAfter(Last, Sent)
    BY DEF Init, NotAfter, Last, Sent
  <2>2. active = NoCommand /\ slot = NoCommand /\ DOMAIN queue = {}
    BY DEF Init
  <2> QED
    BY <2>1, <2>2 DEF OrderInv, NewestWins
<1>2. TypeOK /\ OrderInv /\ [Next]_vars => OrderInv'
  BY OrderStep
<1> QED
  BY <1>1, <1>2, TypeCorrect, PTL DEF Spec

\* Commands take effect in the order in which they were sent, across restarts of
\* either process (NewestWins).
THEOREM NewestIsHeard == Spec => []NewestWins
<1>1. OrderInv => NewestWins
  BY DEF OrderInv
<1> QED
  BY <1>1, OrderHolds, PTL

\* The receiver thread stages the last fresh datagram it reads; the numbers of
\* an earlier process never make it refuse one (HeardIsStaged).
THEOREM FreshIsStaged == Spec => HeardIsStaged
<1> DEFINE Staged == queue # <<>> /\ queue' = <<>> /\ up' =>
                       \A i \in Decoded : Newest(i) => slot' = queue[i]
<1>1. TypeOK /\ OrderInv /\ [Next]_vars => [Staged]_vars
  <2> SUFFICES ASSUME TypeOK, OrderInv, Next, queue # <<>>, queue' = <<>>, up',
                      NEW i \in Decoded, Newest(i)
               PROVE  slot' = queue[i]
    OBVIOUS
  <2>1. queue \in Seq(Datagram)
    BY DEF TypeOK
  <2>2. CASE Receive
    <3>1. PICK k \in Decoded : Newest(k) /\ Stage(queue[k])
      BY <2>2 DEF Receive
    <3>2. i = k
      BY <2>1, <3>1 DEF Newest, Decoded
    <3> QED
      BY <3>1, <3>2, ReceiveStages DEF Decoded
  <2>3. CASE Edge
    <3>1. queue' = queue \/ \E d : queue' = Append(queue, d)
      BY <2>3 DEF Edge, SetVelocity, StopMotion, EdgeWatchdog, SendNext, EdgeRestarts,
         SendsOf, OperatorStops, Send
    <3>2. ASSUME NEW d, queue' = Append(queue, d)
          PROVE  FALSE
      BY <2>1, <3>2, Len(queue') = Len(queue) + 1, Len(queue') = 0
    <3> QED
      BY <3>1, <3>2
  <2>4. CASE ApplyPending \/ Tick
    BY <2>4 DEF ApplyPending, Tick
  <2>5. CASE Signals
    BY <2>5 DEF Signals, OnLegacyJoy, OnLegacyState, OnObstacleStop, OnObstacleDirections,
       JoyLapses
  <2>6. CASE (\E clean \in BOOLEAN : BridgeStops(clean)) \/ BridgeStarts
    BY <2>6 DEF BridgeStops, BridgeStarts
  <2>7. CASE Elapse
    BY <2>1, <2>7 DEF Elapse
  <2> QED
    BY <2>2, <2>3, <2>4, <2>5, <2>6, <2>7 DEF Next, Bridge
<1> QED
  BY <1>1, OrderHolds, TypeCorrect, PTL DEF Spec, HeardIsStaged


-----------------------------------------------------------------------------
(* MediaStreaming: types.                                                  *)

USE MediaAssumption

LoopPcs == {"off", "idle", "watch", "backoff", "closing", "token", "preparing", "audio"}
WorkerPcs == {"none", "sleep", "lock", "plan", "token", "create", "bridge", "run", "halt", "final"}
Kids == {"publisher", "ffmpeg"}
Plans == [mode : {"none", "bridge", "direct"}, encoder : {"none", "hardware", "software", "copy"},
          of : Sources \cup {"none"}]
Workers == [pc : WorkerPcs, plan : Plans, refresh : BOOLEAN, canceled : BOOLEAN,
            ended : SUBSET Kids]
Preparing == [for : {"connect", "refresh", "nobody"}, key : Sources,
              at : {"waiting", "building"}, plan : Plans]
Afterwards == {"idle", "token", "backoff", "off", "down"}
Loops == [pc : LoopPcs \ {"closing"}, next : {"none"}] \cup [pc : {"closing"}, next : Afterwards]
Families == [Kids -> {"none", "live", "term"}]
Lost == Kids \X {"live", "term", "eof"}

MediaTypes ==
  /\ MediaTypeOK
  /\ loop \in Loops /\ worker \in Workers /\ threads \subseteq Preparing
  /\ prepared \in [key : Sources \cup {"none"}, plan : Plans]

LEMMA ConstantTypes ==
  /\ NoPlan \in Plans /\ NoWorker \in Workers /\ NoChild \in Families
  /\ Unprepared \in [key : Sources \cup {"none"}, plan : Plans]
  /\ \A pc \in LoopPcs \ {"closing"} : LoopAt(pc) \in Loops /\ LoopAt(pc).pc = pc
BY DEF NoPlan, Plan, Plans, NoWorker, Workers, WorkerPcs, Kids, NoChild, Families, Unprepared,
       LoopPcs, LoopAt, Loops

LEMMA StoppingTypes ==
  ASSUME NEW c \in Families
  PROVE  /\ Stopping(c) \in Families /\ Stopping(c).publisher # "live"
         /\ (c = NoChild => Stopping(c) = NoChild)
BY DEF Stopping, Families, Kids, NoChild

LEMMA HandledTypes ==
  ASSUME MediaTypes, NEW ended, NEW keyframe \in BOOLEAN, Handled(ended, keyframe)
  PROVE  /\ hwFailed' \in BOOLEAN /\ worker' \in Workers
         /\ worker'.pc = IF own' = NoChild THEN "sleep" ELSE "final"
BY DEF MediaTypes, MediaTypeOK, Handled, Workers, WorkerPcs, Kids

LEMMA ForsakenTypes ==
  ASSUME MediaTypes, NEW who
  PROVE  /\ Forsaken(who) \subseteq Preparing
         /\ \A t \in Forsaken(who) : t.for \in who => t.for = "nobody"
         /\ \A t \in Forsaken(who) : t.for # "nobody" => t \in threads
BY DEF MediaTypes, Forsaken, Preparing

LEMMA CancelTypes ==
  ASSUME MediaTypes, CancelWorker
  PROVE  /\ worker' \in Workers /\ own' \in Families /\ orphans' \subseteq Lost
         /\ worker'.pc \in {"none", "final"}
<1>a. worker \in Workers /\ own \in Families /\ orphans \subseteq Lost
  BY DEF MediaTypes, MediaTypeOK, Families, Lost, Kids
<1>1. CASE worker' = NoWorker /\ UNCHANGED children
  BY <1>1, <1>a, ConstantTypes DEF children, NoWorker
<1>2. CASE worker' = NoWorker /\ own' = NoChild /\ orphans' = orphans \cup {<<"publisher", "eof">>}
  BY <1>2, <1>a, ConstantTypes DEF NoWorker, Lost, Kids
<1>3. CASE /\ own' = Stopping(own) /\ UNCHANGED orphans
           /\ worker' = [worker EXCEPT !.pc = "final", !.canceled = TRUE]
  BY <1>3, <1>a, StoppingTypes DEF Workers, WorkerPcs
<1>4. CASE worker' = NoWorker /\ own' = NoChild /\ orphans' = orphans \cup Abandoned
  <2>1. Abandoned \subseteq Lost
    BY <1>a DEF Abandoned, Alive, Families, Lost, Kids
  <2> QED
    BY <1>4, <1>a, <2>1, ConstantTypes DEF NoWorker
<1> QED
  BY <1>1, <1>2, <1>3, <1>4 DEF CancelWorker

LEMMA DisconnectTypes ==
  ASSUME MediaTypes, NEW next \in Afterwards, Disconnect(next)
  PROVE  /\ worker' \in Workers /\ own' \in Families /\ orphans' \subseteq Lost
         /\ worker'.pc \in {"none", "final"}
         /\ loop' \in Loops /\ loop'.pc = "closing" /\ connected' = FALSE
BY CancelTypes DEF Disconnect, Loops

-----------------------------------------------------------------------------
(* Whoever stops a worker finds its publisher stopped or stopping.         *)

ChildlessPcs == {"none", "sleep", "lock", "plan", "token", "create"}

\* A worker that has not begun has no children; one that stops them has begun with the
\* publisher.
ChildrenKnown ==
  /\ worker.pc \in ChildlessPcs => own = NoChild
  /\ worker.pc \in {"halt", "final"} => own.publisher # "live"

\* A plan is awaited by one coroutine at most, which is where it waits.
PlanAwaited ==
  /\ \A t \in threads : t.for = "connect" => loop.pc = "preparing"
  /\ \A t \in threads : t.for = "refresh" => worker.pc = "plan"
  /\ \A t, u \in threads : t.for # "nobody" /\ u.for = t.for => u = t

\* The media loop connects only when the last worker is gone, and only on a link.
OneWorker ==
  /\ loop.pc \in {"token", "preparing"} => worker.pc = "none"
  /\ link = "down" => loop.pc = "off"

Attended == ChildrenKnown /\ PlanAwaited /\ OneWorker /\ PublisherIsTold

LEMMA CancelIsTold ==
  ASSUME MediaTypes, Attended, CancelWorker
  PROVE  ChildrenKnown' /\ PublisherIsTold'
<1>a. own \in Families /\ worker \in Workers
  BY DEF MediaTypes, MediaTypeOK, Families, Kids
<1> USE DEF Attended, ChildrenKnown, PublisherIsTold, ChildlessPcs
<1>1. CASE worker.pc \in ChildlessPcs /\ worker' = NoWorker /\ UNCHANGED children
  BY <1>1 DEF children, NoWorker
<1>2. CASE worker' = NoWorker /\ own' = NoChild /\ orphans' = orphans \cup {<<"publisher", "eof">>}
  BY <1>2 DEF NoWorker
<1>3. CASE /\ own' = Stopping(own) /\ UNCHANGED orphans
           /\ worker' = [worker EXCEPT !.pc = "final", !.canceled = TRUE]
  BY <1>3, <1>a, StoppingTypes DEF Workers
<1>4. CASE /\ worker.pc = "final"
           /\ worker' = NoWorker /\ own' = NoChild /\ orphans' = orphans \cup Abandoned
  <2>1. <<"publisher", "live">> \notin Abandoned
    BY <1>4 DEF Abandoned
  <2> QED
    BY <1>4, <2>1 DEF NoWorker
<1> QED
  BY <1>1, <1>2, <1>3, <1>4 DEF CancelWorker

\* A disconnect leaves no coroutine to wait for a plan.
LEMMA DisconnectIsTold ==
  ASSUME MediaTypes, Attended, CancelWorker, loop'.pc = "closing", link' # "down",
         \A t \in threads' : t.for = "nobody"
  PROVE  Attended'
<1>1. ChildrenKnown' /\ PublisherIsTold'
  BY CancelIsTold
<1> QED
  BY <1>1 DEF Attended, PlanAwaited, OneWorker

\* Steps that leave the worker, its children, the loop, the link and who waits alone.
LEMMA SameWorkerIsAttended ==
  ASSUME Attended, UNCHANGED <<worker, own, loop, link>>, orphans' \subseteq orphans,
         \A t \in threads' : t.for = "nobody" \/ t \in threads
  PROVE  Attended'
BY DEF Attended, ChildrenKnown, PlanAwaited, OneWorker, PublisherIsTold

-----------------------------------------------------------------------------
(* The center and the passing of time.                                     *)

LEMMA CenterStep ==
  ASSUME MediaTypes, Attended, Center \/ \E l \in Leases : RunOut(l)
  PROVE  MediaTypes' /\ Attended'
<1> USE DEF config, children, plans, counts, center
<1>1. CASE Center
  <2>1. UNCHANGED <<link, config, loop, connected, room, worker, children, plans, counts>>
    BY <1>1 DEF Center
  <2>2. session' \in BOOLEAN /\ renewing' \in BOOLEAN /\ leases' \subseteq Leases
    <3>1. \/ leases' = leases
          \/ \E l \in Leases : leases' = leases \cup {l}
          \/ \E l : leases' = leases \ {l}
      BY <1>1 DEF Center, OpenSession, EndSession, ListRenewals, Renew, ShowPreview, ClosePreview,
                  Grant, Withdraw
    <3>2. session' \in BOOLEAN /\ renewing' \in BOOLEAN
      BY <1>1 DEF Center, OpenSession, EndSession, ListRenewals, Renew, ShowPreview, ClosePreview,
                  MediaTypes, MediaTypeOK
    <3> QED
      BY <3>1, <3>2 DEF MediaTypes, MediaTypeOK
  <2>3. MediaTypes'
    BY <2>1, <2>2 DEF MediaTypes, MediaTypeOK
  <2> QED
    BY <2>1, <2>3, SameWorkerIsAttended
<1>2. ASSUME NEW l \in Leases, RunOut(l) PROVE MediaTypes' /\ Attended'
  <2>1. MediaTypes'
    BY <1>2 DEF RunOut, MediaTypes, MediaTypeOK
  <2> QED
    BY <1>2, <2>1, SameWorkerIsAttended DEF RunOut
<1> QED
  BY <1>1, <1>2

-----------------------------------------------------------------------------
(* The worker.                                                             *)

LEMMA WorkerStep ==
  ASSUME MediaTypes, Attended, Worker
  PROVE  MediaTypes' /\ Attended'
<1> USE DEF children, plans, counts, center, config
<1>a. /\ worker \in Workers /\ own \in Families /\ Stopping(own) \in Families
      /\ Stopping(own).publisher # "live" /\ orphans \subseteq Lost
  BY StoppingTypes DEF MediaTypes, MediaTypeOK, Families, Kids, Lost
<1>b. UNCHANGED <<center, link, leases, config, loop, connected, room>>
  BY DEF Worker
<1>c. ASSUME worker' \in Workers, own' \in Families, orphans' \subseteq Lost,
             threads' \subseteq Preparing, hwFailed' \in BOOLEAN,
             prepared' \in [key : Sources \cup {"none"}, plan : Plans],
             updates' \in 0 .. MaxUpdates, faults' \in 0 .. MaxFaults
      PROVE  MediaTypes'
  BY <1>b, <1>c DEF MediaTypes, MediaTypeOK, Families, Kids, Lost, Workers, WorkerPcs
<1>d. /\ threads \subseteq Preparing /\ hwFailed \in BOOLEAN
      /\ prepared \in [key : Sources \cup {"none"}, plan : Plans]
      /\ updates \in 0 .. MaxUpdates /\ faults \in 0 .. MaxFaults
  BY DEF MediaTypes, MediaTypeOK
<1>e. ASSUME Fault PROVE faults' \in 0 .. MaxFaults
  BY <1>d, <1>e DEF Fault
\* The worker is there, so the loop does not connect; nobody begins to wait.
<1>f. ASSUME worker.pc # "none", worker'.pc # "none" => loop.pc \notin {"token", "preparing"},
             \A t \in threads' : t \in threads, worker.pc # "plan", ChildrenKnown', orphans' = orphans
      PROVE  Attended'
  BY <1>b, <1>f DEF Attended, PlanAwaited, OneWorker, PublisherIsTold
<1>g. worker.pc # "none" => loop.pc \notin {"token", "preparing"}
  BY DEF Attended, OneWorker
<1>1. CASE Wake
  <2>1. worker' \in Workers /\ worker'.pc \in {"create", "lock", "token"}
    BY <1>1, <1>a DEF Wake, Workers, WorkerPcs
  <2>2. MediaTypes'
    BY <1>1, <1>a, <1>c, <1>d, <2>1 DEF Wake
  <2>3. ChildrenKnown'
    BY <1>1, <2>1 DEF Wake, Attended, ChildrenKnown, ChildlessPcs
  <2> QED
    BY <1>1, <1>f, <1>g, <2>2, <2>3 DEF Wake
<1>2. CASE TakeLock
  <2>1. worker' \in Workers /\ worker'.pc = "plan"
    BY <1>2, <1>a DEF TakeLock, Workers, WorkerPcs
  <2>2. threads' \subseteq Preparing /\ prepared' \in [key : Sources \cup {"none"}, plan : Plans]
    <3>1. source \in Sources
      BY DEF MediaTypes, MediaTypeOK
    <3> QED
      BY <1>2, <1>d, <3>1, ConstantTypes DEF TakeLock, Preparing
  <2>3. MediaTypes'
    BY <1>2, <1>a, <1>c, <1>d, <2>1, <2>2 DEF TakeLock
  <2>4. ChildrenKnown'
    BY <1>2, <2>1 DEF TakeLock, Attended, ChildrenKnown, ChildlessPcs
  <2>5. PlanAwaited'
    <3>1. \A t \in threads : t.for # "refresh"
      BY <1>2 DEF TakeLock, Attended, PlanAwaited
    <3>2. /\ threads' = threads \cup {[for |-> "refresh", key |-> source, at |-> "waiting",
                                      plan |-> NoPlan]}
          /\ loop' = loop
      BY <1>2, <1>b DEF TakeLock
    <3> QED
      BY <2>1, <3>1, <3>2 DEF Attended, PlanAwaited
  <2> QED
    BY <1>2, <1>b, <1>g, <2>1, <2>3, <2>4, <2>5 DEF TakeLock, Attended, OneWorker, PublisherIsTold
<1>3. CASE Publish
  <2>1. CASE /\ own' = [own EXCEPT !.publisher = "live"]
             /\ worker' = [worker EXCEPT !.pc = IF worker.plan.mode = "direct" THEN "run" ELSE "bridge"]
             /\ UNCHANGED <<hwFailed, counts>>
    <3>1. worker' \in Workers /\ worker'.pc \in {"run", "bridge"} /\ own' \in Families
      BY <1>a, <2>1 DEF Workers, WorkerPcs, Families, Kids
    <3>2. MediaTypes'
      BY <1>3, <1>a, <1>c, <1>d, <2>1, <3>1 DEF Publish
    <3> QED
      BY <1>3, <1>f, <1>g, <3>1, <3>2 DEF Publish, ChildrenKnown, ChildlessPcs
  <2>2. CASE Fault /\ UNCHANGED <<own, updates>> /\ Handled({}, FALSE)
    <3>1. own = NoChild
      BY <1>3 DEF Publish, Attended, ChildrenKnown, ChildlessPcs
    <3>2. hwFailed' \in BOOLEAN /\ worker' \in Workers /\ worker'.pc = "sleep"
      BY <2>2, <3>1, HandledTypes
    <3>3. MediaTypes'
      BY <1>3, <1>a, <1>c, <1>d, <1>e, <2>2, <3>2 DEF Publish
    <3> QED
      BY <1>3, <1>f, <1>g, <2>2, <3>1, <3>2, <3>3 DEF Publish, ChildrenKnown
  <2> QED
    BY <1>3, <2>1, <2>2 DEF Publish
<1>4. CASE Capture
  <2>1. CASE /\ own' = [own EXCEPT !.ffmpeg = "live"] /\ worker' = [worker EXCEPT !.pc = "run"]
             /\ UNCHANGED <<hwFailed, counts>>
    <3>1. worker' \in Workers /\ worker'.pc = "run" /\ own' \in Families
      BY <1>a, <2>1 DEF Workers, WorkerPcs, Families, Kids
    <3>2. MediaTypes'
      BY <1>4, <1>a, <1>c, <1>d, <2>1, <3>1 DEF Capture
    <3> QED
      BY <1>4, <1>f, <1>g, <3>1, <3>2 DEF Capture, ChildrenKnown, ChildlessPcs
  <2>2. CASE Fault /\ own' = Stopping(own) /\ UNCHANGED updates /\ Handled({}, FALSE)
    <3>1. /\ hwFailed' \in BOOLEAN /\ worker' \in Workers
          /\ worker'.pc = IF own' = NoChild THEN "sleep" ELSE "final"
      BY <2>2, HandledTypes
    <3>2. MediaTypes'
      BY <1>4, <1>a, <1>c, <1>d, <1>e, <2>2, <3>1 DEF Capture
    <3>3. ChildrenKnown'
      BY <1>a, <2>2, <3>1 DEF ChildrenKnown, ChildlessPcs
    <3> QED
      BY <1>4, <1>f, <1>g, <3>1, <3>2, <3>3 DEF Capture
  <2> QED
    BY <1>4, <2>1, <2>2 DEF Capture
<1>5. CASE SeeExit
  <2>1. worker' \in Workers /\ worker'.pc = "halt"
    <3>1. PICK ended : ended \subseteq Kids /\ worker' = [worker EXCEPT !.pc = "halt", !.ended = ended]
      <4>1. {p \in Expected(worker.plan) : own[p] = "none"} \subseteq Kids
        BY DEF Expected, Kids
      <4> QED
        BY <1>5, <4>1 DEF SeeExit
    <3> QED
      BY <1>a, <3>1 DEF Workers, WorkerPcs
  <2>2. MediaTypes'
    BY <1>5, <1>a, <1>c, <1>d, <2>1 DEF SeeExit
  <2>3. ChildrenKnown'
    BY <1>5, <1>a, <2>1 DEF SeeExit, ChildrenKnown, ChildlessPcs
  <2> QED
    BY <1>5, <1>f, <1>g, <2>2, <2>3 DEF SeeExit
<1>6. CASE Stall
  <2>1. /\ hwFailed' \in BOOLEAN /\ worker' \in Workers
        /\ worker'.pc = IF own' = NoChild THEN "sleep" ELSE "final"
    BY <1>6, HandledTypes DEF Stall
  <2>2. MediaTypes'
    BY <1>6, <1>a, <1>c, <1>d, <1>e, <2>1 DEF Stall
  <2>3. ChildrenKnown'
    BY <1>6, <1>a, <2>1 DEF Stall, ChildrenKnown, ChildlessPcs
  <2> QED
    BY <1>6, <1>f, <1>g, <2>1, <2>2, <2>3 DEF Stall
<1>7. CASE StopNext
  <2>1. MediaTypes'
    BY <1>7, <1>a, <1>c, <1>d DEF StopNext
  <2>2. ChildrenKnown'
    BY <1>7, <1>a DEF StopNext, ChildrenKnown, ChildlessPcs
  <2> QED
    BY <1>7, <1>f, <1>g, <2>1, <2>2 DEF StopNext
<1>8. CASE EndHalt
  <2>1. PICK keyframe \in BOOLEAN : Handled(worker.ended, keyframe)
    BY <1>8 DEF EndHalt
  <2>2. hwFailed' \in BOOLEAN /\ worker' \in Workers /\ worker'.pc = "sleep" /\ own' = NoChild
    BY <1>8, <2>1, HandledTypes DEF EndHalt, Stopped
  <2>3. MediaTypes'
    BY <1>8, <1>a, <1>c, <1>d, <2>2 DEF EndHalt
  <2> QED
    BY <1>8, <1>f, <1>g, <2>2, <2>3 DEF EndHalt, ChildrenKnown
<1>9. CASE EndFinal
  <2>1. worker' \in Workers /\ worker'.pc \in {"none", "sleep"} /\ own' = NoChild
    BY <1>9, <1>a, ConstantTypes DEF EndFinal, Stopped, NoWorker, Workers, WorkerPcs
  <2>2. MediaTypes'
    BY <1>9, <1>a, <1>c, <1>d, <2>1 DEF EndFinal
  <2> QED
    BY <1>9, <1>f, <1>g, <2>1, <2>2 DEF EndFinal, ChildrenKnown
<1> QED
  BY <1>1, <1>2, <1>3, <1>4, <1>5, <1>6, <1>7, <1>8, <1>9 DEF Worker

-----------------------------------------------------------------------------
(* The media loop.                                                         *)

\* Where the loop stands, nobody waits to connect.
LEMMA NobodyConnects ==
  ASSUME MediaTypes, Attended, loop.pc # "preparing"
  PROVE  \A t \in Forsaken({"refresh"}) : t.for = "nobody"
<1> SUFFICES ASSUME NEW t \in Forsaken({"refresh"}), t.for # "nobody" PROVE FALSE
  OBVIOUS
<1>1. t \in threads /\ t.for # "refresh"
  BY ForsakenTypes
<1>2. t.for \in {"connect", "refresh", "nobody"}
  BY <1>1 DEF MediaTypes, Preparing
<1> QED
  BY <1>1, <1>2 DEF Attended, PlanAwaited

LEMMA LoopStep ==
  ASSUME MediaTypes, Attended, Loop
  PROVE  MediaTypes' /\ Attended'
<1> USE DEF children, plans, counts, center, config
<1>a. UNCHANGED <<center, source, update, pipeline>>
  BY DEF Loop
<1>b. /\ worker \in Workers /\ own \in Families /\ orphans \subseteq Lost
      /\ threads \subseteq Preparing /\ loop \in Loops /\ leases \subseteq Leases
      /\ restart \in BOOLEAN /\ connected \in BOOLEAN /\ link \in {"up", "ending", "down"}
      /\ room \in {"none", "live", "lost"} /\ faults \in 0 .. MaxFaults /\ source \in Sources
  BY DEF MediaTypes, MediaTypeOK, Families, Kids, Lost
<1>c. ASSUME worker' \in Workers, own' \in Families, orphans' \subseteq Lost,
             threads' \subseteq Preparing, loop' \in Loops, leases' \subseteq Leases,
             restart' \in BOOLEAN, connected' \in BOOLEAN, link' \in {"up", "ending", "down"},
             room' \in {"none", "live", "lost"}, faults' \in 0 .. MaxFaults,
             UNCHANGED <<prepared, hwFailed, updates>>
      PROVE  MediaTypes'
  BY <1>a, <1>c DEF MediaTypes, MediaTypeOK, Families, Kids, Lost, Workers, WorkerPcs, Loops, LoopPcs
<1>d. ASSUME Fault PROVE faults' \in 0 .. MaxFaults
  BY <1>b, <1>d DEF Fault
<1>e. ASSUME NEW next \in Afterwards, Disconnect(next), threads' = Forsaken({"refresh"}),
             loop.pc \notin {"off", "preparing"}, link' = link
      PROVE  /\ worker' \in Workers /\ own' \in Families /\ orphans' \subseteq Lost
             /\ threads' \subseteq Preparing /\ loop' \in Loops /\ connected' \in BOOLEAN
             /\ Attended'
  <2>1. link # "down"
    BY <1>e DEF Attended, OneWorker
  <2>2. \A t \in threads' : t.for = "nobody"
    BY <1>e, NobodyConnects
  <2>3. Attended'
    BY <1>e, <2>1, <2>2, DisconnectIsTold DEF Disconnect
  <2> QED
    BY <1>e, <2>3, DisconnectTypes, ForsakenTypes
<1>1. CASE Turn
  <2>1. CASE /\ loop' \in {LoopAt("idle"), LoopAt("watch")}
             /\ UNCHANGED <<restart, connected, worker, children, threads>>
    <3>1. loop' \in Loops /\ loop'.pc \in {"idle", "watch"}
      BY <2>1, ConstantTypes DEF LoopPcs
    <3>2. MediaTypes'
      BY <1>1, <1>b, <1>c, <2>1, <3>1 DEF Turn
    <3>3. Attended'
      BY <1>1, <2>1, <3>1 DEF Turn, Attended, ChildrenKnown, PlanAwaited, OneWorker, PublisherIsTold
    <3> QED
      BY <3>2, <3>3
  <2>2. CASE /\ Disconnect("idle") \/ Disconnect("token")
             /\ threads' = Forsaken({"refresh"}) /\ restart' \in BOOLEAN
    <3>1. "idle" \in Afterwards /\ "token" \in Afterwards
      BY DEF Afterwards
    <3>2. /\ worker' \in Workers /\ own' \in Families /\ orphans' \subseteq Lost
          /\ threads' \subseteq Preparing /\ loop' \in Loops /\ connected' \in BOOLEAN
          /\ Attended'
      BY <1>1, <1>e, <2>2, <3>1 DEF Turn
    <3> QED
      BY <1>1, <1>b, <1>c, <2>2, <3>2 DEF Turn
  <2> QED
    BY <1>1, <1>b, <2>1, <2>2 DEF Turn
<1>2. CASE Closed
  <2>1. loop' \in Loops /\ loop'.pc \in {"idle", "token", "backoff", "off"}
    <3>1. loop.next \in Afterwards
      BY <1>2, <1>b DEF Closed, Loops
    <3>2. loop' \in {LoopAt("idle"), LoopAt("token"), LoopAt("backoff"), LoopAt("off")}
      BY <1>2, <3>1 DEF Closed, Afterwards
    <3> QED
      BY <3>2, ConstantTypes DEF LoopPcs
  <2>2. link' \in {"up", "ending", "down"} /\ leases' = leases
    BY <1>2, <1>b DEF Closed
  <2>3. MediaTypes'
    BY <1>2, <1>b, <1>c, <2>1, <2>2 DEF Closed
  <2>4. link' = "down" => loop'.pc = "off"
    <3>1. CASE link' = link
      BY <1>2, <3>1 DEF Closed, Attended, OneWorker
    <3>2. CASE loop.next = "down"
      BY <1>2, <3>2 DEF Closed, LoopAt
    <3> QED
      BY <1>2, <3>1, <3>2 DEF Closed
  <2>5. Attended'
    BY <1>2, <2>1, <2>4 DEF Closed, Attended, ChildrenKnown, PlanAwaited, OneWorker, PublisherIsTold
  <2> QED
    BY <2>3, <2>5
<1>3. CASE Join
  <2>a. /\ loop.pc = "token" /\ worker.pc = "none" /\ own = NoChild /\ link # "down"
        /\ \A t \in threads : t.for = "nobody"
        /\ UNCHANGED <<link, leases, restart, prepared, hwFailed, updates>> /\ room' = "live"
    BY <1>3, <1>b DEF Join, Attended, OneWorker, ChildrenKnown, ChildlessPcs, PlanAwaited, Preparing
  <2>1. CASE /\ loop' = LoopAt("preparing")
             /\ threads' = threads \cup {[for |-> "connect", key |-> source, at |-> "waiting",
                                          plan |-> NoPlan]}
             /\ UNCHANGED <<connected, worker, children, faults>>
    <3>1. threads' \subseteq Preparing
      BY <1>b, <2>1, ConstantTypes DEF Preparing
    <3>2. loop' \in Loops /\ loop'.pc = "preparing"
      BY <2>1, ConstantTypes DEF LoopPcs
    <3>3. MediaTypes'
      BY <1>b, <1>c, <2>a, <2>1, <3>1, <3>2
    <3>4. PlanAwaited'
      BY <2>a, <2>1, <3>2 DEF PlanAwaited
    <3> QED
      BY <2>a, <2>1, <3>2, <3>3, <3>4 DEF Attended, ChildrenKnown, OneWorker, PublisherIsTold
  <2>2. CASE /\ loop' = LoopAt("audio") /\ worker' = [NoWorker EXCEPT !.pc = "create"]
             /\ UNCHANGED <<connected, children, threads, faults>>
    <3>1. worker' \in Workers /\ worker'.pc = "create"
      BY <2>2, ConstantTypes DEF Workers, WorkerPcs
    <3>2. loop' \in Loops /\ loop'.pc = "audio"
      BY <2>2, ConstantTypes DEF LoopPcs
    <3>3. MediaTypes'
      BY <1>b, <1>c, <2>a, <2>2, <3>1, <3>2
    <3> QED
      BY <2>a, <2>2, <3>1, <3>2, <3>3
         DEF Attended, ChildrenKnown, PlanAwaited, OneWorker, PublisherIsTold
  <2>3. CASE Fault /\ ConnectFails
    <3>1. "backoff" \in Afterwards
      BY DEF Afterwards
    <3>2. /\ worker' \in Workers /\ own' \in Families /\ orphans' \subseteq Lost
          /\ threads' \subseteq Preparing /\ loop' \in Loops /\ connected' \in BOOLEAN
          /\ Attended'
      BY <1>e, <2>a, <2>3, <3>1 DEF ConnectFails
    <3> QED
      BY <1>b, <1>c, <1>d, <2>a, <2>3, <3>2
  <2> QED
    BY <1>3, <2>1, <2>2, <2>3 DEF Join
<1>4. CASE Connected
  <2>a. /\ loop.pc = "audio"
        /\ UNCHANGED <<link, leases, restart, room, prepared, hwFailed, counts>>
    BY <1>4 DEF Connected
  <2>1. CASE /\ connected' = TRUE /\ loop' = LoopAt("watch")
             /\ UNCHANGED <<worker, children, threads>>
    <3>1. loop' \in Loops /\ loop'.pc = "watch"
      BY <2>1, ConstantTypes DEF LoopPcs
    <3>2. MediaTypes'
      BY <1>b, <1>c, <2>a, <2>1, <3>1
    <3>3. Attended'
      BY <2>a, <2>1, <3>1 DEF Attended, ChildrenKnown, PlanAwaited, OneWorker, PublisherIsTold
    <3> QED
      BY <3>2, <3>3
  <2>2. CASE ConnectFails
    <3>1. "backoff" \in Afterwards
      BY DEF Afterwards
    <3>2. /\ worker' \in Workers /\ own' \in Families /\ orphans' \subseteq Lost
          /\ threads' \subseteq Preparing /\ loop' \in Loops /\ connected' \in BOOLEAN
          /\ Attended'
      BY <1>e, <2>a, <2>2, <3>1 DEF ConnectFails
    <3> QED
      BY <1>b, <1>c, <2>a, <3>2
  <2> QED
    BY <1>4, <2>1, <2>2 DEF Connected
<1> QED
  BY <1>1, <1>2, <1>3, <1>4 DEF Loop

LEMMA RoomStep ==
  ASSUME MediaTypes, Attended, LoseRoom
  PROVE  MediaTypes' /\ Attended'
<1> USE DEF children, plans, counts, center, config
<1>1. faults' \in 0 .. MaxFaults
  BY DEF LoseRoom, Fault, MediaTypes, MediaTypeOK
<1>2. /\ room' \in {"none", "live", "lost"} /\ connected' \in BOOLEAN
      /\ UNCHANGED <<session, renewing, link, leases, restart, source, update, pipeline, loop,
                    worker, own, orphans, threads, prepared, hwFailed, updates>>
  BY DEF LoseRoom
<1>3. MediaTypes'
  BY <1>1, <1>2 DEF MediaTypes, MediaTypeOK
<1> QED
  BY <1>2, <1>3, SameWorkerIsAttended

-----------------------------------------------------------------------------
(* The gateway link.                                                       *)

LEMMA GatewayStep ==
  ASSUME MediaTypes, Attended, Gateway
  PROVE  MediaTypes' /\ Attended'
<1> USE DEF children, plans, counts, center, config
<1>a. UNCHANGED <<center, pipeline>>
  BY DEF Gateway
<1>b. /\ worker \in Workers /\ own \in Families /\ orphans \subseteq Lost
      /\ threads \subseteq Preparing /\ loop \in Loops /\ leases \subseteq Leases
      /\ restart \in BOOLEAN /\ connected \in BOOLEAN /\ link \in {"up", "ending", "down"}
      /\ update \in {"settled", "sending", "unsaved"} /\ source \in Sources
      /\ updates \in 0 .. MaxUpdates /\ faults \in 0 .. MaxFaults
  BY DEF MediaTypes, MediaTypeOK, Families, Kids, Lost
<1>c. ASSUME worker' \in Workers, own' \in Families, orphans' \subseteq Lost,
             threads' \subseteq Preparing, loop' \in Loops, leases' \subseteq Leases,
             restart' \in BOOLEAN, connected' \in BOOLEAN, link' \in {"up", "ending", "down"},
             update' \in {"settled", "sending", "unsaved"}, source' \in Sources,
             updates' \in 0 .. MaxUpdates, faults' \in 0 .. MaxFaults,
             UNCHANGED <<room, prepared, hwFailed>>
      PROVE  MediaTypes'
  BY <1>a, <1>c DEF MediaTypes, MediaTypeOK, Families, Kids, Lost, Workers, WorkerPcs, Loops, LoopPcs
<1>d. ASSUME Fault PROVE faults' \in 0 .. MaxFaults
  BY <1>b, <1>d DEF Fault
<1>e. ASSUME updates < MaxUpdates, updates' = updates + 1 PROVE updates' \in 0 .. MaxUpdates
  BY <1>b, <1>e
<1>1. CASE LinkUp
  <2>1. loop' \in Loops /\ loop'.pc = "idle" /\ link' = "up"
    BY <1>1, ConstantTypes DEF LinkUp, LoopPcs
  <2>2. /\ threads' \subseteq Preparing
        /\ \A t \in threads' : t.for = "nobody" \/ t \in threads
    BY <1>1, <1>b, ConstantTypes DEF LinkUp, Preparing
  <2>3. MediaTypes'
    BY <1>1, <1>b, <1>c, <2>1, <2>2 DEF LinkUp
  <2>4. \A t \in threads : t.for # "connect"
    BY <1>1 DEF LinkUp, Attended, OneWorker, PlanAwaited
  <2>5. PlanAwaited'
    BY <1>1, <2>2, <2>4 DEF LinkUp, Attended, PlanAwaited
  <2> QED
    BY <1>1, <2>1, <2>3, <2>5 DEF LinkUp, Attended, ChildrenKnown, OneWorker, PublisherIsTold
<1>2. CASE LinkDrops
  <2> DEFINE Left == {"connect"} \cup IF loop.pc = "closing" THEN {"refresh"} ELSE {}
  <2>a. /\ link' = "ending" /\ threads' = Forsaken(Left) /\ Fault
        /\ UNCHANGED <<leases, restart, source, connected, room, prepared, hwFailed, updates>>
        /\ update' \in {"settled", "sending", "unsaved"}
    BY <1>2, <1>b DEF LinkDrops
  <2> HIDE DEF Left
  <2>b. /\ threads' \subseteq Preparing
        /\ \A t \in threads' : t.for \in Left => t.for = "nobody"
        /\ \A t \in threads' : t.for # "nobody" => t \in threads
    BY <2>a, ForsakenTypes
  <2>1. CASE loop.pc = "closing" /\ worker.pc # "none"
    <3>1. loop' = [loop EXCEPT !.next = "off"] /\ CancelWorker
      BY <1>2, <2>1 DEF LinkDrops
    <3>2. loop' \in Loops /\ loop'.pc = "closing"
      BY <1>b, <2>1, <3>1 DEF Loops, Afterwards
    <3>3. \A t \in threads' : t.for = "nobody"
      BY <2>1, <2>b DEF Left, Preparing
    <3>4. MediaTypes'
      BY <1>b, <1>c, <1>d, <2>a, <2>b, <3>1, <3>2, CancelTypes
    <3> QED
      BY <2>a, <3>1, <3>2, <3>3, <3>4, DisconnectIsTold
  <2>2. CASE ~(loop.pc = "closing" /\ worker.pc # "none")
    <3>1. loop' = LoopAt("off") /\ UNCHANGED <<worker, children>>
      BY <1>2, <2>2 DEF LinkDrops
    <3>2. loop' \in Loops /\ loop'.pc = "off"
      BY <3>1, ConstantTypes DEF LoopPcs
    <3>3. MediaTypes'
      BY <1>b, <1>c, <1>d, <2>a, <2>b, <3>1, <3>2
    <3>4. \A t \in threads' : t.for # "connect"
      BY <2>b DEF Left
    <3>5. PlanAwaited'
      BY <2>b, <3>1, <3>4 DEF Attended, PlanAwaited
    <3> QED
      BY <2>a, <3>1, <3>2, <3>3, <3>5 DEF Attended, ChildrenKnown, OneWorker, PublisherIsTold
  <2> QED
    BY <2>1, <2>2
<1>3. CASE LeaveLink
  <2>1. /\ loop.pc = "off" /\ link' = "ending" /\ leases' = {} /\ Disconnect("down")
        /\ threads' = Forsaken({"refresh"})
        /\ UNCHANGED <<restart, source, update, room, prepared, hwFailed, counts>>
    BY <1>3 DEF LeaveLink
  <2>2. "down" \in Afterwards
    BY DEF Afterwards
  <2>3. MediaTypes'
    BY <1>b, <1>c, <2>1, <2>2, DisconnectTypes, ForsakenTypes
  <2>4. \A t \in threads' : t.for = "nobody"
    BY <2>1, NobodyConnects
  <2> QED
    BY <2>1, <2>2, <2>3, <2>4, DisconnectIsTold, DisconnectTypes DEF Disconnect
<1>4. CASE Configure
  <2>1. /\ update' \in {"settled", "sending", "unsaved"} /\ source' \in Sources
        /\ updates' \in 0 .. MaxUpdates /\ faults' \in 0 .. MaxFaults
    BY <1>4, <1>b, <1>d, <1>e DEF Configure
  <2>2. MediaTypes'
    BY <1>4, <1>b, <1>c, <2>1 DEF Configure
  <2> QED
    BY <1>4, <2>2, SameWorkerIsAttended DEF Configure
<1>5. CASE ConfigurationSent
  <2>1. /\ threads' \subseteq Preparing
        /\ \A t \in threads' : t.for = "nobody" \/ t \in threads
    BY <1>5, <1>b, ConstantTypes DEF ConfigurationSent, Warm, Preparing
  <2>2. MediaTypes'
    BY <1>5, <1>b, <1>c, <2>1 DEF ConfigurationSent
  <2> QED
    BY <1>5, <2>1, <2>2, SameWorkerIsAttended DEF ConfigurationSent
<1>6. CASE SelectCamera
  <2>1. MediaTypes'
    BY <1>6, <1>b, <1>c, <1>e DEF SelectCamera
  <2> QED
    BY <1>6, <2>1, SameWorkerIsAttended DEF SelectCamera
<1> QED
  BY <1>1, <1>2, <1>3, <1>4, <1>5, <1>6 DEF Gateway

-----------------------------------------------------------------------------
(* The threads.                                                            *)

LEMMA BuiltTypes ==
  ASSUME MediaTypes PROVE Built \in Plans
<1>1. source \in Sources
  BY DEF MediaTypes, MediaTypeOK
<1> QED
  BY <1>1 DEF Built, Plan, Plans, Encoder

\* What comes back reaches the one coroutine that waits.
LEMMA ReturnStep ==
  ASSUME MediaTypes, Attended, NEW t \in threads, NEW plan \in Plans, Return(t, plan),
         threads' = threads \ {t}, link' = link
  PROVE  /\ worker' \in Workers /\ own' \in Families /\ orphans' \subseteq Lost
         /\ loop' \in Loops /\ connected' \in BOOLEAN /\ Attended'
<1> USE DEF children
<1>b. /\ worker \in Workers /\ own \in Families /\ orphans \subseteq Lost
      /\ loop \in Loops /\ connected \in BOOLEAN /\ t.for \in {"connect", "refresh", "nobody"}
      /\ t \in Preparing /\ threads \subseteq Preparing
  BY DEF MediaTypes, MediaTypeOK, Families, Kids, Lost, Preparing
<1>1. CASE t.for = "connect"
  <2>1. loop.pc = "preparing" /\ worker.pc = "none" /\ own = NoChild /\ link # "down"
    BY <1>1 DEF Attended, PlanAwaited, OneWorker, ChildrenKnown, ChildlessPcs
  <2>2. \A u \in threads' : u.for = "nobody"
    <3>1. ASSUME NEW u \in threads', u.for # "nobody" PROVE FALSE
      <4>1. u \in threads /\ u # t /\ u.for \in {"connect", "refresh"}
        BY <1>b, <3>1 DEF Preparing
      <4> QED
        BY <1>1, <2>1, <4>1 DEF Attended, PlanAwaited
    <3> QED
      BY <3>1
  <2>3. CASE plan # NoPlan
    <3>1. /\ worker' = [NoWorker EXCEPT !.pc = "token", !.plan = plan]
          /\ loop' = LoopAt("audio") /\ UNCHANGED <<connected, children>>
      BY <1>1, <2>3 DEF Return
    <3>2. worker' \in Workers /\ worker'.pc = "token"
      BY <3>1, ConstantTypes DEF Workers, WorkerPcs
    <3>3. loop' \in Loops /\ loop'.pc = "audio"
      BY <3>1, ConstantTypes DEF LoopPcs
    <3>4. Attended'
      BY <2>1, <2>2, <3>1, <3>2, <3>3
         DEF Attended, ChildrenKnown, PlanAwaited, OneWorker, PublisherIsTold
    <3> QED
      BY <1>b, <3>1, <3>2, <3>3, <3>4
  <2>4. CASE plan = NoPlan
    <3>1. Disconnect("backoff") /\ "backoff" \in Afterwards
      BY <1>1, <2>4 DEF Return, Afterwards
    <3>2. Attended'
      BY <2>1, <2>2, <3>1, DisconnectIsTold, DisconnectTypes DEF Disconnect
    <3> QED
      BY <3>1, <3>2, DisconnectTypes
  <2> QED
    BY <2>3, <2>4
<1>2. CASE t.for = "refresh"
  <2>1. worker.pc = "plan" /\ own = NoChild /\ loop.pc \notin {"token", "preparing"}
    BY <1>2 DEF Attended, PlanAwaited, OneWorker, ChildrenKnown, ChildlessPcs
  <2>2. \A u \in threads' : u.for # "refresh" /\ u.for # "connect" /\ u \in threads
    BY <1>2, <2>1 DEF Attended, PlanAwaited
  <2>3. /\ UNCHANGED <<loop, connected, children>>
        /\ \/ worker' = [worker EXCEPT !.pc = "token", !.plan = plan, !.refresh = FALSE]
           \/ worker' = [worker EXCEPT !.pc = "sleep"]
    BY <1>2 DEF Return
  <2>4. worker' \in Workers /\ worker'.pc \in {"token", "sleep"}
    BY <1>b, <2>3 DEF Workers, WorkerPcs
  <2>5. PlanAwaited'
    BY <2>2, <2>3 DEF Attended, PlanAwaited
  <2>6. Attended'
    BY <2>1, <2>3, <2>4, <2>5 DEF Attended, ChildrenKnown, OneWorker, PublisherIsTold, ChildlessPcs
  <2> QED
    BY <1>b, <2>3, <2>4, <2>6
<1>3. CASE t.for = "nobody"
  <2>1. UNCHANGED <<loop, connected, worker, children>>
    BY <1>3 DEF Return
  <2>2. Attended'
    BY <2>1, SameWorkerIsAttended
  <2> QED
    BY <1>b, <2>1, <2>2
<1> QED
  BY <1>b, <1>1, <1>2, <1>3

LEMMA ThreadStep ==
  ASSUME MediaTypes, Attended, Thread
  PROVE  MediaTypes' /\ Attended'
<1> USE DEF children, plans, counts, center, config
<1>a. UNCHANGED <<center, link, leases, config, room, hwFailed, updates>>
  BY DEF Thread
<1>b. /\ worker \in Workers /\ own \in Families /\ orphans \subseteq Lost
      /\ threads \subseteq Preparing /\ loop \in Loops /\ connected \in BOOLEAN
      /\ faults \in 0 .. MaxFaults /\ prepared \in [key : Sources \cup {"none"}, plan : Plans]
  BY DEF MediaTypes, MediaTypeOK, Families, Kids, Lost
<1>c. ASSUME worker' \in Workers, own' \in Families, orphans' \subseteq Lost,
             threads' \subseteq Preparing, loop' \in Loops, connected' \in BOOLEAN,
             prepared' \in [key : Sources \cup {"none"}, plan : Plans], faults' \in 0 .. MaxFaults
      PROVE  MediaTypes'
  BY <1>a, <1>c DEF MediaTypes, MediaTypeOK, Families, Kids, Lost, Workers, WorkerPcs, Loops, LoopPcs
<1>d. ASSUME Fault PROVE faults' \in 0 .. MaxFaults
  BY <1>b, <1>d DEF Fault
<1>1. PICK t \in threads : Enter(t) \/ Build(t)
  BY DEF Thread
<1>t. t \in Preparing
  BY <1>b
<1>2. CASE Enter(t) /\ prepared.key = t.key
  <2>1. /\ threads' = threads \ {t} /\ Return(t, prepared.plan)
        /\ UNCHANGED <<prepared, faults>> /\ link' = link
    BY <1>2, <1>a DEF Enter
  <2>2. prepared.plan \in Plans
    BY <1>b
  <2>3. /\ worker' \in Workers /\ own' \in Families /\ orphans' \subseteq Lost
        /\ loop' \in Loops /\ connected' \in BOOLEAN /\ Attended'
    BY <2>1, <2>2, ReturnStep
  <2> QED
    BY <1>b, <1>c, <2>1, <2>3
<1>3. CASE Enter(t) /\ prepared.key # t.key
  <2>1. /\ threads' = (threads \ {t}) \cup {[t EXCEPT !.at = "building", !.plan = Built]}
        /\ UNCHANGED <<loop, connected, worker, children, prepared, faults>>
    BY <1>3 DEF Enter
  <2>2. /\ [t EXCEPT !.at = "building", !.plan = Built] \in Preparing
        /\ [t EXCEPT !.at = "building", !.plan = Built].for = t.for
    BY <1>t, BuiltTypes DEF Preparing
  <2>3. MediaTypes'
    BY <1>b, <1>c, <2>1, <2>2
  <2>4. PlanAwaited'
    BY <2>1, <2>2 DEF Attended, PlanAwaited
  <2> QED
    BY <1>a, <2>1, <2>3, <2>4 DEF Attended, ChildrenKnown, OneWorker, PublisherIsTold
<1>4. CASE Build(t)
  <2>1. threads' = threads \ {t} /\ link' = link
    BY <1>4, <1>a DEF Build
  <2>2. PICK plan \in Plans : /\ Return(t, plan) /\ faults' \in 0 .. MaxFaults
                             /\ prepared' \in [key : Sources \cup {"none"}, plan : Plans]
    <3>1. t.plan \in Plans /\ t.key \in Sources
      BY <1>t DEF Preparing
    <3> QED
      BY <1>4, <1>b, <1>d, <3>1, ConstantTypes DEF Build
  <2>3. /\ worker' \in Workers /\ own' \in Families /\ orphans' \subseteq Lost
        /\ loop' \in Loops /\ connected' \in BOOLEAN /\ Attended'
    BY <2>1, <2>2, ReturnStep
  <2> QED
    BY <1>b, <1>c, <2>1, <2>2, <2>3
<1> QED
  BY <1>1, <1>2, <1>3, <1>4

-----------------------------------------------------------------------------
(* The children.                                                           *)

LEMMA SystemStep ==
  ASSUME MediaTypes, Attended, System
  PROVE  MediaTypes' /\ Attended'
<1> USE DEF children, plans, counts, center, config
<1>a. UNCHANGED Others
  BY DEF System, Ends, OrphansEnd
<1>b. own \in Families /\ orphans \subseteq Lost /\ faults \in 0 .. MaxFaults /\ DOMAIN own = Kids
  BY DEF MediaTypes, MediaTypeOK, Families, Kids, Lost
<1>c. ASSUME own' \in Families, orphans' \subseteq Lost, faults' \in 0 .. MaxFaults
      PROVE  MediaTypes'
  BY <1>a, <1>c DEF Others, MediaTypes, MediaTypeOK, Families, Kids, Lost
<1>d. ASSUME ChildrenKnown', orphans' \subseteq orphans PROVE Attended'
  BY <1>a, <1>d DEF Others, Attended, PlanAwaited, OneWorker, PublisherIsTold
<1>1. ASSUME NEW p \in Kids, ChildStops(p) PROVE MediaTypes' /\ Attended'
  <2>1. own' \in Families /\ MediaTypes'
    BY <1>1, <1>b, <1>c DEF ChildStops, Families
  <2>2. worker.pc \notin ChildlessPcs
    BY <1>1 DEF ChildStops, Attended, ChildrenKnown, NoChild, Kids
  <2>3. ChildrenKnown'
    BY <1>1, <1>a, <1>b, <2>2 DEF ChildStops, Others, Attended, ChildrenKnown, Families, Kids
  <2> QED
    BY <1>1, <1>d, <2>1, <2>3 DEF ChildStops
<1>2. ASSUME NEW p \in Kids, ChildFails(p) PROVE MediaTypes' /\ Attended'
  <2>1. faults' \in 0 .. MaxFaults
    <3>1. faults' = faults \/ Fault
      BY <1>2 DEF ChildFails
    <3> QED
      BY <1>b, <3>1 DEF Fault
  <2>2. own' \in Families /\ MediaTypes'
    BY <1>2, <1>b, <1>c, <2>1 DEF ChildFails, Families
  <2>3. ChildrenKnown'
    BY <1>2, <1>a DEF ChildFails, Others, ChildrenKnown, ChildlessPcs
  <2> QED
    BY <1>2, <1>d, <2>2, <2>3 DEF ChildFails
<1>3. ASSUME NEW o \in orphans, OrphanEnds(o) PROVE MediaTypes' /\ Attended'
  <2>1. MediaTypes'
    BY <1>3, <1>b, <1>c DEF OrphanEnds
  <2>2. ChildrenKnown'
    BY <1>3, <1>a DEF OrphanEnds, Others, Attended, ChildrenKnown
  <2> QED
    BY <1>3, <1>d, <2>1, <2>2 DEF OrphanEnds
<1> QED
  BY <1>b, <1>1, <1>2, <1>3 DEF System, Ends, OrphansEnd

-----------------------------------------------------------------------------
(* MediaStreaming: the theorems.                                           *)

LEMMA MediaInitially ==
  ASSUME MediaInit PROVE MediaTypes /\ Attended
<1>1. MediaTypes
  <2>1. MediaTypeOK
    <3>1. own = NoChild /\ worker = NoWorker /\ updates = 0 /\ faults = 0
      BY DEF MediaInit
    <3>2. own \in [{"publisher", "ffmpeg"} -> {"none", "live", "term"}]
      BY <3>1, ConstantTypes DEF Families, Kids
    <3>3. updates \in 0 .. MaxUpdates /\ faults \in 0 .. MaxFaults
      BY <3>1
    <3>4. worker.pc = "none"
      BY <3>1 DEF NoWorker
    <3> QED
      BY <3>2, <3>3, <3>4 DEF MediaInit, MediaTypeOK
  <2>2. loop \in Loops
    BY DEF MediaInit, Loops, LoopPcs
  <2> QED
    BY <2>1, <2>2, ConstantTypes DEF MediaInit, MediaTypes
<1>2. Attended
  BY DEF MediaInit, Attended, ChildrenKnown, PlanAwaited, OneWorker, PublisherIsTold, NoWorker
<1> QED
  BY <1>1, <1>2

LEMMA MediaStep ==
  ASSUME MediaTypes, Attended, [MediaNext]_mediaVars
  PROVE  MediaTypes' /\ Attended'
<1>1. CASE UNCHANGED mediaVars
  <2>1. MediaTypes'
    BY <1>1 DEF mediaVars, center, config, children, plans, counts, MediaTypes, MediaTypeOK
  <2> QED
    BY <1>1, <2>1, SameWorkerIsAttended DEF mediaVars, children, plans
<1>2. CASE MediaNext
  BY <1>2, CenterStep, WorkerStep, LoopStep, RoomStep, GatewayStep, ThreadStep, SystemStep
     DEF MediaNext, EventLoop
<1> QED
  BY <1>1, <1>2

\* The leases, the media loop, the worker, its children and the configuration keep their types.
THEOREM MediaTypeCorrect == MediaSpec => []MediaTypeOK
<1>1. MediaInit => MediaTypes /\ Attended
  BY MediaInitially
<1>2. MediaTypes /\ Attended /\ [MediaNext]_mediaVars => (MediaTypes /\ Attended)'
  BY MediaStep
<1>3. MediaTypes => MediaTypeOK
  BY DEF MediaTypes
<1> QED
  BY <1>1, <1>2, <1>3, PTL DEF MediaSpec

\* A worker that is cancelled, whatever it was doing, and cancelled again while it stops its
\* children, never leaves a publisher that nobody has told to end (MediaPublisher.disconnect,
\* _encoded_video_loop and its finally clause).
THEOREM NoCameraUnattended == MediaSpec => []PublisherIsTold
<1>1. MediaInit => MediaTypes /\ Attended
  BY MediaInitially
<1>2. MediaTypes /\ Attended /\ [MediaNext]_mediaVars => (MediaTypes /\ Attended)'
  BY MediaStep
<1>3. Attended => PublisherIsTold
  BY DEF Attended
<1> QED
  BY <1>1, <1>2, <1>3, PTL DEF MediaSpec
=============================================================================
