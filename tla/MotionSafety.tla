---------------------------- MODULE MotionSafety ----------------------------
(***************************************************************************)
(* The last node before the motors: MotionSafetyNode                       *)
(* (motion-safety/safety_node.py, safety_core.py).  Its callbacks keep the *)
(* newest message of every input and stop at once on a hard hazard; a      *)
(* 50 Hz timer publishes /cmd_vel and the interlock that the control       *)
(* bridge obeys.                                                           *)
(*                                                                         *)
(* A velocity is the set of directions its components point in.  A scan is *)
(* the set of directions it closes at the present speed, or it is empty.   *)
(* Elapse is one unit of time; the executor may be late by any number of   *)
(* units.  The slow-down factor is positive where a direction is open, so  *)
(* it does not change the set.  Only lidar_obstacle_avoidance_enabled =    *)
(* true, the value in config/safety.yaml, is modelled.                     *)
(***************************************************************************)
EXTENDS Naturals

CONSTANTS
  Travel,        \* directions of travel: front and rear in the code
  Turns,         \* directions of rotation: left and right in the code
  Commands,      \* velocities of the sources above the node
  Hard,          \* estop, cliff and bumper
  Soft,          \* range and external_stop
  Required,      \* sources with a required heartbeat: estop in safety.yaml
  Masks,         \* values of /rovera/obstacle_directions
  CommandLimit,  \* 0.35 s
  BypassLimit,   \* 0.35 s
  ScanLimit,     \* scan_timeout_seconds
  SourceLimit,   \* timeout of a required source
  Hold           \* clear_hysteresis_seconds

Directions == Travel \cup Turns
Sources == Hard \cup Soft

ASSUME DirectionAssumption ==
  /\ Travel \cap Turns = {}
  /\ Commands \subseteq SUBSET Directions
  /\ Masks \subseteq SUBSET Directions
ASSUME SourceAssumption == Hard \cap Soft = {} /\ Required \subseteq Sources
ASSUME LimitAssumption ==
  /\ CommandLimit \in Nat /\ BypassLimit \in Nat /\ ScanLimit \in Nat
  /\ SourceLimit \in Nat /\ Hold \in Nat \ {0}

VARIABLES
  command,     \* command
  commandAge,  \* time since last_command
  bypassAge,   \* time since a mode message that switched avoidance off;
               \* one that switches it on is as good as an old one
  scan,        \* scan: whether a beam is valid, and what the beams close
  scanAge,     \* time since last_scan
  active,      \* the flags estop, cliff, bumper, range_stop, external_stop
  sourceAge,   \* time since last_protective_source of the required sources
  mask,        \* external_directions
  fault,       \* fault_hysteresis
  gates,       \* direction_hysteresis
  out,         \* last message on /cmd_vel
  interlock,   \* last message on /safety/bridge_interlock
  toldFor      \* history: time since the gate of the direction, or the fault gate,
               \* was last told of a hazard

inputVars == <<command, commandAge, bypassAge, scan, scanAge, active, sourceAge, mask>>
outputVars == <<fault, gates, out, interlock, toldFor>>
safetyVars == <<command, commandAge, bypassAge, scan, scanAge, active, sourceAge, mask,
                fault, gates, out, interlock, toldFor>>

\* A StopHysteresis: clear counts the time since clear_since.
GateOpen == [stopped |-> FALSE, clear |-> 0]
GateClosed == [stopped |-> TRUE, clear |-> 0]
Clearing(t) == [stopped |-> TRUE, clear |-> t + 1]
Hysteresis == {GateOpen, GateClosed} \cup {Clearing(t) : t \in 0 .. Hold}

Scans == [valid : {TRUE}, closed : SUBSET Directions]
         \cup {[valid |-> FALSE, closed |-> {}]}

TypeOK ==
  /\ command \in Commands \cup {{}}
  /\ commandAge \in 0 .. CommandLimit + 1
  /\ bypassAge \in 0 .. BypassLimit + 1
  /\ scan \in Scans
  /\ scanAge \in 0 .. ScanLimit + 1
  /\ active \in SUBSET Sources
  /\ sourceAge \in [Required -> 0 .. SourceLimit + 1]
  /\ mask \in SUBSET Directions
  /\ fault \in Hysteresis
  /\ gates \in [Directions -> Hysteresis]
  /\ out \in SUBSET Directions
  /\ interlock \in BOOLEAN
  /\ toldFor \in [Directions -> 0 .. Hold]

SafetyInit ==
  /\ command = {} /\ commandAge = CommandLimit + 1
  /\ bypassAge = BypassLimit + 1
  /\ scan = [valid |-> FALSE, closed |-> {}] /\ scanAge = ScanLimit + 1
  /\ active = {}
  /\ sourceAge = [s \in Required |-> SourceLimit + 1]
  /\ mask = {}
  /\ fault = GateOpen
  /\ gates = [d \in Directions |-> GateOpen]
  /\ out = {}
  /\ interlock = FALSE
  /\ toldFor = [d \in Directions |-> Hold]

-----------------------------------------------------------------------------
(* StopHysteresis.update.                                                  *)

\* mutation: a hazard does not start the count again.
UpdateKeepsCount(gate, hazard) ==
  IF hazard /\ ~gate.stopped THEN GateClosed
  ELSE IF ~gate.stopped \/ gate.clear = Hold + 1 THEN GateOpen
  ELSE IF gate.clear = 0 THEN Clearing(0) ELSE gate

\* mutation: an open gate is the only one that ever opens.
UpdateLatches(gate, hazard) == IF hazard \/ gate.stopped THEN GateClosed ELSE GateOpen

Update(gate, hazard) ==
  IF hazard THEN GateClosed
  ELSE IF ~gate.stopped \/ gate.clear = Hold + 1 THEN GateOpen
  ELSE IF gate.clear = 0 THEN Clearing(0) ELSE gate

\* Time passes for clear_since too.
Older(gate) ==
  IF gate.stopped /\ gate.clear \in 1 .. Hold
    THEN Clearing(gate.clear) ELSE gate

-----------------------------------------------------------------------------
(* What the node publishes.                                                *)

Publish(velocity, stop) == out' = velocity /\ interlock' = stop

\* A full stop: the fault gate is told.
Trip ==
  /\ fault' = Update(fault, TRUE)
  /\ toldFor' = [d \in Directions |-> 0]
  /\ Publish({}, TRUE)
  /\ UNCHANGED gates

Bypassed == bypassAge <= BypassLimit

-----------------------------------------------------------------------------
(* The callbacks.                                                          *)

OnCommand(velocity) ==
  /\ command' = velocity /\ commandAge' = 0
  /\ UNCHANGED <<bypassAge, scan, scanAge, active, sourceAge, mask, outputVars>>

OnScan(sample) ==
  /\ scan' = sample /\ scanAge' = 0
  /\ UNCHANGED <<command, commandAge, bypassAge, active, sourceAge, mask, outputVars>>

\* _on_manual_obstacle_avoidance_mode.
OnMode(avoid) ==
  /\ bypassAge' = IF avoid THEN BypassLimit + 1 ELSE 0
  /\ UNCHANGED <<command, commandAge, scan, scanAge, active, sourceAge, mask, outputVars>>

\* _on_estop, _on_cliff and _on_bumper stop at once; _on_range and
\* _on_obstacle_stop do so when avoidance is not switched off.
Report(source, on) ==
  IF on /\ (source \in Hard \/ ~Bypassed) THEN Trip ELSE UNCHANGED outputVars

OnSource(source, on) ==
  /\ active' = IF on THEN active \cup {source} ELSE active \ {source}
  /\ sourceAge' = [s \in Required |-> IF s = source THEN 0 ELSE sourceAge[s]]
  /\ Report(source, on)
  /\ UNCHANGED <<command, commandAge, bypassAge, scan, scanAge, mask>>

\* _on_obstacle_directions; an invalid mask is dropped.
OnMask(closed) ==
  /\ mask' = closed
  /\ UNCHANGED <<command, commandAge, bypassAge, scan, scanAge, active, sourceAge,
                 outputVars>>

-----------------------------------------------------------------------------
(* The timer.                                                              *)

\* protective_input_timeout_reason.
HeartbeatLost == \E s \in Required : sourceAge[s] > SourceLimit

HazardActive == active \cap Hard # {} \/ (active \cap Soft # {} /\ ~Bypassed)

\* Nobody commands: zero, and healthy.
TickIdle ==
  /\ Publish({}, FALSE)
  /\ UNCHANGED <<fault, gates, toldFor>>

\* Avoidance is off: the command goes out as it is and every gate is reset.
TickBypass ==
  /\ fault' = GateOpen
  /\ gates' = [d \in Directions |-> GateOpen]
  /\ toldFor' = [d \in Directions |-> Hold]
  /\ Publish(command, FALSE)

TickHeld ==
  /\ fault' = Update(fault, FALSE)
  /\ fault'.stopped
  /\ Publish({}, TRUE)
  /\ UNCHANGED <<gates, toldFor>>

\* clip_motion_by_mask.
Clipped(velocity, closed) == velocity \ closed

\* What the mask leaves of the command is nothing: it returns before the gates are
\* told, so that an open gate stays open and one that counts goes on counting.
TickMasked ==
  /\ command # {} /\ Clipped(command, mask) = {}
  /\ Publish({}, TRUE)
  /\ UNCHANGED <<gates, toldFor>>

\* The rotation that is checked is the commanded one or a faster measured one.
CheckedTurns(velocity) ==
  IF velocity \cap Turns # {} THEN {{t} : t \in Turns} ELSE {{t} : t \in Turns} \cup {{}}

\* evaluate_scan: directions of travel are checked always, one rotation at most.
DecisionBlocked(turn) == scan.closed \cap (Travel \cup turn)

TickDecides(candidate, raw) ==
  /\ gates' = [d \in Directions |-> Update(gates[d], d \in raw)]
  /\ toldFor' = [d \in Directions |-> IF d \in raw THEN 0 ELSE toldFor[d]]
  /\ LET held == {d \in Directions : gates'[d].stopped}
         safe == Clipped(candidate, held)
     IN Publish(safe, candidate # {} /\ safe = {})

TickEvaluates ==
  /\ command = {} \/ Clipped(command, mask) # {}
  /\ LET candidate == Clipped(command, mask)
     IN \E turn \in CheckedTurns(candidate) :
          TickDecides(candidate, DecisionBlocked(turn) \cup mask)

ScanLost == scanAge > ScanLimit \/ ~scan.valid

\* A lost or empty scan is noticed where a scan is asked for.
TickMoves ==
  /\ fault' = Update(fault, FALSE)
  /\ ~fault'.stopped
  /\ TickMasked \/ (~ScanLost /\ TickEvaluates)

TickScanLost ==
  /\ ~Update(fault, FALSE).stopped
  /\ ScanLost
  /\ command = {} \/ Clipped(command, mask) # {}
  /\ Trip

Tick ==
  /\ \/ HeartbeatLost /\ Trip
     \/ ~HeartbeatLost /\ HazardActive /\ Trip
     \/ /\ ~HeartbeatLost /\ ~HazardActive
        /\ \/ commandAge > CommandLimit /\ TickIdle
           \/ commandAge <= CommandLimit /\ Bypassed /\ TickBypass
           \/ /\ commandAge <= CommandLimit /\ ~Bypassed
              /\ TickHeld \/ TickMoves \/ TickScanLost
  /\ UNCHANGED inputVars

-----------------------------------------------------------------------------
Capped(age, limit) == IF age <= limit THEN age + 1 ELSE age

\* mutation: the age ends at the limit.
BypassOlderNever(age) == IF age < BypassLimit THEN age + 1 ELSE age

BypassOlder(age) == Capped(age, BypassLimit)

Elapse ==
  /\ commandAge' = Capped(commandAge, CommandLimit)
  /\ bypassAge' = BypassOlder(bypassAge)
  /\ scanAge' = Capped(scanAge, ScanLimit)
  /\ sourceAge' = [s \in Required |-> Capped(sourceAge[s], SourceLimit)]
  /\ fault' = Older(fault)
  /\ gates' = [d \in Directions |-> Older(gates[d])]
  /\ toldFor' = [d \in Directions |-> IF toldFor[d] < Hold THEN toldFor[d] + 1 ELSE Hold]
  /\ UNCHANGED <<command, scan, active, mask, out, interlock>>

SafetyNext ==
  \/ \E velocity \in Commands \cup {{}} : OnCommand(velocity)
  \/ \E sample \in Scans : OnScan(sample)
  \/ \E avoid \in BOOLEAN : OnMode(avoid)
  \/ \E source \in Sources, on \in BOOLEAN : OnSource(source, on)
  \/ \E closed \in Masks : OnMask(closed)
  \/ Tick
  \/ Elapse

SafetySpec == SafetyInit /\ [][SafetyNext]_safetyVars

\* The executor runs the timer again and again, and time passes.
SafetyFairSpec == SafetySpec /\ WF_safetyVars(Tick) /\ WF_safetyVars(Elapse)

-----------------------------------------------------------------------------
(* Properties.                                                             *)

\* A reported estop, cliff or bumper means zero, in whatever order reports, mode
\* messages and the timer come, and whatever the operator switched off; a
\* direction whose gate is held, or a chassis under the fault hold, is not driven
\* until a tick opens it (_trip_immediately, _tick).
HeldIsStill ==
  /\ active \cap Hard # {} => out = {}
  /\ fault.stopped => out = {}
  /\ \A d \in out : ~gates[d].stopped

\* The node drives in a direction only when its gate and the fault gate have not
\* been told of a hazard for the hysteresis at least - of a fault or a source at a
\* report, of the scan or the mask at a tick - unless the operator switched avoidance
\* off meanwhile: no gate opens on the strength of a count that another hazard has
\* outdated (StopHysteresis.update and the branches of _tick that skip it).  What a
\* tick that the mask stops altogether finds closed is told to no gate and does not
\* count here: the README names this in section 5.
ClearBeforeMotion == \A d \in out : toldFor[d] >= Hold

\* A tick that the mask stops altogether holds the directions that the mask closes,
\* so that they are clear for the hysteresis before they are driven again.  The code
\* does not keep this: see the README, section 5.
MaskedIsHeld ==
  [][TickMoves /\ UNCHANGED inputVars /\ command # {} /\ Clipped(command, mask) = {}
       => \A d \in mask : gates'[d].stopped]_safetyVars

\* Nothing is wrong: no source reports, heartbeats and scans are fresh and clear.
Calm ==
  /\ active = {} /\ ~HeartbeatLost
  /\ ~ScanLost /\ scan.closed = {} /\ mask = {}

\* Once nothing is wrong for good the interlock lets go for good, whatever the
\* operator sends or does not send: the node that holds up the bridge and the
\* bridge that holds up the commands never hold each other (_tick).
InterlockReleases == <>[]Calm => <>[](~interlock)

\* A bypass lapses with the bridge that asked for it: when no mode message comes
\* any more, a direction of travel that scan, mask or a source keep closed is in
\* the end not driven (_manual_obstacle_bypass_active).
BypassLapses ==
  \A d \in Travel :
    (<>[](bypassAge # 0) /\ <>[](active # {} \/ d \in mask \cup scan.closed)) =>
      <>[](d \notin out)
=============================================================================
