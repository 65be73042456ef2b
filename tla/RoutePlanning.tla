--------------------------- MODULE RoutePlanning ---------------------------
(***************************************************************************)
(* From a destination to a route that may be driven: navigation.compute_   *)
(* path, .alternatives, .select_route, .route_selection_back, .start and   *)
(* .cancel of NavigationAdapter (navigation-stack/adapter_node.py), and    *)
(* the evidence about obstacles that they plan around.                     *)
(*                                                                         *)
(* The IPC server runs one command at a time.  While it searches a route,  *)
(* waits for a costmap or validates, the callbacks go on: the local        *)
(* costmap feeds the tracker of dynamic obstacles, the global costmap is   *)
(* replaced, localization is lost and found again, the operator takes      *)
(* over, an emergency stop arrives.                                        *)
(*                                                                         *)
(* A route is the set of places it passes.  The planner's search is any    *)
(* route around the exclusions it was given, or none: static geometry is   *)
(* not modelled.  What the missions do once they are driven is             *)
(* NavigationExecution; here it is what puts a mission to driving, to      *)
(* waiting and back.                                                       *)
(*                                                                         *)
(* Where the robot stands too close to something, the planner begins a     *)
(* route with a start escape: a straight leg of some decimetres out of the *)
(* overlap.  Only that leg is driven, and the route is planned again at    *)
(* its end, as after the leg into a turn bay.  Nothing in the code calls   *)
(* _enter_narrow_path_decision, and its state is left out.                 *)
(***************************************************************************)
EXTENDS Naturals, FiniteSets

CONSTANTS
  Goals,        \* destinations
  Places,       \* what a route may pass
  Open,         \* places where nothing ever stands: seen occupied by a wrong pose only
  None,         \* no destination, no keepout
  Confirmed,    \* dynamic_planning_minimum_observations
  MaxCommands,  \* bound on the operator's commands, but not on the answers to a choice
  MaxChanges,   \* bound on obstacles that appear
  MaxFaults     \* bound on what goes wrong: poses, takeovers, stops, costmaps

ASSUME PlacesAssumption == Open \subseteq Places /\ None \notin Places \cup Goals
ASSUME NumberAssumption == /\ Confirmed \in Nat \ {0} /\ MaxCommands \in Nat
                           /\ MaxChanges \in Nat /\ MaxFaults \in Nat

VARIABLES
  blocked,    \* the world: places where something stands
  settled,    \* history: those where it stood while a costmap became too old
  ready,      \* localized and localization_state = "READY"
  aligned,    \* the pose is right
  tracks,     \* dynamic_overlay: observation_count of the obstacle at a place
  keepout,    \* dynamic_blocked_keepout
  costmap,    \* latest_global_costmap: its lethal places and its age
  failed,     \* failed_segments, published as the planning mask
  state,      \* current_state
  dest,       \* paused_goal
  goal,       \* execution_goal
  offers,     \* route_candidates
  back,       \* route_selection_return_state
  record,     \* the mission file: its goal, and whether it resumes by itself
  route,      \* execution_points, with the goal they lead to
  cmd,        \* the command in progress
  spent       \* commands, changes, faults so far

vars == <<blocked, settled, ready, aligned, tracks, keepout, costmap, failed, state, dest,
          goal, offers, back, record, route, cmd, spent>>
world == <<blocked, settled>>
pose == <<ready, aligned>>
evidence == <<tracks, keepout, costmap, failed>>
mission == <<dest, goal, offers, back, record, route>>

States == {"READY", "PLANNING", "COMPUTING_ALTERNATIVES", "ROUTE_SELECTION", "NAVIGATING",
           "WAIT_FOR_DYNAMIC_CLEAR", "TURN_BAY_RECOVERY", "BLOCKED", "SUCCEEDED", "CANCELED",
           "MANUAL_BYPASS", "LOCALIZATION_LOST"}
\* The states from which a new destination is planned.
Resting == {"READY", "SUCCEEDED", "CANCELED", "BLOCKED", "MANUAL_BYPASS", "LOCALIZATION_LOST"}
Asking == {"READY", "BLOCKED", "WAIT_FOR_DYNAMIC_CLEAR"}

Routes == [to : Goals, via : {{p} : p \in Places}, leg : {FALSE}]
NoRoute == [to |-> None, via |-> {}, leg |-> FALSE]
\* The legs that are driven before the route to a goal is planned again
Legs(g) == [to : {g}, via : {{p} : p \in Places}, leg : {TRUE}]
NoRecord == [goal |-> None, auto |-> FALSE]
NoCommand == [op |-> "none", pc |-> "idle", goal |-> None, auto |-> FALSE, avoid |-> {},
              found |-> {}, back |-> "READY", then |-> "wait",
              gen |-> FALSE, revoked |-> FALSE]

TypeOK ==
  /\ blocked \subseteq Places \ Open /\ settled \subseteq blocked
  /\ ready \in BOOLEAN /\ aligned \in BOOLEAN
  /\ tracks \in [Places -> 0 .. Confirmed] /\ keepout \in Places \cup {None}
  /\ costmap \in [lethal : SUBSET Places, age : {"fresh", "stale"}]
  /\ failed \subseteq Places
  /\ state \in States /\ back \in States
  /\ dest \in Goals \cup {None} /\ goal \in Goals \cup {None}
  /\ offers \subseteq Routes
  /\ record \in [goal : Goals \cup {None}, auto : BOOLEAN]
  /\ route \in [to : Goals \cup {None}, via : SUBSET Places, leg : BOOLEAN]
  /\ cmd \in [op : {"none", "compute", "alternatives", "select", "start"},
              pc : {"idle", "search", "begun", "escape", "validate", "commit", "persist", "wait",
                    "bay"},
              goal : Goals \cup {None}, auto : BOOLEAN, avoid : SUBSET Places,
              found : SUBSET Routes, back : States, then : {"wait", "bay"}, gen : BOOLEAN,
              revoked : BOOLEAN]
  /\ spent \in [commands : 0 .. MaxCommands, changes : 0 .. MaxChanges, faults : 0 .. MaxFaults]

Init ==
  /\ blocked = {} /\ settled = {}
  /\ ready = TRUE /\ aligned = TRUE
  /\ tracks = [p \in Places |-> 0] /\ keepout = None
  /\ costmap = [lethal |-> {}, age |-> "stale"] /\ failed = {}
  /\ state = "READY" /\ dest = None /\ goal = None /\ offers = {} /\ back = "READY"
  /\ record = NoRecord /\ route = NoRoute
  /\ cmd = NoCommand
  /\ spent = [commands |-> 0, changes |-> 0, faults |-> 0]

Goes(pc) == cmd' = [cmd EXCEPT !.pc = pc]
Returns == cmd' = NoCommand
At(op, pc) == cmd.op = op /\ cmd.pc = pc
Outdated == [cmd EXCEPT !.gen = FALSE]
Commands == spent.commands < MaxCommands /\ spent' = [spent EXCEPT !.commands = @ + 1]
Changes == spent.changes < MaxChanges /\ spent' = [spent EXCEPT !.changes = @ + 1]
Faults == spent.faults < MaxFaults /\ spent' = [spent EXCEPT !.faults = @ + 1]

-----------------------------------------------------------------------------
(* The world and the evidence about it.                                    *)

Appears(p) ==
  /\ p \in Places \ (Open \cup blocked)
  /\ Changes
  /\ blocked' = blocked \cup {p}
  /\ UNCHANGED <<settled, pose, evidence, state, mission, cmd>>

Leaves(p) ==
  /\ p \in blocked
  /\ blocked' = blocked \ {p} /\ settled' = settled \ {p}
  /\ UNCHANGED <<pose, evidence, state, mission, cmd, spent>>

\* The pose slips before the scan match or the filter notices.
PoseSlips ==
  /\ ready /\ aligned
  /\ Faults
  /\ aligned' = FALSE
  /\ UNCHANGED <<world, ready, evidence, state, mission, cmd>>

\* Where a sensor's return is put on the map.
Seen == IF aligned THEN blocked ELSE Places

\* _costmap_callback: a cell of the local costmap that the saved map does not explain
Observe(p) ==
  /\ ready /\ p \in Seen
  /\ tracks[p] < Confirmed
  /\ tracks' = [tracks EXCEPT ![p] = @ + 1]
  /\ UNCHANGED <<world, pose, keepout, costmap, failed, state, mission, cmd, spent>>

\* ttl_seconds without an observation
TrackExpires(p) ==
  /\ tracks[p] > 0 /\ (~aligned \/ p \notin blocked)
  /\ tracks' = [tracks EXCEPT ![p] = 0]
  /\ UNCHANGED <<world, pose, keepout, costmap, failed, state, mission, cmd, spent>>

\* The mask of the failed segments is one of the layers of Nav2's costmap.
Masked(seen) == seen \cup failed

\* What Nav2 marks: the scan at the robot's pose, and the mask.
GlobalCostmap ==
  /\ \E seen \in IF aligned THEN {blocked} ELSE {{}, Places} :
       costmap' = [lethal |-> Masked(seen), age |-> "fresh"]
  /\ costmap' # costmap
  /\ UNCHANGED <<world, pose, tracks, keepout, failed, state, mission, cmd, spent>>

\* A route is driven well before the image it was validated on is too old.
CostmapAges ==
  /\ costmap.age = "fresh"
  /\ cmd.pc # "commit"
  /\ Faults
  /\ costmap' = [costmap EXCEPT !.age = "stale"]
  /\ settled' = blocked
  /\ UNCHANGED <<blocked, pose, tracks, keepout, failed, state, mission, cmd>>

SegmentExpires(p) ==
  /\ p \in failed
  /\ failed' = failed \ {p}
  /\ UNCHANGED <<world, pose, tracks, keepout, costmap, state, mission, cmd, spent>>

Tracked == {p \in Places : tracks[p] = Confirmed}

\* The scan filter may find the scan untrustworthy at any time.
DynamicExclusions == IF ready THEN {Tracked, {}} ELSE {{}}
PlanningExclusions == IF keepout # None THEN {{keepout}} ELSE DynamicExclusions

\* The LiDAR's front return, projected with whatever pose there is.
FrontKeepouts == {{}} \cup {{p} : p \in Seen}

Around(g, avoid) == {r \in Routes : r.to = g /\ r.via \cap avoid = {}}
Executable(r) == r.via \cap costmap.lethal = {}

-----------------------------------------------------------------------------
(* navigation.compute_path.                                                *)

\* mutation: mark_plan_failed only reports
PlanFailedQuietly ==
  /\ UNCHANGED state
  /\ Returns
  /\ UNCHANGED mission

\* mark_plan_failed
PlanFailed ==
  /\ state' = "READY"
  /\ Returns
  /\ UNCHANGED mission

\* NOT_LOCALIZED, or an obstacle is tracked at the goal and next to it
GoalRefused == ~ready \/ \E p \in Places : tracks[p] > 0

ComputeRefused ==
  /\ cmd = NoCommand /\ state \in Resting
  /\ GoalRefused
  /\ Commands
  /\ PlanFailed
  /\ UNCHANGED <<world, pose, evidence>>

Compute(g, auto) ==
  /\ cmd = NoCommand /\ state \in Resting
  /\ ready
  /\ Commands
  /\ state' = "PLANNING" /\ keepout' = None
  /\ \E avoid \in FrontKeepouts \cup DynamicExclusions :
       cmd' = [NoCommand EXCEPT !.op = "compute", !.pc = "search", !.goal = g,
                                !.auto = auto, !.avoid = avoid]
  /\ UNCHANGED <<world, pose, tracks, costmap, failed, mission>>

\* From a reverse turn bay where the robot has to back out first, or from where
\* it stands.
FirstSearch == Around(cmd.goal, cmd.avoid)

\* A route whose first straight runs into the front return is searched again
\* around that return alone.
Ahead(r) == {avoid \in FrontKeepouts : r.via \cap avoid # {}}
SearchedAgain(R) == UNION {Around(cmd.goal, avoid) : avoid \in UNION {Ahead(r) : r \in R}}

Search ==
  /\ At("compute", "search")
  /\ \E found \in {{}} \cup {{r} : r \in FirstSearch \cup SearchedAgain(FirstSearch)} :
       cmd' = [cmd EXCEPT !.found = found, !.avoid = {},
                          !.pc = IF found = {} THEN "commit" ELSE "validate"]
  /\ UNCHANGED <<world, pose, evidence, state, mission, spent>>

\* A reverse escape needs room behind and none to turn; otherwise it waits.
Escapes == {"wait", "bay"}

\* mutation: the recovery sets the goal to execute only
RecoverGoalOnly ==
  /\ goal' = cmd.goal /\ UNCHANGED dest
  /\ offers' = {} /\ route' = NoRoute
  /\ \E next \in Escapes :
       cmd' = [cmd EXCEPT !.pc = "persist", !.found = {}, !.then = next, !.gen = next = "bay"]
  /\ UNCHANGED <<state, back, record>>

\* begin_automatic_plan_recovery, and whether a reverse escape begins
Recover ==
  /\ goal' = cmd.goal /\ dest' = cmd.goal
  /\ offers' = {} /\ route' = NoRoute
  /\ \E next \in Escapes :
       cmd' = [cmd EXCEPT !.pc = "persist", !.found = {}, !.then = next, !.gen = next = "bay"]
  /\ UNCHANGED <<state, back, record>>

NotPlanned == IF cmd.auto THEN Recover ELSE PlanFailed

ComputeEnds ==
  /\ At("compute", "commit")
  /\ IF cmd.found = {}
       THEN NotPlanned
       ELSE /\ offers' = cmd.found /\ dest' = cmd.goal /\ back' = "READY"
            /\ state' = "READY"
            /\ Returns
            /\ UNCHANGED <<goal, record, route>>
  /\ UNCHANGED <<world, pose, evidence, spent>>

Persist ==
  /\ cmd.pc = "persist"
  /\ record' = [goal |-> cmd.goal, auto |-> TRUE]
  /\ Goes(cmd.then)
  /\ UNCHANGED <<world, pose, evidence, state, dest, goal, offers, back, route, spent>>

\* _enter_dynamic_wait: another encounter than the last forgets its keepout.
EntersWait ==
  /\ state' = "WAIT_FOR_DYNAMIC_CLEAR"
  /\ keepout' \in {keepout, None}

Wait ==
  /\ cmd.pc = "wait"
  /\ EntersWait
  /\ Returns
  /\ UNCHANGED <<world, pose, tracks, costmap, failed, mission, spent>>

\* _start_turn_bay_recovery, in the generation of the escape only
StartBay ==
  /\ cmd.pc = "bay"
  /\ state' = IF cmd.gen THEN "TURN_BAY_RECOVERY" ELSE state
  /\ Returns
  /\ UNCHANGED <<world, pose, evidence, mission, spent>>

-----------------------------------------------------------------------------
(* navigation.alternatives, .route_selection_back, .cancel.                *)

Recovering == state \in {"BLOCKED", "WAIT_FOR_DYNAMIC_CLEAR"}

Alternatives ==
  /\ cmd = NoCommand /\ state \in Asking /\ dest # None
  /\ Commands
  /\ LET target == IF Recovering THEN "BLOCKED" ELSE "READY"
     IN  \E avoid \in IF Recovering THEN PlanningExclusions ELSE {{}} :
           /\ cmd' = [NoCommand EXCEPT !.op = "alternatives", !.pc = "search", !.goal = dest,
                                       !.avoid = avoid, !.back = target]
           /\ back' = target
  /\ state' = "COMPUTING_ALTERNATIVES"
  /\ UNCHANGED <<world, pose, evidence, dest, goal, offers, record, route>>

SearchAlternatives ==
  /\ At("alternatives", "search")
  /\ \E found \in SUBSET Around(cmd.goal, cmd.avoid) :
       cmd' = [cmd EXCEPT !.found = found, !.avoid = {},
                          !.pc = IF found = {} THEN "commit" ELSE "validate"]
  /\ UNCHANGED <<world, pose, evidence, state, mission, spent>>

AlternativesEnd ==
  /\ At("alternatives", "commit")
  /\ IF cmd.found = {}
       THEN state' = cmd.back /\ UNCHANGED offers
       ELSE state' = "ROUTE_SELECTION" /\ offers' = cmd.found
  /\ Returns
  /\ UNCHANGED <<world, pose, evidence, dest, goal, back, record, route, spent>>

Forgets ==
  /\ state' = "CANCELED"
  /\ dest' = None /\ goal' = None /\ offers' = {} /\ back' = "READY"
  /\ record' = NoRecord /\ route' = NoRoute

Back ==
  /\ cmd = NoCommand /\ state = "ROUTE_SELECTION"
  /\ IF back = "WAIT_FOR_DYNAMIC_CLEAR"
       THEN Forgets
       ELSE /\ state' = back /\ offers' = {}
            /\ UNCHANGED <<dest, goal, back, record, route>>
  /\ UNCHANGED <<world, pose, evidence, cmd, spent>>

Cancel ==
  /\ cmd = NoCommand
  /\ Commands
  /\ Forgets
  /\ UNCHANGED <<world, pose, evidence, cmd>>

-----------------------------------------------------------------------------
(* navigation.select_route and navigation.start.                           *)

\* _set_dynamic_blocked_no_route
GivesUp(g) ==
  /\ state' = "BLOCKED" /\ offers' = {} /\ dest' = g
  /\ record' = [goal |-> g, auto |-> FALSE]
  /\ UNCHANGED <<goal, back, route>>

\* The countdown of a choice that the recovery offers is over.
CountedDown == state = "ROUTE_SELECTION" /\ back = "WAIT_FOR_DYNAMIC_CLEAR"

\* _start_selected_route, for the operator or the countdown: the candidate, the goal
\* and the generation in one
Select(r) ==
  /\ cmd = NoCommand /\ state = "ROUTE_SELECTION"
  /\ r \in offers
  /\ cmd' = [NoCommand EXCEPT !.op = "select", !.pc = "begun", !.goal = dest, !.found = {r},
                              !.back = back, !.gen = TRUE]
  /\ UNCHANGED <<world, pose, evidence, state, mission, spent>>

\* _auto_start_shortest_dynamic_route: every candidate was rejected.
NoneStarts ==
  /\ cmd = NoCommand /\ CountedDown
  /\ GivesUp(dest)
  /\ UNCHANGED <<world, pose, evidence, cmd, spent>>

\* The Center's mission carries its own route: any it planned before.
Start(r) ==
  /\ cmd = NoCommand /\ state = "READY"
  /\ Commands
  /\ cmd' = [NoCommand EXCEPT !.op = "start", !.pc = "begun", !.goal = r.to, !.found = {r}]
  /\ UNCHANGED <<world, pose, evidence, state, mission>>

\* _validate_goal and the evidence of localization.  Only a route that compute_path
\* still holds, or a replan, can begin with a start escape: the candidates one
\* selects from never do.
Begun ==
  /\ cmd.pc = "begun"
  /\ \/ ready /\ Goes("validate")
     \/ ready /\ cmd.op = "start" /\ cmd.found \subseteq offers /\ Goes("escape")
     \/ Returns
  /\ UNCHANGED <<world, pose, evidence, state, mission, spent>>

\* mutation: the destination is compared, not the generation
StaleByGoal == cmd.op = "select" /\ dest # cmd.goal

\* the generation the choice was made in is over
Stale == cmd.op = "select" /\ ~cmd.gen

Drives(r) ==
  /\ state' = "NAVIGATING"
  /\ dest' = cmd.goal /\ goal' = cmd.goal
  /\ record' = [goal |-> cmd.goal, auto |-> TRUE]
  /\ route' = r
  /\ UNCHANGED back

\* _start_escape_execution: a leg the live safety and the saved map permit now, or
\* START_ESCAPE_UNAVAILABLE; the global costmap is not looked at.
StartEscape ==
  /\ cmd.pc = "escape"
  /\ \/ UNCHANGED <<state, mission>>
     \/ \E leg \in Legs(cmd.goal) : Drives(leg) /\ UNCHANGED offers
  /\ Returns
  /\ UNCHANGED <<world, pose, evidence, spent>>

StartEnds ==
  /\ cmd.op \in {"select", "start"} /\ cmd.pc = "commit"
  /\ IF cmd.found = {} \/ Stale
       THEN UNCHANGED <<state, mission, keepout>>
       ELSE /\ \E r \in cmd.found : Drives(r)
            /\ offers' = IF cmd.op = "select" THEN {} ELSE offers
            /\ keepout' = IF cmd.back = "WAIT_FOR_DYNAMIC_CLEAR" THEN None ELSE keepout
  /\ Returns
  /\ UNCHANGED <<world, pose, tracks, costmap, failed, spent>>

-----------------------------------------------------------------------------
(* The validation against the global costmap, of every command.            *)

\* What is left of the candidates when they are serialized
Valid(R) == {r \in R : Executable(r)}

\* mutation: the age of the costmap is not looked at
ValidateAny ==
  /\ cmd.pc = "validate"
  /\ cmd' = [cmd EXCEPT !.pc = "commit", !.found = Valid(@)]
  /\ UNCHANGED <<world, pose, evidence, state, mission, spent>>

Validate ==
  /\ cmd.pc = "validate"
  /\ costmap.age = "fresh"
  /\ cmd' = [cmd EXCEPT !.pc = "commit", !.found = Valid(@)]
  /\ UNCHANGED <<world, pose, evidence, state, mission, spent>>

\* COSTMAP_NOT_READY: nothing newer arrived while it waited.
NotReady ==
  /\ cmd.pc = "validate"
  /\ costmap.age # "fresh"
  /\ CASE cmd.op = "compute" -> NotPlanned
       [] OTHER -> Returns /\ UNCHANGED <<state, mission>>
  /\ UNCHANGED <<world, pose, evidence, spent>>

-----------------------------------------------------------------------------
(* The mission once it is driven or waits.                                 *)

Waiting == state = "WAIT_FOR_DYNAMIC_CLEAR"
Driving == state = "NAVIGATING"

\* The tracked obstacles on what is left of the route
OnRoute == IF ready THEN Tracked \cap route.via ELSE {}

\* _mark_failed_segment
Mark(p) == failed' = failed \cup {p}

Relocates == state' = "TURN_BAY_RECOVERY" /\ UNCHANGED keepout

\* _recover_confirmed_corridor_blockage: the way is marked on the planning mask, and
\* the robot waits or looks for a turn bay.
WayBlocked(p) ==
  /\ Driving /\ p \in route.via \cap Seen
  /\ Faults /\ Mark(p)
  /\ EntersWait \/ Relocates
  /\ UNCHANGED <<world, pose, tracks, costmap, mission, cmd>>

\* The controller finds the way blocked, a leg was refused when it was prepared, or a
\* replan found nothing.
Stopped ==
  /\ Driving
  /\ EntersWait
  /\ UNCHANGED <<world, pose, tracks, costmap, failed, mission, cmd, spent>>

\* _start_turn_bay_recovery: the robot cannot turn where it is, steering lost its
\* authority, a local bypass has no candidate, or one leg was not enough.
SeekBay ==
  /\ Driving \/ Waiting
  /\ Relocates
  /\ UNCHANGED <<world, pose, tracks, costmap, failed, mission, cmd, spent>>

\* _observe_controller_blocker
LocateBlocker(p) ==
  /\ Waiting /\ keepout = None
  /\ p \in OnRoute \cup (route.via \cap Seen)
  /\ keepout' = p
  /\ UNCHANGED <<world, pose, tracks, costmap, failed, state, mission, cmd, spent>>

\* The mission goes on to the same goal, in a new generation.
GoesOn(r) ==
  /\ state' = "NAVIGATING" /\ route' = r /\ dest' = goal
  /\ record' = [goal |-> goal, auto |-> TRUE]
  /\ cmd' = Outdated
  /\ UNCHANGED <<world, pose, evidence, goal, offers, back, spent>>

\* _attempt_dynamic_replan, _replan_execution_from_current, and the _navigate they
\* end in.  A wait that ends because the obstacle left goes on along what was left of
\* the route, whatever is tracked there.
Replanned(r) ==
  /\ Waiting \/ Driving
  /\ ready /\ costmap.age = "fresh" /\ Executable(r)
  /\ \/ \E avoid \in PlanningExclusions : r \in Around(goal, avoid)
     \/ Waiting /\ r.to = goal /\ r.via = route.via
  /\ GoesOn(r)

\* where the route begins with a start escape
ReplannedEscape ==
  /\ Waiting \/ Driving
  /\ ready
  /\ \E leg \in Legs(goal) : GoesOn(leg)

\* _present_dynamic_route_selection
PresentChoice(R) ==
  /\ Waiting
  /\ ready /\ costmap.age = "fresh" /\ R # {}
  /\ \A r \in R : Executable(r)
  /\ \E avoid \in PlanningExclusions : R \subseteq Around(goal, avoid)
  /\ state' = "ROUTE_SELECTION" /\ offers' = R /\ back' = "WAIT_FOR_DYNAMIC_CLEAR"
  /\ record' = [goal |-> goal, auto |-> FALSE]
  /\ UNCHANGED <<world, pose, evidence, dest, goal, route, cmd, spent>>

\* _stop_unconfirmed_dynamic_recovery, _stop_persistent_moving_dynamic_recovery,
\* _set_recovery_terminal
RenewWait ==
  /\ Waiting
  /\ EntersWait
  /\ dest' = goal
  /\ record' = [goal |-> goal, auto |-> TRUE]
  /\ UNCHANGED <<world, pose, tracks, costmap, failed, goal, offers, back, route, cmd, spent>>

\* A bypass that found neither a way nor an alternative
GiveUp ==
  /\ Waiting
  /\ GivesUp(goal)
  /\ UNCHANGED <<world, pose, evidence, cmd, spent>>

\* _find_and_start_turn_bay without a bay
BayMissing ==
  /\ state = "TURN_BAY_RECOVERY"
  /\ EntersWait
  /\ UNCHANGED <<world, pose, tracks, costmap, failed, mission, cmd, spent>>

\* and with one: the robot moves there, clear of what it tracks, before the route is
\* planned again.
BayFound ==
  /\ state = "TURN_BAY_RECOVERY"
  /\ state' = "NAVIGATING"
  /\ \E leg \in Legs(goal), avoid \in PlanningExclusions :
       leg.via \cap avoid = {} /\ route' = leg
  /\ UNCHANGED <<world, pose, evidence, dest, goal, offers, back, record, cmd, spent>>

Arrive ==
  /\ Driving /\ ~route.leg
  /\ state' = "SUCCEEDED"
  /\ dest' = None /\ goal' = None /\ offers' = {} /\ back' = "READY"
  /\ record' = NoRecord /\ route' = NoRoute
  /\ cmd' = Outdated
  /\ UNCHANGED <<world, pose, evidence, spent>>

-----------------------------------------------------------------------------
(* What may come at any time.                                              *)

Driven == {"NAVIGATING", "PLANNING", "WAIT_FOR_DYNAMIC_CLEAR", "TURN_BAY_RECOVERY",
           "ROUTE_SELECTION"}
Revoked == [cmd EXCEPT !.gen = FALSE, !.revoked = cmd.op = "select"]
Kept == IF goal # None THEN goal ELSE dest

TakeOver ==
  /\ Faults
  /\ cmd' = Revoked
  /\ IF state \in Driven \cup {"BLOCKED"}
       THEN /\ state' = "MANUAL_BYPASS"
            /\ record' = IF Kept = None THEN record ELSE [goal |-> Kept, auto |-> FALSE]
       ELSE UNCHANGED <<state, record>>
  /\ UNCHANGED <<world, pose, evidence, dest, goal, offers, back, route>>

EmergencyStop ==
  /\ Faults
  /\ cmd' = Revoked
  /\ state' = IF state \in Driven THEN "CANCELED" ELSE state
  /\ UNCHANGED <<world, pose, evidence, mission>>

LoseLocalization ==
  /\ ready
  /\ IF aligned THEN Faults ELSE UNCHANGED spent
  /\ ready' = FALSE
  /\ state' = "LOCALIZATION_LOST"
  /\ cmd' = Revoked
  /\ UNCHANGED <<world, aligned, evidence, mission>>

\* mutation: the tracker is not replaced
ResetCostmapOnly ==
  /\ keepout' = None
  /\ costmap' = [lethal |-> {}, age |-> "stale"]
  /\ UNCHANGED <<failed, tracks>>

\* READY drops what was seen under another pose.
Reset ==
  /\ tracks' = [p \in Places |-> 0]
  /\ keepout' = None
  /\ costmap' = [lethal |-> {}, age |-> "stale"]
  /\ UNCHANGED failed

\* A verification takes longer than what a command still does once its routes are
\* validated.
FindLocalization ==
  /\ ~ready
  /\ cmd.pc # "commit"
  /\ ready' = TRUE /\ aligned' = TRUE
  /\ Reset
  /\ state' = "READY"
  /\ UNCHANGED <<world, mission, cmd, spent>>

-----------------------------------------------------------------------------
Answers == \/ Search \/ ComputeEnds \/ Persist \/ Wait \/ StartBay
           \/ SearchAlternatives \/ AlternativesEnd
           \/ Begun \/ StartEscape \/ StartEnds \/ Validate \/ NotReady

Operator == \/ ComputeRefused
            \/ \E g \in Goals, auto \in BOOLEAN : Compute(g, auto)
            \/ Alternatives \/ Back \/ Cancel \/ NoneStarts
            \/ \E r \in Routes : Select(r) \/ Start(r)

Sensors == \/ \E p \in Places : \/ Appears(p) \/ Leaves(p) \/ Observe(p)
                                \/ TrackExpires(p) \/ SegmentExpires(p)
           \/ PoseSlips \/ GlobalCostmap \/ CostmapAges
           \/ LoseLocalization \/ FindLocalization

Execution == \/ \E p \in Places : WayBlocked(p) \/ LocateBlocker(p)
             \/ Stopped \/ SeekBay
             \/ \E r \in Routes : Replanned(r)
             \/ ReplannedEscape
             \/ \E R \in SUBSET Routes : PresentChoice(R)
             \/ GiveUp \/ RenewWait \/ BayMissing \/ BayFound \/ Arrive
             \/ TakeOver \/ EmergencyStop

Next == Answers \/ Operator \/ Sensors \/ Execution

Spec == Init /\ [][Next]_vars

\* The searches have a time budget, the waits for a costmap a timeout.
Fairness == WF_vars(Answers)
FairSpec == Spec /\ Fairness

-----------------------------------------------------------------------------
(* Properties.                                                             *)

\* One destination: what is driven, what waits to go on and what is kept for a
\* restart lead to the same goal, and so do the routes the operator may choose
\* from, although four operations and the recovery each write their part.
MissionIsOne ==
  /\ state \in {"NAVIGATING", "WAIT_FOR_DYNAMIC_CLEAR", "TURN_BAY_RECOVERY"} =>
       goal # None /\ dest = goal /\ record.goal = goal
  /\ state = "NAVIGATING" => route.to = goal
  /\ state = "ROUTE_SELECTION" => offers # {} /\ \A r \in offers : r.to = dest

\* With a pose that was verified, nothing is avoided at a place where nothing
\* ever stood: what was tracked under the pose before is gone.
TracksAreReal ==
  ready /\ aligned => /\ \A p \in Open : tracks[p] = 0
                      /\ keepout \notin Open

\* A route chosen before a takeover, an emergency stop or a loss of
\* localization is not driven after it, however long its validation takes.
RevokedChoiceIsNotDriven ==
  [][cmd.op = "select" /\ cmd.revoked => state' # "NAVIGATING" \/ state = "NAVIGATING"]_vars

\* A route that begins to be driven, alone or in the place of another.
NewRoute == state' = "NAVIGATING" /\ (state # "NAVIGATING" \/ route' # route)

\* No route to a goal is driven through an obstacle that has stood for longer than a
\* costmap is accepted: neither one offered earlier, nor one of a stored mission, nor
\* one planned again at the end of a leg.  The legs themselves are excepted.
OldObstaclesAreAvoided ==
  [][NewRoute /\ ~route'.leg /\ aligned => route'.via \cap settled = {}]_vars

\* No leg either.  The code does not keep this: see the README, section 5.
OldObstaclesAreAvoidedByLegs ==
  [][NewRoute /\ aligned => route'.via \cap settled = {}]_vars

\* Whatever happens meanwhile, a planning ends: the robot does not stay in
\* PLANNING, where no command but a cancel is accepted.
PlanningIsAnswered == state = "PLANNING" ~> state # "PLANNING"
=============================================================================
