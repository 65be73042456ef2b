------------------------ MODULE RoutePlanningProofs ------------------------
(***************************************************************************)
(* What TLAPS proves of RoutePlanning, for every set of destinations and   *)
(* places and whatever the bounds on commands, obstacles and faults.       *)
(***************************************************************************)
EXTENDS RoutePlanning, TLAPS

\* None is no destination and no place; one observation at least confirms.
USE PlacesAssumption, NumberAssumption

Counts == [commands : 0 .. MaxCommands, changes : 0 .. MaxChanges, faults : 0 .. MaxFaults]
CommandTypes ==
  [op : {"none", "compute", "alternatives", "select", "start"},
   pc : {"idle", "search", "begun", "escape", "validate", "commit", "persist", "wait", "bay"},
   goal : Goals \cup {None}, auto : BOOLEAN, avoid : SUBSET Places,
   found : SUBSET Routes, back : States, then : {"wait", "bay"}, gen : BOOLEAN,
   revoked : BOOLEAN]

-----------------------------------------------------------------------------
(* Types.                                                                  *)

\* The bounded counters stay within their bounds.
LEMMA CountTypes ==
  ASSUME spent \in Counts
  PROVE  /\ Commands => spent' \in Counts
         /\ Changes => spent' \in Counts
         /\ Faults => spent' \in Counts
  BY DEF Counts, Commands, Changes, Faults

\* No command is a command.
LEMMA NoCommandTypes == NoCommand \in CommandTypes
<1>1. {} \in SUBSET Places /\ {} \in SUBSET Routes
  OBVIOUS
<1>2. "READY" \in States
  BY DEF States
<1> QED
  BY <1>1, <1>2 DEF NoCommand, CommandTypes

\* What PlanFailed and a recovery write has its type.
LEMMA NotPlannedTypes ==
  ASSUME TypeOK, NotPlanned
  PROVE  /\ cmd' \in CommandTypes /\ state' \in States /\ back' \in States
         /\ dest' \in Goals \cup {None} /\ goal' \in Goals \cup {None}
         /\ offers' \subseteq Routes
         /\ record' \in [goal : Goals \cup {None}, auto : BOOLEAN]
         /\ route' \in [to : Goals \cup {None}, via : SUBSET Places, leg : BOOLEAN]
<1>0. cmd \in CommandTypes
  BY DEF TypeOK, CommandTypes
<1>1. CASE PlanFailed
  BY <1>1, NoCommandTypes DEF PlanFailed, Returns, mission, TypeOK, States
<1>2. CASE Recover
  <2>1. cmd' \in CommandTypes
    <3> PICK next \in Escapes :
          cmd' = [cmd EXCEPT !.pc = "persist", !.found = {}, !.then = next, !.gen = next = "bay"]
      BY <1>2 DEF Recover
    <3>1. next \in {"wait", "bay"}
      BY DEF Escapes
    <3>2. (next = "bay") \in BOOLEAN
      OBVIOUS
    <3> QED
      BY <1>0, <3>1, <3>2 DEF CommandTypes
  <2>2. route' \in [to : Goals \cup {None}, via : SUBSET Places, leg : BOOLEAN]
    BY <1>2 DEF Recover, NoRoute
  <2> QED
    BY <1>2, <2>1, <2>2 DEF Recover, TypeOK
<1> QED
  BY <1>1, <1>2 DEF NotPlanned

\* The routes to a destination.
To(g) == {r \in Routes : r.to = g}

\* A search finds routes to the destination it was given.
LEMMA FoundTypes ==
  ASSUME NEW found \in {{}} \cup {{r} : r \in FirstSearch \cup SearchedAgain(FirstSearch)}
  PROVE  found \subseteq To(cmd.goal)
<1>1. FirstSearch \subseteq To(cmd.goal)
  BY DEF FirstSearch, Around, To
<1>2. ASSUME NEW r \in SearchedAgain(FirstSearch)
      PROVE  r \in To(cmd.goal)
  <2>1. PICK avoid \in UNION {Ahead(q) : q \in FirstSearch} : r \in Around(cmd.goal, avoid)
    BY <1>2 DEF SearchedAgain
  <2> QED
    BY <2>1 DEF Around, To
<1> QED
  BY <1>1, <1>2

\* The answers to a command keep the types.
LEMMA AnswerTypes ==
  ASSUME TypeOK, Answers
  PROVE  TypeOK'
<1>0. cmd \in CommandTypes
  BY DEF TypeOK, CommandTypes
<1>1. CASE Search
  <2> PICK found \in {{}} \cup {{r} : r \in FirstSearch \cup SearchedAgain(FirstSearch)} :
        cmd' = [cmd EXCEPT !.found = found, !.avoid = {},
                           !.pc = IF found = {} THEN "commit" ELSE "validate"]
    BY <1>1 DEF Search
  <2>1. found \in SUBSET Routes
    BY FoundTypes DEF To
  <2>2. cmd' \in CommandTypes
    BY <1>0, <2>1 DEF CommandTypes
  <2> QED
    BY <1>1, <2>2, ZenonT(60) DEF Search, TypeOK, CommandTypes, world, pose, evidence, mission
<1>2. CASE ComputeEnds
  <2>1. CASE cmd.found = {}
    <3>1. NotPlanned
      BY <1>2, <2>1 DEF ComputeEnds
    <3> QED
      BY <1>2, <3>1, NotPlannedTypes DEF ComputeEnds, TypeOK, CommandTypes, world, pose, evidence
  <2>2. CASE cmd.found # {}
    <3>1. /\ offers' = cmd.found /\ dest' = cmd.goal /\ back' = "READY" /\ state' = "READY"
          /\ cmd' = NoCommand
      BY <1>2, <2>2 DEF ComputeEnds, Returns
    <3>2. cmd.found \subseteq Routes /\ cmd.goal \in Goals \cup {None} /\ "READY" \in States
      BY <1>0 DEF CommandTypes, States
    <3> QED
      BY <1>2, <2>2, <3>1, <3>2, NoCommandTypes
      DEF ComputeEnds, TypeOK, CommandTypes, world, pose, evidence
  <2> QED
    BY <2>1, <2>2
<1>3. CASE Persist
  <2>1. cmd' \in CommandTypes
    BY <1>0, <1>3 DEF Persist, Goes, CommandTypes
  <2>2. record' \in [goal : Goals \cup {None}, auto : BOOLEAN]
    BY <1>0, <1>3 DEF Persist, CommandTypes
  <2> QED
    BY <1>3, <2>1, <2>2 DEF Persist, TypeOK, CommandTypes, world, pose, evidence
<1>4. CASE Wait
  <2>1. keepout' \in Places \cup {None} /\ state' \in States
    BY <1>4 DEF Wait, EntersWait, TypeOK, States
  <2> QED
    BY <1>4, <2>1, NoCommandTypes DEF Wait, Returns, TypeOK, CommandTypes, world, pose, mission
<1>5. CASE StartBay
  <2>1. state' \in States
    BY <1>5 DEF StartBay, TypeOK, States
  <2> QED
    BY <1>5, <2>1, NoCommandTypes
    DEF StartBay, Returns, TypeOK, CommandTypes, world, pose, evidence, mission
<1>6. CASE SearchAlternatives
  <2> PICK found \in SUBSET Around(cmd.goal, cmd.avoid) :
        cmd' = [cmd EXCEPT !.found = found, !.avoid = {},
                           !.pc = IF found = {} THEN "commit" ELSE "validate"]
    BY <1>6 DEF SearchAlternatives
  <2>1. found \in SUBSET Routes
    BY Zenon DEF Around
  <2>2. cmd' \in CommandTypes
    BY <1>0, <2>1 DEF CommandTypes
  <2> QED
    BY <1>6, <2>2, ZenonT(60) DEF SearchAlternatives, TypeOK, CommandTypes, world, pose, evidence,
       mission
<1>7. CASE AlternativesEnd
  <2>1. state' \in States /\ offers' \subseteq Routes
    BY <1>0, <1>7 DEF AlternativesEnd, CommandTypes, States, TypeOK
  <2> QED
    BY <1>7, <2>1, NoCommandTypes
    DEF AlternativesEnd, Returns, TypeOK, CommandTypes, world, pose, evidence
<1>8. CASE Begun
  <2>1. cmd' \in CommandTypes
    BY <1>0, <1>8, NoCommandTypes DEF Begun, Goes, Returns, CommandTypes
  <2> QED
    BY <1>8, <2>1 DEF Begun, TypeOK, CommandTypes, world, pose, evidence, mission
<1>9. CASE StartEnds
  <2>1. CASE cmd.found = {} \/ Stale
    BY <1>9, <2>1, NoCommandTypes
    DEF StartEnds, Returns, TypeOK, CommandTypes, world, pose, mission
  <2>2. CASE ~(cmd.found = {} \/ Stale)
    <3> PICK r \in cmd.found : Drives(r)
      BY <1>9, <2>2 DEF StartEnds
    <3>1. cmd.goal \in Goals \cup {None} /\ r \in Routes
      BY <1>0 DEF CommandTypes
    <3>2. route' \in [to : Goals \cup {None}, via : SUBSET Places, leg : BOOLEAN]
      BY <3>1 DEF Drives, Routes
    <3>3. /\ state' \in States /\ dest' \in Goals \cup {None} /\ goal' \in Goals \cup {None}
          /\ record' \in [goal : Goals \cup {None}, auto : BOOLEAN]
      BY <3>1 DEF Drives, States
    <3>4. offers' \subseteq Routes /\ keepout' \in Places \cup {None} /\ back' = back
      BY <1>9, <2>2 DEF StartEnds, Drives, TypeOK
    <3> QED
      BY <1>9, <3>2, <3>3, <3>4, NoCommandTypes
      DEF StartEnds, Returns, TypeOK, CommandTypes, world, pose
  <2> QED
    BY <2>1, <2>2
<1>10. CASE Validate
  <2>1. cmd' \in CommandTypes
    BY <1>0, <1>10 DEF Validate, Valid, CommandTypes
  <2> QED
    BY <1>10, <2>1 DEF Validate, TypeOK, CommandTypes, world, pose, evidence, mission
<1>11. CASE NotReady
  <2>1. CASE NotPlanned
    BY <1>11, <2>1, NotPlannedTypes DEF NotReady, TypeOK, CommandTypes, world, pose, evidence
  <2>2. CASE Returns /\ UNCHANGED <<state, mission>>
    BY <1>11, <2>2, NoCommandTypes
    DEF NotReady, Returns, TypeOK, CommandTypes, world, pose, evidence, mission
  <2> QED
    BY <1>11, <2>1, <2>2 DEF NotReady
<1>12. CASE StartEscape
  <2>1. CASE UNCHANGED <<state, mission>>
    BY <1>12, <2>1, NoCommandTypes
    DEF StartEscape, Returns, TypeOK, CommandTypes, world, pose, evidence, mission
  <2>2. CASE \E leg \in Legs(cmd.goal) : Drives(leg) /\ UNCHANGED offers
    <3> PICK leg \in Legs(cmd.goal) : Drives(leg) /\ UNCHANGED offers
      BY <2>2
    <3>1. cmd.goal \in Goals \cup {None}
      BY <1>0 DEF CommandTypes
    <3>2. route' \in [to : Goals \cup {None}, via : SUBSET Places, leg : BOOLEAN]
      BY <3>1 DEF Drives, Legs
    <3>3. /\ state' \in States /\ dest' \in Goals \cup {None} /\ goal' \in Goals \cup {None}
          /\ record' \in [goal : Goals \cup {None}, auto : BOOLEAN]
      BY <3>1 DEF Drives, States
    <3>4. offers' = offers /\ back' = back
      BY DEF Drives
    <3> QED
      BY <1>12, <3>2, <3>3, <3>4, NoCommandTypes
      DEF StartEscape, Returns, TypeOK, CommandTypes, world, pose, evidence
  <2> QED
    BY <1>12, <2>1, <2>2 DEF StartEscape
<1> QED
  BY <1>1, <1>2, <1>3, <1>4, <1>5, <1>6, <1>7, <1>8, <1>9, <1>10, <1>11, <1>12 DEF Answers

\* The operator's commands keep the types.
LEMMA OperatorTypes ==
  ASSUME TypeOK, Operator
  PROVE  TypeOK'
<1>0. spent \in Counts
  BY DEF TypeOK, Counts
<1>1. CASE ComputeRefused
  BY <1>0, <1>1, CountTypes, NoCommandTypes
  DEF ComputeRefused, PlanFailed, Returns, TypeOK, Counts, CommandTypes, States, world, pose,
      evidence, mission
<1>2. CASE \E g \in Goals, auto \in BOOLEAN : Compute(g, auto)
  <2> PICK g \in Goals, auto \in BOOLEAN : Compute(g, auto)
    BY <1>2
  <2> PICK avoid \in FrontKeepouts \cup DynamicExclusions :
        cmd' = [NoCommand EXCEPT !.op = "compute", !.pc = "search", !.goal = g,
                                 !.auto = auto, !.avoid = avoid]
    BY DEF Compute
  <2>1. avoid \in SUBSET Places
    <3>1. Seen \subseteq Places
      BY DEF Seen, TypeOK
    <3> QED
      BY <3>1, Zenon DEF FrontKeepouts, DynamicExclusions, Tracked
  <2>2. cmd' \in CommandTypes
    BY <2>1, NoCommandTypes DEF CommandTypes
  <2> QED
    BY <1>0, <2>2, CountTypes DEF Compute, TypeOK, Counts, CommandTypes, States, world, pose,
       mission
<1>3. CASE Alternatives
  <2> DEFINE target == IF Recovering THEN "BLOCKED" ELSE "READY"
  <2> PICK avoid \in IF Recovering THEN PlanningExclusions ELSE {{}} :
        /\ cmd' = [NoCommand EXCEPT !.op = "alternatives", !.pc = "search", !.goal = dest,
                                    !.avoid = avoid, !.back = target]
        /\ back' = target
    BY <1>3 DEF Alternatives
  <2>1. avoid \in SUBSET Places
    <3>1. PlanningExclusions \subseteq SUBSET Places
      BY DEF PlanningExclusions, DynamicExclusions, Tracked, TypeOK
    <3> QED
      BY <3>1
  <2>2. target \in States
    BY DEF TypeOK, States
  <2>3. cmd' \in CommandTypes
    BY <2>1, <2>2, NoCommandTypes DEF CommandTypes, TypeOK
  <2> QED
    BY <1>0, <1>3, <2>2, <2>3, CountTypes
    DEF Alternatives, TypeOK, Counts, CommandTypes, States, world, pose, evidence
<1>4. CASE Back
  <2>1. CASE Forgets
    BY <1>0, <1>4, <2>1, CountTypes
    DEF Back, Forgets, NoRecord, NoRoute, TypeOK, Counts, States, world, pose, evidence
  <2>2. CASE ~Forgets
    BY <1>0, <1>4, <2>2, CountTypes DEF Back, TypeOK, Counts, world, pose, evidence
  <2> QED
    BY <2>1, <2>2
<1>5. CASE Cancel
  BY <1>0, <1>5, CountTypes
  DEF Cancel, Forgets, NoRecord, NoRoute, TypeOK, Counts, States, world, pose, evidence
<1>6. CASE \E r \in Routes : Select(r)
  <2> PICK r \in Routes : Select(r)
    BY <1>6
  <2>1. cmd' \in CommandTypes
    BY NoCommandTypes DEF Select, CommandTypes, TypeOK
  <2> QED
    BY <1>0, <2>1, CountTypes DEF Select, TypeOK, Counts, CommandTypes, world, pose, evidence,
       mission
<1>7. CASE \E r \in Routes : Start(r)
  <2> PICK r \in Routes : Start(r)
    BY <1>7
  <2>1. cmd' \in CommandTypes
    BY NoCommandTypes DEF Start, CommandTypes, Routes
  <2> QED
    BY <1>0, <2>1, CountTypes DEF Start, TypeOK, Counts, CommandTypes, world, pose, evidence,
       mission
<1>8. CASE NoneStarts
  BY <1>8 DEF NoneStarts, GivesUp, TypeOK, States, world, pose, evidence
<1> QED
  BY <1>1, <1>2, <1>3, <1>4, <1>5, <1>6, <1>7, <1>8 DEF Operator

\* The world and the sensors keep the types.
LEMMA SensorTypes ==
  ASSUME TypeOK, Sensors
  PROVE  TypeOK'
<1>0. spent \in Counts /\ cmd \in CommandTypes
  BY DEF TypeOK, Counts, CommandTypes
<1>1. CASE \E p \in Places : Appears(p) \/ Leaves(p)
  BY <1>0, <1>1, CountTypes
  DEF Appears, Leaves, TypeOK, Counts, world, pose, evidence, mission
<1>2. CASE \E p \in Places : Observe(p) \/ TrackExpires(p)
  <2> PICK p \in Places : Observe(p) \/ TrackExpires(p)
    BY <1>2
  <2>1. tracks' \in [Places -> 0 .. Confirmed]
    BY DEF Observe, TrackExpires, TypeOK
  <2> QED
    BY <2>1 DEF Observe, TrackExpires, TypeOK, world, pose, mission
<1>3. CASE \E p \in Places : SegmentExpires(p)
  BY <1>3 DEF SegmentExpires, TypeOK, world, pose, mission
<1>4. CASE PoseSlips
  <2>1. spent' \in Counts /\ aligned' \in BOOLEAN
    BY <1>0, <1>4, CountTypes DEF PoseSlips
  <2> QED
    BY <1>4, <2>1 DEF PoseSlips, TypeOK, Counts, world, evidence, mission
<1>5. CASE GlobalCostmap
  <2>1. costmap' \in [lethal : SUBSET Places, age : {"fresh", "stale"}]
    <3> PICK seen \in IF aligned THEN {blocked} ELSE {{}, Places} :
          costmap' = [lethal |-> Masked(seen), age |-> "fresh"]
      BY <1>5 DEF GlobalCostmap
    <3>1. seen \subseteq Places
      BY DEF TypeOK
    <3> QED
      BY <3>1 DEF Masked, TypeOK
  <2> QED
    BY <1>5, <2>1 DEF GlobalCostmap, TypeOK, world, pose, mission
<1>6. CASE CostmapAges
  BY <1>0, <1>6, CountTypes DEF CostmapAges, TypeOK, Counts, pose, mission
<1>7. CASE LoseLocalization
  <2>1. cmd' \in CommandTypes
    BY <1>0, <1>7 DEF LoseLocalization, Revoked, CommandTypes
  <2>2. spent' \in Counts
    BY <1>0, <1>7, CountTypes DEF LoseLocalization
  <2>3. ready' \in BOOLEAN
    BY <1>7 DEF LoseLocalization
  <2> QED
    BY <1>7, <2>1, <2>2, <2>3
    DEF LoseLocalization, TypeOK, Counts, CommandTypes, States, world, evidence, mission
<1>8. CASE FindLocalization
  BY <1>8 DEF FindLocalization, Reset, TypeOK, States, world, mission
<1> QED
  BY <1>1, <1>2, <1>3, <1>4, <1>5, <1>6, <1>7, <1>8 DEF Sensors

\* The mission that is driven or waits, and who interrupts it, keep the types.
LEMMA ExecutionTypes ==
  ASSUME TypeOK, Execution
  PROVE  TypeOK'
<1>0. spent \in Counts /\ cmd \in CommandTypes
  BY DEF TypeOK, Counts, CommandTypes
<1>a. Outdated \in CommandTypes /\ Revoked \in CommandTypes
  BY <1>0 DEF Outdated, Revoked, CommandTypes
<1>b. \A g \in Goals \cup {None}, auto \in BOOLEAN :
        [goal |-> g, auto |-> auto] \in [goal : Goals \cup {None}, auto : BOOLEAN]
  OBVIOUS
<1>c. \A r \in Routes : r \in [to : Goals \cup {None}, via : SUBSET Places, leg : BOOLEAN]
  BY DEF Routes
<1>d. \A g \in Goals \cup {None} : \A r \in Legs(g) :
        r \in [to : Goals \cup {None}, via : SUBSET Places, leg : BOOLEAN]
  BY DEF Legs
<1>1. CASE \E p \in Places : WayBlocked(p)
  <2> PICK p \in Places : WayBlocked(p)
    BY <1>1
  <2>1. spent' \in Counts /\ failed' \subseteq Places
    BY <1>0, CountTypes DEF WayBlocked, Mark, TypeOK
  <2>2. state' \in States /\ keepout' \in Places \cup {None}
    BY DEF WayBlocked, EntersWait, Relocates, TypeOK, States
  <2> QED
    BY <2>1, <2>2 DEF WayBlocked, TypeOK, Counts, CommandTypes, world, pose, mission
<1>2. CASE \E p \in Places : LocateBlocker(p)
  BY <1>2 DEF LocateBlocker, TypeOK, world, pose, mission
<1>3. ASSUME NEW r, r \in Routes \/ (r \in Legs(goal) /\ goal \in Goals \cup {None}), GoesOn(r)
      PROVE  TypeOK'
  <2>1. route' \in [to : Goals \cup {None}, via : SUBSET Places, leg : BOOLEAN]
    BY <1>3, <1>c, <1>d DEF GoesOn
  <2> QED
    BY <1>3, <2>1, <1>a, <1>b DEF GoesOn, TypeOK, CommandTypes, States, world, pose, evidence
<1>4. CASE \E R \in SUBSET Routes : PresentChoice(R)
  BY <1>4, <1>b DEF PresentChoice, TypeOK, States, world, pose, evidence
<1>5. CASE GiveUp
  BY <1>5, <1>b DEF GiveUp, GivesUp, TypeOK, States, world, pose, evidence
<1>6. CASE RenewWait
  BY <1>6, <1>b DEF RenewWait, EntersWait, TypeOK, States, world, pose
<1>7. CASE BayMissing
  BY <1>7 DEF BayMissing, EntersWait, TypeOK, States, world, pose, mission
<1>8. CASE BayFound
  <2>1. route' \in [to : Goals \cup {None}, via : SUBSET Places, leg : BOOLEAN]
    BY <1>8, <1>d DEF BayFound, TypeOK
  <2> QED
    BY <1>8, <2>1 DEF BayFound, TypeOK, States, world, pose, evidence
<1>9. CASE Stopped \/ SeekBay
  BY <1>9 DEF Stopped, SeekBay, EntersWait, Relocates, TypeOK, States, world, pose, mission
<1>10. CASE Arrive
  BY <1>10, <1>a
  DEF Arrive, NoRoute, NoRecord, TypeOK, CommandTypes, States, world, pose, evidence
<1>11. CASE TakeOver
  <2>1. state' \in States /\ record' \in [goal : Goals \cup {None}, auto : BOOLEAN]
    <3>1. Kept \in Goals \cup {None}
      BY DEF Kept, TypeOK
    <3>2. CASE state \in Driven \cup {"BLOCKED"}
      BY <1>11, <1>b, <3>1, <3>2, ZenonT(60) DEF TakeOver, TypeOK, States
    <3>3. CASE state \notin Driven \cup {"BLOCKED"}
      BY <1>11, <3>3 DEF TakeOver, TypeOK
    <3> QED
      BY <3>2, <3>3
  <2> QED
    BY <1>0, <1>11, <1>a, <2>1, CountTypes
    DEF TakeOver, TypeOK, Counts, CommandTypes, world, pose, evidence
<1>12. CASE EmergencyStop
  BY <1>0, <1>12, <1>a, CountTypes
  DEF EmergencyStop, TypeOK, Counts, CommandTypes, States, world, pose, evidence, mission
<1> QED
  <2>1. goal \in Goals \cup {None}
    BY DEF TypeOK
  <2>2. CASE (\E r \in Routes : Replanned(r)) \/ ReplannedEscape
    BY <1>3, <2>1, <2>2 DEF Replanned, ReplannedEscape
  <2> QED
    BY <1>1, <1>2, <2>2, <1>4, <1>5, <1>6, <1>7, <1>8, <1>9, <1>10, <1>11, <1>12 DEF Execution

\* Every variable keeps its type, and what the world has is where it can be.
THEOREM TypeCorrect == Spec => []TypeOK
<1>1. Init => TypeOK
  <2> SUFFICES ASSUME Init PROVE TypeOK
    OBVIOUS
  <2>1. cmd \in CommandTypes
    BY NoCommandTypes DEF Init
  <2>2. spent \in Counts
    BY DEF Init, Counts
  <2> QED
    BY <2>1, <2>2 DEF Init, TypeOK, CommandTypes, Counts, States, NoRecord, NoRoute
<1>2. TypeOK /\ UNCHANGED vars => TypeOK'
  BY DEF TypeOK, vars
<1> QED
  BY <1>1, <1>2, AnswerTypes, OperatorTypes, SensorTypes, ExecutionTypes, PTL DEF Spec, Next

-----------------------------------------------------------------------------
(* One destination.                                                        *)

Late == {"persist", "wait", "bay"}
Left == {"MANUAL_BYPASS", "CANCELED", "LOCALIZATION_LOST", "READY"}

\* What a command in progress knows: the state it works in or was put out of, the
\* destination of what it found, and what its recovery has written already.
CommandFits ==
  /\ cmd.op = "none" => cmd = NoCommand
  /\ cmd.op = "compute" => /\ state \in {"PLANNING"} \cup Left
                           /\ cmd.pc \in {"search", "validate", "commit"} \cup Late
  /\ cmd.op = "alternatives" => /\ state \in {"COMPUTING_ALTERNATIVES"} \cup Left
                                /\ cmd.pc \in {"search", "validate", "commit"}
                                /\ dest = cmd.goal
                                /\ cmd.back \in {"READY", "BLOCKED"}
  /\ cmd.op = "select" => /\ state \in {"ROUTE_SELECTION"} \cup Left
                          /\ cmd.pc \in {"begun", "validate", "commit"}
  /\ cmd.op = "start" => state \in Left /\ cmd.pc \in {"begun", "escape", "validate", "commit"}
  /\ cmd.op # "none" => cmd.goal \in Goals
  /\ cmd.found \subseteq To(cmd.goal)
  /\ cmd.pc \in Late => goal = cmd.goal /\ dest = cmd.goal
  /\ cmd.pc \in {"wait", "bay"} => record.goal = cmd.goal
  /\ back \in {"READY", "BLOCKED", "WAIT_FOR_DYNAMIC_CLEAR"}

OneMission == CommandFits /\ MissionIsOne

\* The fields of no command.
LEMMA NoCommandFields ==
  /\ NoCommand.op = "none" /\ NoCommand.pc = "idle" /\ NoCommand.found = {}
  BY DEF NoCommand

\* When no command is left, what is to be shown of it is nothing.
LEMMA CommandReturns ==
  ASSUME cmd' = NoCommand,
         back' \in {"READY", "BLOCKED", "WAIT_FOR_DYNAMIC_CLEAR"}
  PROVE  CommandFits'
  BY NoCommandFields DEF CommandFits, Late

\* What a plan that failed, or the recovery from it, leaves behind.
LEMMA NotPlannedFits ==
  ASSUME TypeOK, OneMission, cmd.op = "compute", cmd.pc \in {"validate", "commit"}, NotPlanned
  PROVE  OneMission'
<1>1. CASE PlanFailed
  <2>1. CommandFits'
    BY <1>1, CommandReturns DEF PlanFailed, Returns, mission, OneMission, CommandFits
  <2> QED
    BY <1>1, <2>1 DEF PlanFailed, OneMission, MissionIsOne
<1>2. CASE Recover
  <2> PICK next \in Escapes :
        cmd' = [cmd EXCEPT !.pc = "persist", !.found = {}, !.then = next, !.gen = next = "bay"]
    BY <1>2 DEF Recover
  <2>1. /\ cmd'.op = "compute" /\ cmd'.pc = "persist" /\ cmd'.goal = cmd.goal /\ cmd'.found = {}
        /\ state' = state /\ back' = back /\ goal' = cmd.goal /\ dest' = cmd.goal
    BY <1>2 DEF Recover, TypeOK
  <2>2. state \in {"PLANNING"} \cup Left
    BY DEF OneMission, CommandFits
  <2>3. CommandFits'
    BY <2>1, <2>2 DEF OneMission, CommandFits, Late
  <2>4. MissionIsOne'
    BY <2>1, <2>2 DEF MissionIsOne, Left
  <2> QED
    BY <2>3, <2>4 DEF OneMission
<1> QED
  BY <1>1, <1>2 DEF NotPlanned

\* A command that goes on with other candidates or another step.
LEMMA CommandGoesOn ==
  ASSUME OneMission, cmd'.op = cmd.op, cmd'.goal = cmd.goal, cmd'.back = cmd.back,
         cmd.op # "none", cmd'.found \subseteq To(cmd.goal),
         \/ cmd.op \in {"compute", "alternatives"} /\ cmd'.pc \in {"search", "validate", "commit"}
         \/ cmd.op \in {"select", "start"} /\ cmd'.pc \in {"begun", "validate", "commit"}
         \/ cmd.op = "start" /\ cmd'.pc = "escape",
         UNCHANGED <<state, mission>>
  PROVE  OneMission'
<1>1. CommandFits'
  BY DEF OneMission, CommandFits, Late, mission
<1>2. MissionIsOne'
  BY DEF OneMission, MissionIsOne, mission
<1> QED
  BY <1>1, <1>2 DEF OneMission

\* The answers to a command keep the destination one.
LEMMA AnswersFit ==
  ASSUME TypeOK, OneMission, Answers
  PROVE  OneMission'
<1>0. cmd \in CommandTypes
  BY DEF TypeOK, CommandTypes
<1>1. CASE Search
  <2> PICK found \in {{}} \cup {{r} : r \in FirstSearch \cup SearchedAgain(FirstSearch)} :
        cmd' = [cmd EXCEPT !.found = found, !.avoid = {},
                           !.pc = IF found = {} THEN "commit" ELSE "validate"]
    BY <1>1 DEF Search
  <2>1. found \subseteq To(cmd.goal)
    BY FoundTypes
  <2>2. /\ cmd'.op = cmd.op /\ cmd'.goal = cmd.goal /\ cmd'.back = cmd.back /\ cmd'.found = found
        /\ cmd'.pc \in {"validate", "commit"}
    BY <1>0 DEF CommandTypes
  <2> QED
    BY <1>1, <2>1, <2>2, CommandGoesOn DEF Search, At
<1>2. CASE ComputeEnds
  <2>1. CASE cmd.found = {}
    BY <1>2, <2>1, NotPlannedFits DEF ComputeEnds, At
  <2>2. CASE cmd.found # {}
    <3>1. cmd' = NoCommand /\ back' = "READY" /\ state' = "READY"
      BY <1>2, <2>2 DEF ComputeEnds, Returns
    <3>2. CommandFits'
      BY <3>1, CommandReturns
    <3> QED
      BY <3>1, <3>2 DEF OneMission, MissionIsOne
  <2> QED
    BY <2>1, <2>2
<1>3. CASE Persist
  <2>1. /\ cmd'.op = cmd.op /\ cmd'.goal = cmd.goal /\ cmd'.found = cmd.found
        /\ cmd'.pc \in {"wait", "bay"} /\ record'.goal = cmd.goal
    BY <1>0, <1>3 DEF Persist, Goes, CommandTypes
  <2>2. cmd.op = "compute" /\ state \in {"PLANNING"} \cup Left
    BY <1>0, <1>3, NoCommandFields DEF Persist, OneMission, CommandFits, CommandTypes
  <2>3. CommandFits'
    BY <1>3, <2>1, <2>2 DEF Persist, OneMission, CommandFits, Late
  <2>4. MissionIsOne'
    BY <1>3, <2>2 DEF Persist, MissionIsOne, Left
  <2> QED
    BY <2>3, <2>4 DEF OneMission
<1>4. CASE Wait
  <2>1. /\ cmd' = NoCommand /\ UNCHANGED mission /\ state' = "WAIT_FOR_DYNAMIC_CLEAR"
    BY <1>4 DEF Wait, EntersWait, Returns
  <2>2. goal = cmd.goal /\ dest = cmd.goal /\ record.goal = cmd.goal /\ cmd.goal \in Goals
    BY <1>4, NoCommandFields DEF Wait, OneMission, CommandFits, Late
  <2>3. CommandFits'
    BY <2>1, CommandReturns DEF mission, OneMission, CommandFits
  <2> QED
    BY <2>1, <2>2, <2>3 DEF OneMission, MissionIsOne, mission
<1>5. CASE StartBay
  <2>1. /\ cmd' = NoCommand /\ UNCHANGED mission /\ state' \in {state, "TURN_BAY_RECOVERY"}
    BY <1>5 DEF StartBay, Returns
  <2>2. goal = cmd.goal /\ dest = cmd.goal /\ record.goal = cmd.goal /\ cmd.goal \in Goals
    BY <1>5, NoCommandFields DEF StartBay, OneMission, CommandFits, Late
  <2>3. CommandFits'
    BY <2>1, CommandReturns DEF mission, OneMission, CommandFits
  <2> QED
    BY <2>1, <2>2, <2>3 DEF OneMission, MissionIsOne, mission
<1>6. CASE SearchAlternatives
  <2> PICK found \in SUBSET Around(cmd.goal, cmd.avoid) :
        cmd' = [cmd EXCEPT !.found = found, !.avoid = {},
                           !.pc = IF found = {} THEN "commit" ELSE "validate"]
    BY <1>6 DEF SearchAlternatives
  <2>1. found \subseteq To(cmd.goal)
    BY DEF Around, To
  <2>2. /\ cmd'.op = cmd.op /\ cmd'.goal = cmd.goal /\ cmd'.back = cmd.back /\ cmd'.found = found
        /\ cmd'.pc \in {"validate", "commit"}
    BY <1>0 DEF CommandTypes
  <2> QED
    BY <1>6, <2>1, <2>2, CommandGoesOn DEF SearchAlternatives, At
<1>7. CASE AlternativesEnd
  <2>1. cmd' = NoCommand /\ UNCHANGED <<dest, goal, back, record, route>>
    BY <1>7 DEF AlternativesEnd, Returns
  <2>2. CommandFits'
    BY <2>1, CommandReturns DEF OneMission, CommandFits
  <2>3. /\ dest = cmd.goal /\ cmd.found \subseteq To(cmd.goal)
        /\ cmd.back \in {"READY", "BLOCKED"}
    BY <1>7 DEF AlternativesEnd, At, OneMission, CommandFits
  <2>4. MissionIsOne'
    BY <1>7, <2>1, <2>3 DEF AlternativesEnd, MissionIsOne, To
  <2> QED
    BY <2>2, <2>4 DEF OneMission
<1>8. CASE Begun
  <2>1. CASE Goes("validate")
    <3>1. /\ cmd'.op = cmd.op /\ cmd'.goal = cmd.goal /\ cmd'.back = cmd.back
          /\ cmd'.found = cmd.found /\ cmd'.pc = "validate"
      BY <1>0, <2>1 DEF Goes, CommandTypes
    <3>2. cmd.op \in {"select", "start"}
      BY <1>0, <1>8, NoCommandFields DEF Begun, OneMission, CommandFits, CommandTypes, Late
    <3> QED
      BY <1>8, <3>1, <3>2, CommandGoesOn DEF Begun, OneMission, CommandFits
  <2>3. CASE cmd.op = "start" /\ Goes("escape")
    <3>1. /\ cmd'.op = cmd.op /\ cmd'.goal = cmd.goal /\ cmd'.back = cmd.back
          /\ cmd'.found = cmd.found /\ cmd'.pc = "escape"
      BY <1>0, <2>3 DEF Goes, CommandTypes
    <3> QED
      BY <1>8, <2>3, <3>1, CommandGoesOn DEF Begun, OneMission, CommandFits
  <2>2. CASE Returns
    <3>1. CommandFits'
      BY <1>8, <2>2, CommandReturns DEF Begun, Returns, mission, OneMission, CommandFits
    <3> QED
      BY <1>8, <3>1 DEF Begun, mission, OneMission, MissionIsOne
  <2> QED
    BY <1>8, <2>1, <2>2, <2>3 DEF Begun
<1>9. CASE StartEnds
  <2>1. CASE cmd.found = {} \/ Stale
    <3>1. CommandFits'
      BY <1>9, <2>1, CommandReturns DEF StartEnds, Returns, mission, OneMission, CommandFits
    <3> QED
      BY <1>9, <2>1, <3>1 DEF StartEnds, mission, OneMission, MissionIsOne
  <2>2. CASE ~(cmd.found = {} \/ Stale)
    <3> PICK r \in cmd.found : Drives(r)
      BY <1>9, <2>2 DEF StartEnds
    <3>1. r.to = cmd.goal /\ cmd.goal \in Goals
      BY <1>9 DEF StartEnds, OneMission, CommandFits, To
    <3>2. CommandFits'
      BY <1>9, CommandReturns DEF StartEnds, Returns, Drives, OneMission, CommandFits
    <3>3. MissionIsOne'
      BY <3>1 DEF Drives, MissionIsOne
    <3> QED
      BY <3>2, <3>3 DEF OneMission
  <2> QED
    BY <2>1, <2>2
<1>10. CASE Validate
  <2>1. /\ cmd'.op = cmd.op /\ cmd'.goal = cmd.goal /\ cmd'.back = cmd.back
        /\ cmd'.found \subseteq cmd.found /\ cmd'.pc = "commit"
    BY <1>0, <1>10 DEF Validate, Valid, CommandTypes
  <2>2. cmd.op \in {"compute", "alternatives", "select", "start"}
    BY <1>0, <1>10, NoCommandFields DEF Validate, OneMission, CommandFits, CommandTypes
  <2> QED
    BY <1>10, <2>1, <2>2, CommandGoesOn DEF Validate, OneMission, CommandFits
<1>11. CASE NotReady
  <2>1. CASE cmd.op = "compute"
    BY <1>11, <2>1, NotPlannedFits DEF NotReady
  <2>2. CASE cmd.op # "compute"
    <3>1. cmd' = NoCommand /\ UNCHANGED <<state, mission>>
      BY <1>11, <2>2 DEF NotReady, Returns
    <3>2. CommandFits'
      BY <3>1, CommandReturns DEF mission, OneMission, CommandFits
    <3> QED
      BY <3>1, <3>2 DEF mission, OneMission, MissionIsOne
  <2> QED
    BY <2>1, <2>2
<1>12. CASE StartEscape
  <2>0. CommandFits'
    BY <1>12, CommandReturns DEF StartEscape, Returns, Drives, mission, OneMission, CommandFits
  <2>1. CASE UNCHANGED <<state, mission>>
    BY <2>0, <2>1 DEF mission, OneMission, MissionIsOne
  <2>2. CASE \E leg \in Legs(cmd.goal) : Drives(leg) /\ UNCHANGED offers
    <3> PICK leg \in Legs(cmd.goal) : Drives(leg)
      BY <2>2
    <3>1. leg.to = cmd.goal
      BY DEF Legs
    <3>2. cmd.goal \in Goals
      BY <1>12, NoCommandFields DEF StartEscape, OneMission, CommandFits
    <3>3. MissionIsOne'
      BY <3>1, <3>2 DEF Drives, MissionIsOne
    <3> QED
      BY <2>0, <3>3 DEF OneMission
  <2> QED
    BY <1>12, <2>1, <2>2 DEF StartEscape
<1> QED
  BY <1>1, <1>2, <1>3, <1>4, <1>5, <1>6, <1>7, <1>8, <1>9, <1>10, <1>11, <1>12 DEF Answers

\* Forgetting a mission leaves nothing to agree on.
LEMMA ForgottenFits ==
  ASSUME Forgets, cmd' = NoCommand
  PROVE  OneMission'
<1>1. CommandFits'
  BY CommandReturns DEF Forgets
<1> QED
  BY <1>1 DEF Forgets, OneMission, MissionIsOne

\* The operator's commands keep the destination one.
LEMMA OperatorFits ==
  ASSUME TypeOK, OneMission, Operator
  PROVE  OneMission'
<1>0. cmd = NoCommand
  BY DEF Operator, ComputeRefused, Compute, Alternatives, Back, Cancel, NoneStarts, GivesUp,
     Select, Start
<1>1. CASE ComputeRefused
  <2>1. CommandFits'
    BY <1>1, CommandReturns
    DEF ComputeRefused, PlanFailed, Returns, mission, OneMission, CommandFits
  <2> QED
    BY <1>1, <2>1 DEF ComputeRefused, PlanFailed, OneMission, MissionIsOne
<1>2. CASE \E g \in Goals, auto \in BOOLEAN : Compute(g, auto)
  <2> PICK g \in Goals, auto \in BOOLEAN : Compute(g, auto)
    BY <1>2
  <2>1. cmd'.op = "compute" /\ cmd'.pc = "search" /\ cmd'.goal \in Goals /\ cmd'.found = {}
    BY DEF Compute, NoCommand
  <2>2. state' = "PLANNING" /\ UNCHANGED mission
    BY DEF Compute
  <2>3. CommandFits'
    BY <2>1, <2>2 DEF mission, OneMission, CommandFits, Late
  <2> QED
    BY <2>2, <2>3 DEF OneMission, MissionIsOne
<1>3. CASE Alternatives
  <2>1. /\ cmd'.op = "alternatives" /\ cmd'.pc = "search" /\ cmd'.goal = dest /\ cmd'.found = {}
        /\ cmd'.back = back'
    BY <1>3 DEF Alternatives, NoCommand
  <2>2. back' \in {"READY", "BLOCKED"}
    BY <1>3 DEF Alternatives
  <2>3. state' = "COMPUTING_ALTERNATIVES" /\ dest' = dest /\ dest \in Goals
    BY <1>3 DEF Alternatives, TypeOK
  <2>4. CommandFits'
    BY <2>1, <2>2, <2>3 DEF CommandFits, Late
  <2> QED
    BY <2>3, <2>4 DEF OneMission, MissionIsOne
<1>4. CASE Back
  <2>1. CASE back = "WAIT_FOR_DYNAMIC_CLEAR"
    BY <1>0, <1>4, <2>1, ForgottenFits DEF Back
  <2>2. CASE back # "WAIT_FOR_DYNAMIC_CLEAR"
    <3>1. CommandFits'
      BY <1>0, <1>4, <2>2, CommandReturns DEF Back, OneMission, CommandFits
    <3>2. state' \in {"READY", "BLOCKED"}
      BY <1>4, <2>2 DEF Back, OneMission, CommandFits
    <3> QED
      BY <3>1, <3>2 DEF OneMission, MissionIsOne
  <2> QED
    BY <2>1, <2>2
<1>5. CASE Cancel
  BY <1>0, <1>5, ForgottenFits DEF Cancel
<1>6. CASE \E r \in Routes : Select(r)
  <2> PICK r \in Routes : Select(r)
    BY <1>6
  <2>1. cmd'.op = "select" /\ cmd'.pc = "begun" /\ cmd'.goal = dest /\ cmd'.found = {r}
    BY DEF Select, NoCommand
  <2>2. state = "ROUTE_SELECTION" /\ UNCHANGED <<state, mission>>
    BY DEF Select
  <2>3. r.to = dest
    BY DEF Select, OneMission, MissionIsOne
  <2>4. r.to \in Goals
    BY DEF Routes
  <2>5. CommandFits'
    BY <2>1, <2>2, <2>3, <2>4 DEF mission, OneMission, CommandFits, Late, To
  <2> QED
    BY <2>2, <2>5 DEF mission, OneMission, MissionIsOne
<1>7. CASE \E r \in Routes : Start(r)
  <2> PICK r \in Routes : Start(r)
    BY <1>7
  <2>1. cmd'.op = "start" /\ cmd'.pc = "begun" /\ cmd'.goal = r.to /\ cmd'.found = {r}
    BY DEF Start, NoCommand
  <2>2. state = "READY" /\ UNCHANGED <<state, mission>>
    BY DEF Start
  <2>3. r.to \in Goals
    BY DEF Routes
  <2>4. CommandFits'
    BY <2>1, <2>2, <2>3 DEF mission, OneMission, CommandFits, Late, Left, To
  <2> QED
    BY <2>2, <2>4 DEF mission, OneMission, MissionIsOne
<1>8. CASE NoneStarts
  <2>1. cmd' = NoCommand /\ back' = back /\ state' = "BLOCKED"
    BY <1>8 DEF NoneStarts, GivesUp
  <2>2. CommandFits'
    BY <2>1, CommandReturns DEF OneMission, CommandFits
  <2> QED
    BY <2>1, <2>2 DEF OneMission, MissionIsOne
<1> QED
  BY <1>1, <1>2, <1>3, <1>4, <1>5, <1>6, <1>7, <1>8 DEF Operator

\* A command whose generation is over keeps what else it knows.
LEMMA Interrupted ==
  ASSUME TypeOK, cmd' \in {cmd, Outdated, Revoked}
  PROVE  /\ cmd'.op = cmd.op /\ cmd'.pc = cmd.pc /\ cmd'.goal = cmd.goal
         /\ cmd'.found = cmd.found /\ cmd'.back = cmd.back
         /\ cmd = NoCommand => cmd' = NoCommand
<1>0. cmd \in CommandTypes
  BY DEF TypeOK, CommandTypes
<1>1. CASE cmd' = cmd \/ cmd' = Outdated
  BY <1>0, <1>1 DEF Outdated, CommandTypes, NoCommand
<1>2. CASE cmd' = Revoked
  <2>1. /\ cmd'.op = cmd.op /\ cmd'.pc = cmd.pc /\ cmd'.goal = cmd.goal
        /\ cmd'.found = cmd.found /\ cmd'.back = cmd.back
    BY <1>0, <1>2 DEF Revoked, CommandTypes
  <2>2. ASSUME cmd = NoCommand PROVE cmd' = NoCommand
    <3>1. cmd' = [NoCommand EXCEPT !.gen = FALSE, !.revoked = FALSE]
      BY <1>2, <2>2, NoCommandFields DEF Revoked
    <3> QED
      BY <3>1 DEF NoCommand
  <2> QED
    BY <2>1, <2>2
<1> QED
  BY <1>1, <1>2

\* The world and the sensors keep the destination one.
LEMMA SensorsFit ==
  ASSUME TypeOK, OneMission, Sensors
  PROVE  OneMission'
<1>1. CASE LoseLocalization
  <2>1. cmd' = Revoked /\ state' = "LOCALIZATION_LOST" /\ UNCHANGED mission
    BY <1>1 DEF LoseLocalization
  <2>2. CommandFits'
    BY <2>1, Interrupted DEF OneMission, CommandFits, Left, mission
  <2> QED
    BY <2>1, <2>2 DEF OneMission, MissionIsOne
<1>2. CASE FindLocalization
  <2>1. cmd' = cmd /\ state' = "READY" /\ UNCHANGED mission
    BY <1>2 DEF FindLocalization
  <2>2. CommandFits'
    BY <2>1 DEF OneMission, CommandFits, Left, mission
  <2> QED
    BY <2>1, <2>2 DEF OneMission, MissionIsOne
<1>3. CASE UNCHANGED <<state, mission, cmd>>
  BY <1>3 DEF OneMission, CommandFits, MissionIsOne, mission
<1> QED
  BY <1>1, <1>2, <1>3
  DEF Sensors, Appears, Leaves, Observe, TrackExpires, SegmentExpires, PoseSlips, GlobalCostmap,
      CostmapAges

\* While the robot drives, waits or looks for a bay no command is in progress.
LEMMA DrivenAlone ==
  ASSUME TypeOK, OneMission,
         state \in {"NAVIGATING", "WAIT_FOR_DYNAMIC_CLEAR", "TURN_BAY_RECOVERY"}
  PROVE  cmd = NoCommand
<1>1. cmd.op \in {"none", "compute", "alternatives", "select", "start"}
  BY DEF TypeOK
<1> QED
  BY <1>1 DEF OneMission, CommandFits, Left

\* The mission that is driven or waits, and who interrupts it, keep it one.
LEMMA ExecutionFits ==
  ASSUME TypeOK, OneMission, Execution
  PROVE  OneMission'
<1>1. CASE TakeOver
  <2>1. cmd' = Revoked /\ UNCHANGED <<dest, goal, offers, back, route>>
    BY <1>1 DEF TakeOver
  <2>2. CASE state \in Driven \cup {"BLOCKED"}
    <3>1. state' = "MANUAL_BYPASS"
      BY <1>1, <2>2 DEF TakeOver
    <3>2. cmd.pc \in Late => cmd.goal \in Goals /\ Kept = cmd.goal
      BY NoCommandFields DEF OneMission, CommandFits, Late, Kept
    <3>3. cmd.pc \in {"wait", "bay"} => record'.goal = cmd.goal
      BY <1>1, <2>2, <3>2 DEF TakeOver, Late
    <3>4. CommandFits'
      BY <2>1, <3>1, <3>3, Interrupted DEF OneMission, CommandFits, Left
    <3> QED
      BY <3>1, <3>4 DEF OneMission, MissionIsOne
  <2>3. CASE state \notin Driven \cup {"BLOCKED"}
    <3>1. UNCHANGED <<state, record>>
      BY <1>1, <2>3 DEF TakeOver
    <3>2. CommandFits'
      BY <2>1, <3>1, Interrupted DEF OneMission, CommandFits
    <3> QED
      BY <2>1, <3>1, <3>2 DEF OneMission, MissionIsOne
  <2> QED
    BY <2>2, <2>3
<1>2. CASE EmergencyStop
  <2>1. cmd' = Revoked /\ UNCHANGED mission /\ state' \in {state, "CANCELED"}
    BY <1>2 DEF EmergencyStop
  <2>2. CommandFits'
    BY <2>1, Interrupted DEF OneMission, CommandFits, Left, mission
  <2> QED
    BY <2>1, <2>2 DEF OneMission, MissionIsOne, mission
<1>3. ASSUME ~TakeOver, ~EmergencyStop
      PROVE  OneMission'
  <2>1. state \in {"NAVIGATING", "WAIT_FOR_DYNAMIC_CLEAR", "TURN_BAY_RECOVERY"}
    BY <1>3 DEF Execution, WayBlocked, LocateBlocker, Stopped, SeekBay, Replanned,
       ReplannedEscape, GoesOn, EntersWait, Relocates, PresentChoice, GiveUp, GivesUp,
       RenewWait,
       BayMissing, BayFound, Arrive, Waiting, Driving
  <2>2. cmd' = NoCommand
    <3>1. cmd' \in {cmd, Outdated}
      BY <1>3 DEF Execution, WayBlocked, LocateBlocker, Stopped, SeekBay, Replanned,
         ReplannedEscape, GoesOn, EntersWait, Relocates, PresentChoice, GiveUp, GivesUp,
         RenewWait,
         BayMissing, BayFound, Arrive
    <3> QED
      BY <2>1, <3>1, DrivenAlone, Interrupted
  <2>3. back' \in {"READY", "BLOCKED", "WAIT_FOR_DYNAMIC_CLEAR"}
    <3>1. back' \in {back, "READY", "WAIT_FOR_DYNAMIC_CLEAR"}
      BY <1>3 DEF Execution, WayBlocked, LocateBlocker, Stopped, SeekBay, Replanned,
         ReplannedEscape, GoesOn, EntersWait, Relocates, PresentChoice, GiveUp, GivesUp,
         RenewWait,
         BayMissing, BayFound, Arrive, mission
    <3> QED
      BY <3>1 DEF OneMission, CommandFits
  <2>4. CommandFits'
    BY <2>2, <2>3, CommandReturns
  <2> SUFFICES MissionIsOne'
    BY <2>4 DEF OneMission
  <2>5. goal # None /\ dest = goal /\ record.goal = goal
    BY <2>1 DEF OneMission, MissionIsOne
  <2>6. CASE \E p \in Places : WayBlocked(p)
    BY <2>5, <2>6 DEF WayBlocked, EntersWait, Relocates, MissionIsOne, mission
  <2>7. CASE \E p \in Places : LocateBlocker(p)
    BY <2>7 DEF LocateBlocker, OneMission, MissionIsOne, mission
  <2>8. CASE (\E r \in Routes : Replanned(r)) \/ ReplannedEscape
    <3>1. PICK r : r.to = goal /\ GoesOn(r)
      BY <2>8 DEF Replanned, ReplannedEscape, Around, Legs
    <3> QED
      BY <2>5, <3>1 DEF GoesOn, MissionIsOne
  <2>9. CASE \E R \in SUBSET Routes : PresentChoice(R)
    BY <2>5, <2>9 DEF PresentChoice, Around, MissionIsOne
  <2>10. CASE GiveUp
    BY <2>10 DEF GiveUp, GivesUp, MissionIsOne
  <2>11. CASE RenewWait
    BY <2>5, <2>11 DEF RenewWait, EntersWait, Waiting, MissionIsOne
  <2>12. CASE BayMissing
    BY <2>5, <2>12 DEF BayMissing, EntersWait, MissionIsOne, mission
  <2>13. CASE BayFound
    BY <2>5, <2>13 DEF BayFound, Legs, MissionIsOne
  <2>14. CASE Stopped \/ SeekBay
    BY <2>5, <2>14 DEF Stopped, SeekBay, EntersWait, Relocates, MissionIsOne, mission
  <2>15. CASE Arrive
    BY <2>15 DEF Arrive, MissionIsOne
  <2> QED
    BY <1>3, <2>6, <2>7, <2>8, <2>9, <2>10, <2>11, <2>12, <2>13, <2>14, <2>15 DEF Execution
<1> QED
  BY <1>1, <1>2, <1>3

\* Every command and every step of the mission keeps the destination one.
LEMMA MissionStaysOne == Spec => []OneMission
<1>1. Init => OneMission
  BY NoCommandFields DEF Init, OneMission, CommandFits, MissionIsOne, Late, To
<1>2. OneMission /\ UNCHANGED vars => OneMission'
  BY DEF OneMission, CommandFits, MissionIsOne, vars
<1> QED
  BY <1>1, <1>2, TypeCorrect, AnswersFit, OperatorFits, SensorsFit, ExecutionFits, PTL
  DEF Spec, Next

\* What is driven, what waits, what is kept for a restart and what the operator may
\* choose from lead to one destination.
THEOREM OneDestination == Spec => []MissionIsOne
<1>1. OneMission => MissionIsOne
  BY DEF OneMission
<1> QED
  BY <1>1, MissionStaysOne, PTL

-----------------------------------------------------------------------------
(* What was seen under another pose.                                       *)

\* With a pose that was verified no obstacle is tracked where nothing ever stands:
\* a verification forgets what the pose before it saw, and nothing else writes
\* there.
THEOREM NothingImagined == Spec => []TracksAreReal
<1>1. Init => TracksAreReal
  BY DEF Init, TracksAreReal
<1>2. TypeOK /\ TracksAreReal /\ [Next]_vars => TracksAreReal'
  <2> SUFFICES ASSUME TypeOK, TracksAreReal, [Next]_vars PROVE TracksAreReal'
    OBVIOUS
  <2>0. ready /\ aligned => Seen \cap Open = {} /\ OnRoute \cap Open = {}
    <3>1. ASSUME ready, aligned PROVE Tracked \cap Open = {}
      BY <3>1 DEF TracksAreReal, Tracked
    <3> QED
      BY <3>1 DEF Seen, OnRoute, TypeOK
  <2>1. CASE Answers
    <3>1. UNCHANGED <<ready, aligned, tracks>> /\ keepout' \in {keepout, None}
      BY <2>1 DEF Answers, Search, ComputeEnds, Persist, Wait, EntersWait, StartBay,
         SearchAlternatives, AlternativesEnd, Begun, StartEscape, StartEnds, Validate, NotReady,
         pose, evidence
    <3> QED
      BY <3>1 DEF TracksAreReal
  <2>2. CASE Operator
    <3>1. UNCHANGED <<ready, aligned, tracks>> /\ keepout' \in {keepout, None}
      BY <2>2 DEF Operator, ComputeRefused, Compute, Alternatives, Back, Cancel, NoneStarts,
         GivesUp, Select, Start,
         pose, evidence
    <3> QED
      BY <3>1 DEF TracksAreReal
  <2>3. CASE Sensors
    <3>1. CASE \E p \in Places : Observe(p)
      <4> PICK p \in Places : Observe(p)
        BY <3>1
      <4>1. ready' = ready /\ aligned' = aligned /\ keepout' = keepout
        BY DEF Observe, pose
      <4>2. \A q \in Places : q # p => tracks'[q] = tracks[q]
        BY DEF Observe, TypeOK
      <4>3. ready /\ aligned => p \notin Open
        BY <2>0 DEF Observe
      <4> QED
        BY <4>1, <4>2, <4>3 DEF TracksAreReal
    <3>2. CASE \E p \in Places : TrackExpires(p)
      <4> PICK p \in Places : TrackExpires(p)
        BY <3>2
      <4>1. ready' = ready /\ aligned' = aligned /\ keepout' = keepout
        BY DEF TrackExpires, pose
      <4>2. \A q \in Places : tracks'[q] = tracks[q] \/ tracks'[q] = 0
        BY DEF TrackExpires, TypeOK
      <4> QED
        BY <4>1, <4>2 DEF TracksAreReal
    <3>3. CASE PoseSlips \/ LoseLocalization
      BY <3>3 DEF PoseSlips, LoseLocalization, TracksAreReal
    <3>4. CASE FindLocalization
      BY <3>4 DEF FindLocalization, Reset, TracksAreReal
    <3>5. CASE UNCHANGED <<ready, aligned, tracks, keepout>>
      BY <3>5 DEF TracksAreReal
    <3> QED
      BY <2>3, <3>1, <3>2, <3>3, <3>4, <3>5
      DEF Sensors, Appears, Leaves, SegmentExpires, GlobalCostmap, CostmapAges, pose, evidence
  <2>4. CASE Execution
    <3>1. CASE \E p \in Places : LocateBlocker(p)
      <4> PICK p \in Places : LocateBlocker(p)
        BY <3>1
      <4>1. UNCHANGED <<ready, aligned, tracks>> /\ keepout' = p
        BY DEF LocateBlocker, pose
      <4>2. ready /\ aligned => p \notin Open
        BY <2>0 DEF LocateBlocker
      <4> QED
        BY <4>1, <4>2 DEF TracksAreReal
    <3>2. CASE UNCHANGED <<ready, aligned, tracks>> /\ keepout' \in {keepout, None}
      BY <3>2 DEF TracksAreReal
    <3> QED
      BY <2>4, <3>1, <3>2
      DEF Execution, WayBlocked, Stopped, SeekBay, Replanned, ReplannedEscape, GoesOn, EntersWait,
          Relocates, PresentChoice, GiveUp, GivesUp, RenewWait, BayMissing, BayFound,
          Arrive, TakeOver,
          EmergencyStop, pose, evidence
  <2>5. CASE UNCHANGED vars
    BY <2>5 DEF vars, TracksAreReal
  <2> QED
    BY <2>1, <2>2, <2>3, <2>4, <2>5 DEF Next
<1> QED
  BY <1>1, <1>2, TypeCorrect, PTL DEF Spec

-----------------------------------------------------------------------------
(* A choice that was revoked.                                              *)

RevokedIsOld == cmd.op = "select" /\ cmd.revoked => ~cmd.gen

\* A takeover, an emergency stop and a loss of localization end the generation of the
\* choice they revoke, and no step of the choice begins another.
LEMMA RevokedStaysOld == Spec => []RevokedIsOld
<1>1. Init => RevokedIsOld
  BY NoCommandFields DEF Init, RevokedIsOld
<1>2. TypeOK /\ OneMission /\ RevokedIsOld /\ [Next]_vars => RevokedIsOld'
  <2> SUFFICES ASSUME TypeOK, OneMission, RevokedIsOld, [Next]_vars PROVE RevokedIsOld'
    OBVIOUS
  <2>0. cmd \in CommandTypes
    BY DEF TypeOK, CommandTypes
  <2>1. CASE cmd' = NoCommand
    BY <2>1, NoCommandFields DEF RevokedIsOld
  <2>2. CASE cmd' \in {cmd, Outdated, Revoked}
    BY <2>0, <2>2 DEF RevokedIsOld, Outdated, Revoked, CommandTypes
  <2>3. CASE Operator
    BY <2>3, NoCommandFields
    DEF Operator, ComputeRefused, PlanFailed, Returns, Compute, Alternatives, Back, Cancel,
        NoneStarts, GivesUp, Select, Start, NoCommand, RevokedIsOld
  <2>4. CASE Answers
    <3>1. ASSUME ~(cmd.op = "compute") PROVE RevokedIsOld'
      <4>1. CASE cmd' = NoCommand
        BY <2>1, <4>1
      <4>2. CASE cmd' # NoCommand
        <5>1. cmd'.op = cmd.op /\ cmd'.gen = cmd.gen /\ cmd'.revoked = cmd.revoked
          BY <2>0, <2>4, <3>1, <4>2, NoCommandFields
          DEF Answers, Search, ComputeEnds, Persist, Wait, StartBay, SearchAlternatives,
              AlternativesEnd, Begun, StartEscape, StartEnds, Validate, NotReady, Goes, Returns,
              At, OneMission, CommandFits, Late, CommandTypes
        <5> QED
          BY <5>1 DEF RevokedIsOld
      <4> QED
        BY <4>1, <4>2
    <3>2. ASSUME cmd.op = "compute" PROVE cmd'.op = "compute" \/ cmd' = NoCommand
      BY <2>0, <2>4, <3>2, ZenonT(60)
      DEF Answers, Search, ComputeEnds, Persist, Wait, StartBay, SearchAlternatives,
          AlternativesEnd, Begun, StartEscape, StartEnds, Validate, NotReady, NotPlanned,
          PlanFailed, Recover, Goes, Returns, At, OneMission, CommandFits, CommandTypes
    <3> QED
      BY <2>1, <3>1, <3>2 DEF RevokedIsOld
  <2>5. CASE Sensors \/ Execution \/ UNCHANGED vars
    <3>1. cmd' \in {cmd, Outdated, Revoked}
      BY <2>5 DEF Sensors, Appears, Leaves, Observe, TrackExpires, SegmentExpires, PoseSlips,
         GlobalCostmap, CostmapAges, LoseLocalization, FindLocalization, Execution, WayBlocked,
         LocateBlocker, Stopped, SeekBay, Replanned, ReplannedEscape, GoesOn, EntersWait,
         Relocates, PresentChoice, GiveUp, GivesUp, RenewWait, BayMissing, BayFound, Arrive,
         TakeOver,
         EmergencyStop, vars
    <3> QED
      BY <2>2, <3>1
  <2> QED
    BY <2>3, <2>4, <2>5 DEF Next
<1> QED
  BY <1>1, <1>2, TypeCorrect, MissionStaysOne, PTL DEF Spec

\* A route chosen before a takeover, an emergency stop or a loss of localization is
\* not driven after it: the choice belongs to a generation that is over.
THEOREM RevokedIsNotDriven == Spec => RevokedChoiceIsNotDriven
<1>1. TypeOK /\ OneMission /\ RevokedIsOld /\ [Next]_vars =>
        [cmd.op = "select" /\ cmd.revoked => state' # "NAVIGATING" \/ state = "NAVIGATING"]_vars
  <2> SUFFICES ASSUME TypeOK, OneMission, RevokedIsOld, Next, cmd.op = "select", cmd.revoked,
                      state' = "NAVIGATING"
               PROVE  state = "NAVIGATING"
    OBVIOUS
  <2>0. cmd # NoCommand /\ ~cmd.gen /\ state \in {"ROUTE_SELECTION"} \cup Left
    BY NoCommandFields DEF RevokedIsOld, OneMission, CommandFits
  <2>1. ~Operator
    BY <2>0 DEF Operator, ComputeRefused, Compute, Alternatives, Back, Cancel, NoneStarts,
       GivesUp, Select, Start
  <2>2. ASSUME Answers PROVE state' = state
    BY <2>0, <2>2
    DEF Answers, Search, ComputeEnds, Persist, Wait, StartBay, SearchAlternatives,
        AlternativesEnd, Begun, StartEscape, StartEnds, Stale, Validate, NotReady, At, OneMission,
        CommandFits, Late
  <2>3. ASSUME Sensors PROVE state' \in {state, "READY", "LOCALIZATION_LOST"}
    BY <2>3 DEF Sensors, Appears, Leaves, Observe, TrackExpires, SegmentExpires, PoseSlips,
       GlobalCostmap, CostmapAges, LoseLocalization, FindLocalization
  <2>4. ASSUME Execution PROVE state' \in {state, "MANUAL_BYPASS", "CANCELED"}
    BY <2>0, <2>4 DEF Left, Execution, WayBlocked, LocateBlocker, Stopped, SeekBay, Replanned,
       ReplannedEscape, GoesOn, EntersWait, Relocates, PresentChoice, GiveUp, GivesUp,
       RenewWait,
       BayMissing, BayFound, Arrive, TakeOver, EmergencyStop, Waiting, Driving
  <2> QED
    BY <2>1, <2>2, <2>3, <2>4 DEF Next
<1> QED
  BY <1>1, TypeCorrect, MissionStaysOne, RevokedStaysOld, PTL DEF Spec, RevokedChoiceIsNotDriven

-----------------------------------------------------------------------------
(* Obstacles that have stood for long.                                     *)

\* With a true pose a costmap that is accepted has them, and so what was validated
\* on one avoids them.
ImageIsTrue ==
  /\ aligned /\ costmap.age = "fresh" => settled \subseteq costmap.lethal
  /\ aligned /\ cmd.pc = "commit" => \A r \in cmd.found : r.via \cap settled = {}

\* The world, the costmap and the candidates stay in step.
LEMMA ImageStaysTrue == Spec => []ImageIsTrue
<1>1. Init => ImageIsTrue
  BY NoCommandFields DEF Init, ImageIsTrue
<1>2. TypeOK /\ ImageIsTrue /\ [Next]_vars => ImageIsTrue'
  <2> SUFFICES ASSUME TypeOK, ImageIsTrue, [Next]_vars PROVE ImageIsTrue'
    OBVIOUS
  <2>0. cmd \in CommandTypes
    BY DEF TypeOK, CommandTypes
  <2>1. CASE Answers
    <3>1. UNCHANGED <<aligned, settled, costmap>>
      BY <2>1 DEF Answers, Search, ComputeEnds, Persist, Wait, StartBay, SearchAlternatives,
         AlternativesEnd, Begun, StartEscape, StartEnds, Validate, NotReady, pose, world, evidence
    <3>2. CASE Validate
      <4>1. cmd'.found = Valid(cmd.found) /\ costmap.age = "fresh"
        BY <2>0, <3>2 DEF Validate, CommandTypes
      <4> QED
        BY <3>1, <4>1 DEF ImageIsTrue, Valid, Executable
    <3>3. CASE ~Validate
      <4>1. cmd'.pc # "commit" \/ cmd'.found = {}
        BY <2>0, <2>1, <3>3, NoCommandFields
        DEF Answers, Search, ComputeEnds, Persist, Wait, StartBay, SearchAlternatives,
            AlternativesEnd, Begun, StartEscape, StartEnds, NotReady, NotPlanned, PlanFailed,
            Recover, Goes, Returns, CommandTypes
      <4> QED
        BY <3>1, <4>1 DEF ImageIsTrue
    <3> QED
      BY <3>2, <3>3
  <2>2. CASE Operator
    <3>1. UNCHANGED <<aligned, settled, costmap>> /\ cmd'.pc # "commit"
      BY <2>2, NoCommandFields, ZenonT(60)
      DEF Operator, ComputeRefused, PlanFailed, Returns, Compute, Alternatives, Back, Cancel,
          NoneStarts, GivesUp, Select, Start, NoCommand, pose, world, evidence
    <3> QED
      BY <3>1 DEF ImageIsTrue
  <2>3. CASE Sensors
    <3>1. CASE LoseLocalization
      <4>1. UNCHANGED <<aligned, settled, costmap>>
        BY <3>1 DEF LoseLocalization, world, evidence
      <4>2. cmd'.pc = cmd.pc /\ cmd'.found = cmd.found
        BY <3>1, Interrupted DEF LoseLocalization
      <4> QED
        BY <4>1, <4>2 DEF ImageIsTrue
    <3>2. CASE FindLocalization
      BY <3>2 DEF FindLocalization, Reset, ImageIsTrue
    <3>3. CASE PoseSlips
      BY <3>3 DEF PoseSlips, ImageIsTrue
    <3>4. CASE CostmapAges
      BY <3>4 DEF CostmapAges, ImageIsTrue
    <3>5. CASE GlobalCostmap
      <4>1. UNCHANGED <<aligned, settled, cmd>>
        BY <3>5 DEF GlobalCostmap, world, pose
      <4>2. aligned => costmap' = [lethal |-> Masked(blocked), age |-> "fresh"]
        BY <3>5 DEF GlobalCostmap
      <4>3. settled \subseteq Masked(blocked)
        BY DEF Masked, TypeOK
      <4> QED
        BY <4>1, <4>2, <4>3 DEF ImageIsTrue
    <3>6. CASE UNCHANGED <<aligned, costmap, cmd>> /\ settled' \subseteq settled
      BY <3>6 DEF ImageIsTrue
    <3> QED
      BY <2>3, <3>1, <3>2, <3>3, <3>4, <3>5, <3>6
      DEF Sensors, Appears, Leaves, Observe, TrackExpires, SegmentExpires, pose, world, evidence
  <2>4. CASE Execution \/ UNCHANGED vars
    <3>1. UNCHANGED <<aligned, settled, costmap>> /\ cmd' \in {cmd, Outdated, Revoked}
      BY <2>4 DEF Execution, WayBlocked, LocateBlocker, Stopped, SeekBay, Replanned,
         ReplannedEscape, GoesOn, EntersWait, Relocates, PresentChoice, GiveUp, GivesUp,
         RenewWait,
         BayMissing, BayFound, Arrive, TakeOver, EmergencyStop, pose, world, evidence, vars
    <3>2. cmd'.pc = cmd.pc /\ cmd'.found = cmd.found
      BY <3>1, Interrupted
    <3> QED
      BY <3>1, <3>2 DEF ImageIsTrue
  <2> QED
    BY <2>1, <2>2, <2>3, <2>4 DEF Next
<1> QED
  BY <1>1, <1>2, TypeCorrect, PTL DEF Spec

\* No route to a goal is driven through an obstacle that has stood for longer than a
\* costmap is accepted: the routes of a command were validated on a costmap that has
\* it, the mission's own replans look at one themselves, and what else begins to be
\* driven is a leg.
THEOREM OldObstaclesAvoided == Spec => OldObstaclesAreAvoided
<1>1. TypeOK /\ OneMission /\ ImageIsTrue /\ [Next]_vars =>
        [NewRoute /\ ~route'.leg /\ aligned => route'.via \cap settled = {}]_vars
  <2> SUFFICES ASSUME TypeOK, OneMission, ImageIsTrue, Next, NewRoute, ~route'.leg, aligned
               PROVE  route'.via \cap settled = {}
    OBVIOUS
  <2>0. state' = "NAVIGATING" /\ (state # "NAVIGATING" \/ route' # route)
    BY DEF NewRoute
  <2>1. CASE Answers
    <3>1. StartEscape \/ (StartEnds /\ ~(cmd.found = {} \/ Stale))
      BY <2>0, <2>1 DEF Answers, Search, ComputeEnds, NotPlanned, PlanFailed, Recover, Persist,
         Wait, EntersWait, StartBay, SearchAlternatives, AlternativesEnd, Begun, StartEnds,
         Validate, NotReady, At, OneMission, CommandFits, Left, mission
    <3>2. CASE StartEscape
      BY <2>0, <3>2 DEF StartEscape, Drives, Legs, mission
    <3>3. CASE StartEnds /\ ~(cmd.found = {} \/ Stale)
      <4>1. cmd.pc = "commit" /\ \E r \in cmd.found : Drives(r)
        BY <3>3 DEF StartEnds
      <4> QED
        BY <4>1 DEF Drives, ImageIsTrue
    <3> QED
      BY <3>1, <3>2, <3>3
  <2>2. CASE Operator
    BY <2>0, <2>2 DEF Operator, ComputeRefused, PlanFailed, Compute, Alternatives, Back, Forgets,
       Cancel, NoneStarts, GivesUp, Select, Start, OneMission, CommandFits, mission
  <2>3. CASE Sensors
    BY <2>0, <2>3 DEF Sensors, Appears, Leaves, Observe, TrackExpires, SegmentExpires, PoseSlips,
       GlobalCostmap, CostmapAges, LoseLocalization, FindLocalization, mission
  <2>4. CASE Execution
    <3>1. (\E r \in Routes : Replanned(r)) \/ ReplannedEscape \/ BayFound
      BY <2>0, <2>4 DEF Execution, WayBlocked, LocateBlocker, Stopped, SeekBay, EntersWait,
         Relocates, PresentChoice, GiveUp, GivesUp, RenewWait, BayMissing, Arrive, TakeOver,
         EmergencyStop,
         Waiting, mission
    <3>2. CASE \E r \in Routes : Replanned(r)
      BY <3>2 DEF Replanned, GoesOn, Executable, ImageIsTrue
    <3>3. CASE ReplannedEscape \/ BayFound
      BY <3>3 DEF ReplannedEscape, GoesOn, BayFound, Legs
    <3> QED
      BY <3>1, <3>2, <3>3
  <2> QED
    BY <2>1, <2>2, <2>3, <2>4 DEF Next
<1> QED
  BY <1>1, TypeCorrect, MissionStaysOne, ImageStaysTrue, PTL DEF Spec, OldObstaclesAreAvoided
=============================================================================
