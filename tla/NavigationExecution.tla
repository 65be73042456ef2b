------------------------ MODULE NavigationExecution ------------------------
(***************************************************************************)
(* The execution of a mission by NavigationAdapter                         *)
(* (navigation-stack/adapter_node.py): the operator's commands on the IPC  *)
(* thread, the timers of the default callback group, the safety callbacks, *)
(* and a thread for every plan, dispatch and recovery.  They share one     *)
(* state with two counters, navigation_goal_generation and                 *)
(* execution_segment_token, by which a thread recognises that what it      *)
(* captured is out of date.                                                *)
(*                                                                         *)
(* A counter is only compared for equality with the copy a thread holds,   *)
(* so the model keeps with every thread whether its copies are current     *)
(* (gen, token) and an increment makes all copies stale.  What a thread    *)
(* does between a check and a write is one step unless a planner, a        *)
(* validator, a classifier or an action call lies between.  The two        *)
(* spellings of WAIT_FOR_DYNAMIC_CLEAR are one state; ROUTE_SELECTION is   *)
(* called AUTO_SELECTION once its countdown is over;                       *)
(* stop_turn_require_final_yaw is false, as in nav2_params.yaml.           *)
(***************************************************************************)
EXTENDS Naturals, FiniteSets

CONSTANTS
  Segments,    \* segments of a planned route
  Faults,      \* of "crash" and "localization"
  MaxThreads   \* bound: nothing new begins while so many threads are in progress

ASSUME SegmentAssumption == Segments \in Nat \ {0}
ASSUME FaultsAssumption == Faults \subseteq {"crash", "localization"}
ASSUME ThreadsAssumption == MaxThreads \in Nat

VARIABLES
  state,       \* current_state
  phase,       \* execution_phase
  owner,       \* motion_owner = "NAVIGATION"
  goal,        \* a destination is kept: execution_goal or paused_goal
  last,        \* number of segments of execution_points
  index,       \* execution_segment_index
  active,      \* active_segment is set; its token is the current one
  relocation,  \* execution_relocation_reason: of a leg that only makes room
  handle,      \* current_goal_handle: none, of the running goal, of an old one
  context,     \* an automatic resume after a loss of localization: none, due, begun
  record,      \* the mission file: none, resume automatically, or held
  tasks,       \* threads, callbacks and FollowPath goals in progress
  pos,         \* the waypoint of the route that the robot has reached
  canceled     \* history: navigation.cancel is the last command that ended

vars == <<state, phase, owner, goal, last, index, active, relocation, handle,
          context, record, tasks, pos, canceled>>

States == {"READY", "PLANNING", "NAVIGATING", "WAIT_FOR_DYNAMIC_CLEAR",
           "DYNAMIC_REPLAN", "ROUTE_SELECTION", "AUTO_SELECTION", "TURN_BAY_RECOVERY",
           "BLOCKED", "PAUSED", "CANCELED", "MANUAL_BYPASS", "SUCCEEDED", "LOCALIZATION_LOST"}
Phases == {"IDLE", "STRAIGHT_PREPARE", "DISPATCHING_STRAIGHT", "STRAIGHT", "TURN",
           "WAIT_FOR_TURN_CLEAR", "TURN_SETTLING", "RECOVERING", "TURN_BAY_SEARCH",
           "WAIT_FOR_DYNAMIC_CLEAR"}
Selecting == {"ROUTE_SELECTION", "AUTO_SELECTION"}
Turning == {"TURN", "TURN_SETTLING", "WAIT_FOR_TURN_CLEAR"}

Steps == [op |-> {"canceling", "pausing", "cancel_ack", "pause_ack", "starting",
                  "selected", "resume", "resuming", "persist"},
          tick |-> {"finish", "prepare", "anchor", "escape", "clear", "complete",
                    "restart", "replan", "wait", "classified", "reenter", "turn", "begin"},
          sender |-> {"start", "sent", "accepted"},
          goal |-> {"accepted", "running", "canceling"},
          result |-> {"SUCCEEDED", "ABORTED", "CANCELED", "finish"},
          replan |-> {"start", "planned"},
          dynamic |-> {"start", "planned"},
          bypass |-> {"start", "planned"},
          bay |-> {"start", "planned"},
          auto |-> {"start", "planned"},
          recover |-> {"planned"},
          record |-> {"persist"}]

Relocations == {"none", "START_ESCAPE", "TURN_BAY"}

Tasks == UNION {[kind : {k}, pc : Steps[k], gen : BOOLEAN, token : BOOLEAN,
                 index : 0 .. Segments] : k \in DOMAIN Steps}

\* The tasks that hold a token and a segment index next to the generation.
Segmental(kind, pc) == kind \in {"sender", "goal", "result"} \/ pc \in {"complete", "clear"}

Task(kind, pc) == [kind |-> kind, pc |-> pc, gen |-> TRUE, token |-> Segmental(kind, pc),
                   index |-> IF Segmental(kind, pc) THEN index ELSE 0]
Goes(t, pc) == [t EXCEPT !.pc = pc]
Running(kind) == \E t \in tasks : t.kind = kind
Goals == {t \in tasks : t.kind = "goal"}

TypeOK ==
  /\ state \in States /\ phase \in Phases
  /\ owner \in BOOLEAN /\ goal \in BOOLEAN /\ active \in BOOLEAN
  /\ relocation \in Relocations
  /\ last \in 0 .. Segments /\ index \in 0 .. Segments /\ pos \in 0 .. Segments
  /\ handle \in {"none", "goal", "old"}
  /\ record \in {"none", "auto", "held"} /\ context \in {"none", "due", "begun"}
  /\ tasks \subseteq Tasks
  /\ canceled \in BOOLEAN

Init ==
  /\ state = "READY" /\ phase = "IDLE"
  /\ owner = FALSE /\ goal = FALSE /\ active = FALSE
  /\ relocation = "none"
  /\ last = 0 /\ index = 0 /\ pos = 0
  /\ handle = "none" /\ record = "none" /\ context = "none"
  /\ tasks = {} /\ canceled = FALSE

-----------------------------------------------------------------------------
(* The counters.                                                           *)

\* Only the token says whether a goal or its result is current.
Stale(t) == [t EXCEPT !.token = FALSE, !.index = 0, !.gen = @ /\ t.kind # "goal"]

\* What returns without a trace once it is out of date is dropped with its counter.
TokenEnds == {<<"result", pc>> : pc \in {"SUCCEEDED", "ABORTED", "CANCELED"}}
             \cup {<<"sender", "start">>}
GenerationEnds == TokenEnds \cup {<<"result", "finish">>, <<"replan", "start">>,
                                  <<"bay", "planned">>, <<"recover", "planned">>}
                            \cup ({"dynamic", "bypass", "auto"} \X {"start", "planned"})

NewToken(S) == {Stale(t) : t \in {u \in S : <<u.kind, u.pc>> \notin TokenEnds}}
\* What the operator's thread and a write of the file do, they do in any generation.
NewGeneration(S) ==
  {[Stale(t) EXCEPT !.gen = t.kind \in {"op", "record"} /\ t.pc # "selected"] :
     t \in {u \in S : <<u.kind, u.pc>> \notin GenerationEnds}}

\* _segment_callback_current.
Current(t) == t.gen /\ active /\ t.token /\ t.index = index

\* cancel_goal_async on the current handle, asked of the tasks S.
Revoked(S) ==
  IF handle = "goal"
    THEN {IF t.kind = "goal" /\ t.pc = "running" THEN Goes(t, "canceling") ELSE t : t \in S}
    ELSE S

Revoke == handle' = "none" /\ owner' = FALSE /\ active' = FALSE
Route == <<last, index, pos, relocation>>

-----------------------------------------------------------------------------
(* What the threads have in common.  S is what is left of tasks.           *)

\* _enter_dynamic_wait.
EnterWait(S) ==
  \/ /\ state = "WAIT_FOR_DYNAMIC_CLEAR"
     /\ tasks' = S
     /\ UNCHANGED <<state, phase, owner, goal, Route, active, handle, context, record, canceled>>
  \/ /\ state # "WAIT_FOR_DYNAMIC_CLEAR"
     /\ state' = "WAIT_FOR_DYNAMIC_CLEAR" /\ phase' = "WAIT_FOR_DYNAMIC_CLEAR"
     /\ Revoke
     /\ tasks' = NewToken(Revoked(S))
     /\ UNCHANGED <<goal, Route, context, record, canceled>>

Ignore(S) ==
  /\ tasks' = S
  /\ UNCHANGED <<state, phase, owner, goal, Route, active, handle, context, record, canceled>>

\* _schedule_execution_replan: live blockage and an exhausted budget wait.
ScheduleReplan(t, S) ==
  \/ (~t.gen \/ phase = "RECOVERING") /\ Ignore(S)
  \/ t.gen /\ phase # "RECOVERING" /\ EnterWait(S)
  \/ /\ t.gen /\ phase # "RECOVERING"
     /\ phase' = "RECOVERING"
     /\ Revoke
     /\ tasks' = NewToken(Revoked(S)) \cup {Task("replan", "start")}
     /\ UNCHANGED <<state, goal, Route, context, record, canceled>>

\* _restart_segment_from_current.
RestartSegment(t, S) ==
  \/ ~t.gen /\ Ignore(S)
  \/ /\ t.gen
     /\ phase' = "STRAIGHT_PREPARE"
     /\ Revoke
     /\ tasks' = NewToken(Revoked(S))
     /\ UNCHANGED <<state, goal, Route, context, record, canceled>>

\* _start_turn_bay_recovery: neither the token nor the handle is touched.
StartBay(t, S) ==
  \/ (~t.gen \/ phase = "TURN_BAY_SEARCH") /\ Ignore(S)
  \/ /\ t.gen /\ phase # "TURN_BAY_SEARCH"
     /\ phase' = "TURN_BAY_SEARCH" /\ state' = "TURN_BAY_RECOVERY"
     /\ owner' = FALSE
     /\ tasks' = S \cup {Task("bay", "start")}
     /\ UNCHANGED <<goal, Route, active, handle, context, record, canceled>>

\* The locked part of _navigate; the thread of kind k writes the file after it.
\* The handle is dropped without a cancel.
Navigate(k, S) ==
  /\ state' = "NAVIGATING" /\ phase' = "STRAIGHT_PREPARE"
  /\ handle' = "none" /\ owner' = FALSE /\ active' = FALSE
  /\ goal' = TRUE
  /\ index' = 0 /\ pos' = 0
  /\ \/ last' = Segments /\ relocation' = "none"
     \/ last' = 1 /\ relocation' = "START_ESCAPE"  \* _start_escape_execution
  /\ tasks' = NewGeneration(S) \cup {Task(k, "persist")}
  /\ UNCHANGED <<context, record>>

\* _set_dynamic_blocked_no_route, called with the destination a thread captured.
BlockedNoRoute(S, captured) ==
  /\ state' = "BLOCKED" /\ phase' = "IDLE" /\ owner' = FALSE
  /\ goal' = (goal \/ captured)
  /\ record' = IF captured THEN "held" ELSE record
  /\ tasks' = S
  /\ UNCHANGED <<Route, active, handle, context, canceled>>

\* _finish_execution_success.
Finish(t, S, allowed) ==
  LET current == t.gen /\ state \in allowed /\ goal /\ last > 0
  IN \/ ~current /\ Ignore(S)
     \/ current /\ ScheduleReplan(t, S)
     \/ /\ current
        /\ state = "NAVIGATING" => (pos = last /\ relocation = "none")
        /\ state' = "SUCCEEDED" /\ phase' = "IDLE"
        /\ Revoke
        /\ goal' = FALSE /\ last' = 0 /\ index' = 0 /\ pos' = 0
        /\ record' = "none"
        /\ tasks' = NewGeneration(Revoked(S))
        /\ UNCHANGED <<relocation, context, canceled>>

\* mutation: a completion looks at the generation only.
CompletionIfGeneration(t) == t.gen /\ state = "NAVIGATING" /\ index < last

\* completion_current.
CompletionCurrent(t) ==
  t.gen /\ state = "NAVIGATING" /\ t.token /\ t.index = index

\* _complete_active_segment.
Complete(t, S) ==
  \/ ~CompletionCurrent(t) /\ Ignore(S)
  \/ /\ CompletionCurrent(t)
     /\ index' = index + 1
     /\ Revoke
     /\ \/ /\ relocation # "none" /\ index + 1 >= last
           /\ relocation' = "none"
           /\ \/ /\ phase' = "RECOVERING" /\ UNCHANGED state
                 /\ tasks' = NewToken(Revoked(S)) \cup {Task("replan", "start")}
              \/ /\ relocation = "TURN_BAY" /\ active      \* continue_local_maneuver
                 /\ phase' = "TURN_BAY_SEARCH" /\ state' = "TURN_BAY_RECOVERY"
                 /\ tasks' = NewToken(Revoked(S)) \cup {Task("bay", "start")}
        \/ /\ relocation = "none" /\ index + 1 >= last
           /\ phase' = "STRAIGHT_PREPARE" /\ UNCHANGED <<state, relocation>>
           /\ tasks' = NewToken(Revoked(S)) \cup {Stale(Goes(t, "finish"))}
        \/ /\ index + 1 < last
           /\ phase' = "STRAIGHT_PREPARE" /\ UNCHANGED <<state, relocation>>
           /\ tasks' = NewToken(Revoked(S))
     /\ UNCHANGED <<goal, last, pos, context, record, canceled>>

-----------------------------------------------------------------------------
(* The operator: one command at a time on the IPC thread.                  *)

Room == Cardinality({t \in tasks : t.kind # "goal"}) < MaxThreads
Idle == ~Running("op") /\ Room

\* navigation.start; its _navigate is not given a generation.
Start ==
  /\ Idle
  /\ state \in {"READY", "SUCCEEDED", "CANCELED", "BLOCKED"}
  /\ canceled' = FALSE
  /\ tasks' = tasks \cup {Task("op", "starting")}
  /\ UNCHANGED <<state, phase, owner, goal, Route, active, handle, context, record>>

\* navigation.select_route.
SelectRoute ==
  /\ Idle
  /\ state \in Selecting /\ goal
  /\ canceled' = FALSE
  /\ tasks' = tasks \cup {Task("op", "selected")}
  /\ UNCHANGED <<state, phase, owner, goal, Route, active, handle, context, record>>

\* The route is still valid, or the command is rejected.
Started(t) ==
  /\ t.kind = "op" /\ t.pc \in {"starting", "selected"}
  /\ \/ /\ t.pc = "starting" \/ t.gen
        /\ Navigate("op", tasks \ {t})
     \/ /\ tasks' = tasks \ {t}
        /\ UNCHANGED <<state, phase, owner, goal, Route, active, handle, context, record>>
  /\ UNCHANGED canceled

\* _pause_navigation.
MayPause ==
  \/ handle # "none"
  \/ state \in {"WAIT_FOR_DYNAMIC_CLEAR", "DYNAMIC_REPLAN"}
  \/ phase \in {"STRAIGHT_PREPARE", "TURN", "TURN_SETTLING", "DISPATCHING_STRAIGHT",
                "RECOVERING", "WAIT_FOR_DYNAMIC_CLEAR"}

\* The first half of _cancel_navigation.
CancelBegins(target, next) ==
  /\ Idle
  /\ state' = target /\ phase' = "IDLE"
  /\ Revoke
  /\ context' = "none"
  /\ tasks' = NewGeneration(Revoked(tasks)) \cup {Task("op", next)}
  /\ UNCHANGED <<goal, Route, record, canceled>>

Pause ==
  /\ MayPause
  /\ CancelBegins("PAUSED", IF handle = "none" THEN "pausing" ELSE "pause_ack")

Cancel == CancelBegins("CANCELED", IF handle = "none" THEN "canceling" ELSE "cancel_ack")

\* Nav2 acknowledges within three seconds, or the command fails half way.
Acknowledged(t) ==
  /\ \/ t.pc = "pause_ack" /\ tasks' = (tasks \ {t}) \cup {Goes(t, "pausing")}
     \/ t.pc = "cancel_ack" /\ tasks' = (tasks \ {t}) \cup {Goes(t, "canceling")}
     \/ t.pc \in {"pause_ack", "cancel_ack"} /\ tasks' = tasks \ {t}
  /\ UNCHANGED <<state, phase, owner, goal, Route, active, handle, context, record, canceled>>

\* The destination is forgotten by a cancel, kept by a pause.
Forgets(t) == goal' = (goal /\ t.pc = "pausing")

\* The second half of _cancel_navigation.  What belonged to the route is not
\* read again without its points.
CancelEnds(t) ==
  /\ t.kind = "op" /\ t.pc \in {"pausing", "canceling"}
  /\ last' = 0 /\ index' = 0 /\ pos' = 0 /\ relocation' = "none"
  /\ Forgets(t)
  /\ record' = IF t.pc = "canceling" THEN "none" ELSE IF goal THEN "held" ELSE record
  /\ canceled' = (t.pc = "canceling")
  /\ tasks' = tasks \ {t}
  /\ UNCHANGED <<state, phase, owner, active, handle, context>>

Missions == {"NAVIGATING", "DYNAMIC_REPLAN", "WAIT_FOR_DYNAMIC_CLEAR", "TURN_BAY_RECOVERY"}

\* _manual_handoff, and _manual_takeover_callback while a mission is on.
HandOver ==
  /\ (Idle /\ goal) \/ state \in Missions \cup Selecting \cup {"PLANNING", "PAUSED", "BLOCKED"}
  /\ state' = "MANUAL_BYPASS" /\ phase' = "IDLE"
  /\ Revoke
  /\ context' = "none"
  /\ record' = IF goal THEN "held" ELSE record
  /\ tasks' = NewGeneration(Revoked(tasks))
  /\ UNCHANGED <<goal, Route, canceled>>

\* mutation: the list of states that hand over lacks PLANNING.
TakeOverPlanning ==
  /\ state \notin Missions \cup Selecting \cup {"PAUSED", "BLOCKED"}
  /\ context' = "none"
  /\ tasks' = NewGeneration(tasks)
  /\ UNCHANGED <<state, phase, owner, goal, Route, active, handle, record, canceled>>

\* _manual_takeover_callback in any other state.
TakeOver ==
  /\ state \notin Missions \cup Selecting \cup {"PLANNING", "PAUSED", "BLOCKED"}
  /\ context' = "none"
  /\ tasks' = NewGeneration(tasks)
  /\ UNCHANGED <<state, phase, owner, goal, Route, active, handle, record, canceled>>

\* _estop_callback: neither the destination nor the file is touched.
Estop ==
  /\ state' = IF \/ handle # "none" \/ phase # "IDLE"
                 \/ state \in Missions \cup Selecting \cup {"PLANNING"}
                THEN "CANCELED" ELSE state
  /\ phase' = "IDLE"
  /\ Revoke
  /\ context' = "none"
  /\ tasks' = NewGeneration(Revoked(tasks))
  /\ UNCHANGED <<goal, Route, record, canceled>>

\* _resume_auto_from_current_pose: it sleeps for 0.35 s and then plans.
Resume ==
  /\ Idle
  /\ state \in {"PAUSED", "MANUAL_BYPASS"} /\ goal
  /\ canceled' = FALSE
  /\ tasks' = tasks \cup {Task("op", "resume")}
  /\ UNCHANGED <<state, phase, owner, goal, Route, active, handle, context, record>>

Resuming(t) ==
  /\ t.kind = "op" /\ t.pc = "resume"
  /\ state' = "PLANNING"
  /\ tasks' = (tasks \ {t}) \cup {Goes(t, "resuming")}
  /\ UNCHANGED <<phase, owner, goal, Route, active, handle, context, record, canceled>>

\* _navigate refuses the plan: an AdapterError outside the try, and nobody is
\* left to take the state out of PLANNING.
StartRefused(t) ==
  /\ t.kind = "op" /\ t.pc = "resuming"
  /\ tasks' = tasks \ {t}
  /\ UNCHANGED <<state, phase, owner, goal, Route, active, handle, context, record, canceled>>

\* The plan is there and is started, or there is none; _navigate is not given a generation.
Resumed(t) ==
  \/ /\ t.kind = "op" /\ t.pc = "resuming"
     /\ \/ Navigate("op", tasks \ {t})
        \/ /\ state' = "MANUAL_BYPASS"
           /\ tasks' = tasks \ {t}
           /\ UNCHANGED <<phase, owner, goal, Route, active, handle, context, record>>
     /\ UNCHANGED canceled
  \/ StartRefused(t)

\* _persist_active_navigation_mission(resume_automatically=True).
Persist(t) ==
  /\ t.pc = "persist"
  /\ record' = IF goal THEN "auto" ELSE record
  /\ tasks' = tasks \ {t}
  /\ UNCHANGED <<state, phase, owner, goal, Route, active, handle, context, canceled>>

-----------------------------------------------------------------------------
(* _segment_execution_tick and _dynamic_recovery_tick: one callback group, *)
(* so one of them at a time.                                               *)

\* The tick leaves for a step that has a validator or a lock before it.
Ticks(pc) ==
  /\ tasks' = tasks \cup {Task("tick", pc)}
  /\ UNCHANGED <<state, phase, owner, goal, Route, active, handle, context, record, canceled>>

\* The end of a step of the turn: neither the state nor a counter is looked at again.
Turns(S, next, drives) ==
  /\ phase' = next /\ owner' = drives /\ tasks' = S
  /\ UNCHANGED <<state, goal, Route, active, handle, context, record, canceled>>

TickPrepare ==
  /\ phase = "STRAIGHT_PREPARE"
  /\ owner' = FALSE
  /\ \/ tasks' \in {tasks, tasks \cup {Task("tick", "prepare")}}
     \/ pos = last /\ relocation = "none" /\ tasks' = tasks \cup {Task("tick", "finish")}
  /\ UNCHANGED <<state, phase, goal, Route, active, handle, context, record, canceled>>

TickStraight ==
  /\ phase = "STRAIGHT"
  /\ \/ Ticks("restart")                              \* or straight_recovery_requested
     \/ active /\ pos > index /\ Ticks("complete")
     \/ active /\ Ticks("replan")                     \* the watchdog, an overshoot
     \/ pos = last /\ relocation = "none" /\ Ticks("finish")

TickSettling ==
  /\ phase = "TURN_SETTLING"
  /\ \/ Turns(tasks, "TURN_SETTLING", FALSE)
     \/ Turns(tasks \cup {Task("tick", "reenter")}, "TURN_SETTLING", FALSE)
     \/ /\ phase' = "STRAIGHT_PREPARE" /\ owner' = FALSE /\ active' = FALSE
        /\ UNCHANGED <<state, goal, Route, handle, context, record, tasks, canceled>>
     \/ active /\ Turns(tasks \cup {Task("sender", "start")}, "DISPATCHING_STRAIGHT", FALSE)

TickTurn ==
  /\ phase \in {"TURN", "WAIT_FOR_TURN_CLEAR"}
  /\ \/ Turns(tasks, "WAIT_FOR_TURN_CLEAR", FALSE)     \* the direction is refused
     \/ Ticks("turn")

\* Both directions are checked again before the chassis turns once more.
Reenter(S) == \E next \in {"TURN", "WAIT_FOR_TURN_CLEAR"} : Turns(S, next, owner)

\* The rotation is clear and driven, it is done, or it is blocked, at last for too long.
Turn(t, S) ==
  \/ Turns(S, "TURN", TRUE)
  \/ Turns(S, "TURN_SETTLING", FALSE)
  \/ Turns(S, "WAIT_FOR_TURN_CLEAR", FALSE)
  \/ /\ phase' = IF t.gen THEN "TURN_BAY_SEARCH" ELSE "WAIT_FOR_TURN_CLEAR"
     /\ state' = IF t.gen THEN "TURN_BAY_RECOVERY" ELSE state
     /\ owner' = FALSE
     /\ tasks' = S \cup (IF t.gen THEN {Task("bay", "start")} ELSE {})
     /\ UNCHANGED <<goal, Route, active, handle, context, record, canceled>>

SegmentTick ==
  /\ ~Running("tick") /\ Room
  /\ state = "NAVIGATING" /\ last > 0
  /\ \/ TickPrepare \/ TickStraight \/ TickSettling \/ TickTurn
     \/ /\ owner /\ owner' = FALSE                     \* no fresh pose
        /\ UNCHANGED <<state, phase, goal, Route, active, handle, context, record, tasks,
                       canceled>>

\* _prepare_active_segment, up to the validators; the robot may stand at the endpoint.
Prepare(t, S) ==
  \/ (~t.gen \/ index >= last) /\ Ignore(S)
  \/ t.gen /\ pos = last /\ relocation = "none" /\ Finish(t, S, {"NAVIGATING"})
  \/ /\ t.gen /\ index < last
     /\ \/ pos > index /\ Ignore(S \cup {Task("tick", "complete")})
        \/ ScheduleReplan(t, S)
        \/ /\ pos = index
           /\ Ignore(S \cup {Goes(t, IF relocation = "START_ESCAPE" THEN "escape" ELSE "anchor")})

\* A start escape is looked for again.  Where none is needed any more the segment
\* is completed without having been driven; where none is possible, or the heading
\* has changed, it waits whatever the generation.
Escape(t, S) ==
  LET anchored == NewToken(S)
  IN \/ t.gen /\ Ignore(S \cup {Task("tick", "clear")})   \* START_ESCAPE_ALREADY_CLEAR
     \/ EnterWait(S) \/ EnterWait(anchored)
     \/ ScheduleReplan(t, S)
     \/ /\ active' = TRUE
        /\ phase' = "DISPATCHING_STRAIGHT"
        /\ tasks' = anchored \cup (IF t.gen THEN {Task("sender", "start")} ELSE {})
        /\ UNCHANGED <<state, owner, goal, Route, handle, context, record, canceled>>

\* Any other segment: the new anchor, and the turn towards it.
Anchor(t, S) ==
  LET anchored == NewToken(S)
  IN \/ ScheduleReplan(t, S) \/ ScheduleReplan(t, anchored)
     \/ /\ ~t.gen
        /\ active' = TRUE /\ tasks' = anchored
        /\ UNCHANGED <<state, phase, owner, goal, Route, handle, context, record, canceled>>
     \/ /\ t.gen
        /\ active' = TRUE
        /\ \/ UNCHANGED phase /\ tasks' = anchored \cup {Task("tick", "begin")}
           \/ phase' = "TURN_SETTLING" /\ tasks' = anchored
           \/ phase' = "DISPATCHING_STRAIGHT" /\ tasks' = anchored \cup {Task("sender", "start")}
        /\ UNCHANGED <<state, owner, goal, Route, handle, context, record, canceled>>

\* _begin_turn_or_settling after its rotation checks; the velocity of the
\* navigation is let through whether or not a direction was found.
BeginTurn(t, S) ==
  \/ ScheduleReplan(t, S)
  \/ \E next \in {"TURN", "WAIT_FOR_TURN_CLEAR"} : Turns(S, next, TRUE)

DynamicTick ==
  /\ ~Running("tick") /\ Room
  /\ \/ state = "NAVIGATING" /\ phase = "STRAIGHT" /\ active /\ handle # "none" /\ Ticks("wait")
     \/ state = "WAIT_FOR_DYNAMIC_CLEAR" /\ Ticks("classified")
     \/ /\ state = "ROUTE_SELECTION"                   \* the countdown is over
        /\ state' = "AUTO_SELECTION"
        /\ tasks' = tasks \cup {Task("auto", "start")}
        /\ UNCHANGED <<state, phase, owner, goal, Route, active, handle, context, record, canceled>>

\* The evidence is classified; what follows does not look at the state again.
Classified(S) ==
  \/ Finish(Task("tick", "classified"), S, {"WAIT_FOR_DYNAMIC_CLEAR"})
  \/ /\ state' = "WAIT_FOR_DYNAMIC_CLEAR"
     /\ tasks' = S
     /\ UNCHANGED <<phase, owner, goal, Route, active, handle, context, record, canceled>>
  \/ /\ state' = "DYNAMIC_REPLAN"
     /\ \E k \in {"dynamic", "bypass"} : tasks' = S \cup {Task(k, "start")}
     /\ UNCHANGED <<phase, owner, goal, Route, active, handle, context, record, canceled>>

TickEnds(t) ==
  LET S == tasks \ {t}
  IN /\ t.kind = "tick"
     /\ \/ t.pc = "finish" /\ Finish(t, S, {"NAVIGATING"})
        \/ t.pc = "prepare" /\ Prepare(t, S)
        \/ t.pc = "anchor" /\ Anchor(t, S)
        \/ t.pc = "escape" /\ Escape(t, S)
        \/ t.pc \in {"complete", "clear"} /\ Complete(t, S)
        \/ t.pc = "restart" /\ RestartSegment(t, S)
        \/ t.pc = "replan" /\ ScheduleReplan(t, S)
        \/ t.pc = "wait" /\ EnterWait(S)
        \/ t.pc = "classified" /\ Classified(S)
        \/ t.pc = "reenter" /\ Reenter(S)
        \/ t.pc = "turn" /\ Turn(t, S)
        \/ t.pc = "begin" /\ BeginTurn(t, S)

-----------------------------------------------------------------------------
(* The thread that sends a segment to FollowPath, and the goals there.     *)

\* _send_current_straight_segment up to send_goal_async.
Send(t) ==
  /\ t.kind = "sender" /\ t.pc = "start"
  /\ IF Current(t) /\ phase = "DISPATCHING_STRAIGHT"
       THEN Ignore((tasks \ {t}) \cup {Goes(t, "sent")})
       ELSE Ignore(tasks \ {t})

\* The controller accepts the goal, and drops the one it had.
Accept(t) ==
  LET kept == {u \in tasks \ {t} : u.kind # "goal"}
  IN /\ t.kind = "sender" /\ t.pc = "sent"
     /\ tasks' = kept \cup {Goes(t, "accepted"),
                            [t EXCEPT !.kind = "goal", !.pc = "accepted", !.gen = t.token]}
     /\ handle' = IF handle = "goal" THEN "old" ELSE handle
     /\ UNCHANGED <<state, phase, owner, goal, Route, active, context, record, canceled>>

\* A rejection, or five seconds without an answer: a goal that was accepted all
\* the same stays with the controller and nobody holds its handle.
SendFails(t) ==
  /\ t.kind = "sender" /\ t.pc \in {"sent", "accepted"}
  /\ ScheduleReplan(t, tasks \ {t})

\* The goal of a sender.
Mine(t) == {u \in tasks : u.kind = "goal" /\ u.pc = "accepted" /\ u.token = t.token}

\* mutation: what was captured is not compared again after the answer.
StoredUnchecked(t) ==
  /\ t.kind = "sender" /\ t.pc = "accepted"
  /\ tasks' = ((tasks \ Mine(t)) \ {t}) \cup {Goes(u, "running") : u \in Mine(t)}
  /\ handle' = IF Mine(t) = {} THEN "old" ELSE "goal"
  /\ phase' = "STRAIGHT" /\ owner' = TRUE
  /\ UNCHANGED <<state, goal, Route, active, context, record, canceled>>

\* mutation: the handle is not stored.
StoredForgotten(t) ==
  /\ t.kind = "sender" /\ t.pc = "accepted" /\ Current(t)
  /\ tasks' = ((tasks \ Mine(t)) \ {t}) \cup {Goes(u, "running") : u \in Mine(t)}
  /\ phase' = "STRAIGHT" /\ owner' = TRUE
  /\ UNCHANGED <<state, goal, Route, active, handle, context, record, canceled>>

\* The handle is stored, or the goal is cancelled because it is out of date.
Stored(t) ==
  LET mine == Mine(t)
      rest == (tasks \ mine) \ {t}
  IN /\ t.kind = "sender" /\ t.pc = "accepted"
     /\ \/ /\ ~Current(t)
           /\ Ignore(rest \cup {Goes(u, "canceling") : u \in mine})
        \/ /\ Current(t)
           /\ tasks' = rest \cup {Goes(u, "running") : u \in mine}
           /\ handle' = IF mine = {} THEN "old" ELSE "goal"
           /\ phase' = "STRAIGHT" /\ owner' = TRUE
           /\ UNCHANGED <<state, goal, Route, active, context, record, canceled>>

\* FollowPath drives while motion_owner lets its velocity through.
Move(g) ==
  /\ g \in Goals
  /\ owner /\ phase = "STRAIGHT" /\ g.token /\ pos = g.index
  /\ pos' = pos + 1
  /\ UNCHANGED <<state, phase, owner, goal, last, index, relocation, active, handle,
                 context, record, tasks, canceled>>

\* A goal ends.  Only one whose handle was stored has a result callback.
GoalEnds(g) ==
  /\ g \in Goals
  /\ \/ /\ g.pc # "running"
        /\ Ignore(tasks \ {g})
     \/ /\ g.pc = "running"
        /\ \E pc \in {"ABORTED", "CANCELED"}
                     \cup (IF g.token /\ pos > g.index THEN {"SUCCEEDED"} ELSE {}) :
             tasks' = (tasks \ {g})
                       \cup (IF g.token THEN {[g EXCEPT !.kind = "result", !.pc = pc]} ELSE {})
        /\ handle' = IF handle = "goal" THEN "old" ELSE handle
        /\ UNCHANGED <<state, phase, owner, goal, Route, active, context, record, canceled>>

\* _navigation_result.
Result(t) ==
  LET S == tasks \ {t}
  IN /\ t.kind = "result"
     /\ \/ t.pc = "finish" /\ Finish(t, S, {"NAVIGATING"})
        \/ t.pc # "finish" /\ ~Current(t) /\ Ignore(S)
        \/ t.pc = "SUCCEEDED" /\ Current(t) /\ Complete(t, S)
        \/ /\ t.pc = "CANCELED" /\ Current(t)
           /\ IF state = "PAUSED"
                THEN /\ phase' = "IDLE" /\ tasks' = S
                     /\ UNCHANGED <<state, owner, goal, Route, active, handle, context,
                                    record, canceled>>
                ELSE RestartSegment(t, S)
        \/ /\ t.pc = "ABORTED" /\ Current(t)
           /\ \/ EnterWait(S)
              \/ ScheduleReplan(t, S)
              \/ /\ state' = "NAVIGATING" /\ phase' = "STRAIGHT_PREPARE"
                 /\ Revoke
                 /\ tasks' = NewToken(Revoked(S))
                 /\ UNCHANGED <<goal, Route, context, record, canceled>>

-----------------------------------------------------------------------------
(* What the sensors cause.                                                 *)

\* _safety_status_callback, and _recover_lost_straight_steering.
SafetyStop ==
  /\ Room
  /\ state = "NAVIGATING"
  /\ \/ phase = "STRAIGHT" /\ EnterWait(tasks)
     \/ phase \in Turning /\ StartBay(Task("bay", "start"), tasks)
     \/ phase = "STRAIGHT" /\ active /\ StartBay(Task("bay", "start"), tasks)
     \/ phase = "STRAIGHT" /\ ~active /\ ScheduleReplan(Task("replan", "start"), tasks)

\* _recover_confirmed_corridor_blockage.
CorridorBlocked ==
  /\ Room
  /\ state = "NAVIGATING"
  /\ phase \notin {"RECOVERING", "TURN_BAY_SEARCH"} /\ relocation # "TURN_BAY"
  /\ Revoke
  /\ \/ /\ state' = "WAIT_FOR_DYNAMIC_CLEAR" /\ phase' = "WAIT_FOR_DYNAMIC_CLEAR"
        /\ tasks' = NewToken(Revoked(tasks))
     \/ /\ goal
        /\ state' = "TURN_BAY_RECOVERY" /\ phase' = "TURN_BAY_SEARCH"
        /\ tasks' = NewToken(Revoked(tasks)) \cup {Task("bay", "start")}
  /\ UNCHANGED <<goal, Route, context, record, canceled>>

\* _degrade_localization and _localization_lost.
LocalizationLost ==
  /\ "localization" \in Faults /\ state # "LOCALIZATION_LOST"
  /\ state' = "LOCALIZATION_LOST" /\ phase' = "IDLE"
  /\ Revoke
  /\ context' = IF (goal /\ state \in Missions) \/ context # "none" THEN "due" ELSE "none"
  /\ tasks' = NewGeneration(Revoked(tasks))
  /\ UNCHANGED <<goal, Route, record, canceled>>

\* localization_verified.
LocalizationVerified ==
  /\ state = "LOCALIZATION_LOST"
  /\ state' = "READY"
  /\ UNCHANGED <<phase, owner, goal, Route, active, handle, context, record, tasks, canceled>>

\* _resume_localization_navigation_if_ready: it does not look at the state.
ResumeMission ==
  /\ Room
  /\ context = "due" /\ state # "LOCALIZATION_LOST"
  /\ context' = "begun"
  /\ state' = "PLANNING"
  /\ tasks' = tasks \cup {Task("recover", "planned")}
  /\ UNCHANGED <<phase, owner, goal, Route, active, handle, record, canceled>>

-----------------------------------------------------------------------------
(* The workers.  One whose captured generation is old raises in _navigate. *)

Replan(t) ==
  LET S == tasks \ {t}
  IN /\ t.kind = "replan"
     /\ \/ t.pc = "start" /\ Ignore(IF goal THEN S \cup {Goes(t, "planned")} ELSE S)
        \/ t.pc = "planned" /\ EnterWait(S)            \* SAME_BLOCKED_ROUTE
        \/ t.pc = "planned" /\ t.gen /\ Navigate("record", S) /\ UNCHANGED canceled
        \/ t.pc = "planned" /\ ~t.gen /\ Ignore(S)

DynamicReplan(t) ==
  LET S == tasks \ {t}
  IN /\ t.kind = "dynamic"
     /\ \/ t.pc = "start" /\ Ignore(IF goal THEN S \cup {Goes(t, "planned")} ELSE S)
        \/ t.pc = "planned" /\ EnterWait(S)
        \/ t.pc = "planned" /\ Navigate("record", S) /\ UNCHANGED canceled

\* _present_dynamic_route_selection.
Present(S) ==
  /\ state' = "ROUTE_SELECTION" /\ phase' = "IDLE" /\ owner' = FALSE
  /\ record' = "held"
  /\ tasks' = S
  /\ UNCHANGED <<goal, Route, active, handle, context, canceled>>

\* _attempt_dynamic_local_bypass_or_selection; its _navigate is outside the try.
Bypass(t) ==
  LET S == tasks \ {t}
  IN /\ t.kind = "bypass"
     /\ \/ t.pc = "start" /\ Ignore(IF goal THEN S \cup {Goes(t, "planned")} ELSE S)
        \/ /\ t.pc = "planned"
           /\ \/ BlockedNoRoute(S, TRUE)
              \/ Navigate("record", S) /\ UNCHANGED canceled
              \/ Ignore(S)                             \* _navigate raised
              \/ Present(S)
              \/ StartBay(t, S)

\* _auto_start_shortest_dynamic_route.
AutoSelect(t) ==
  LET S == tasks \ {t}
  IN /\ t.kind = "auto"
     /\ \/ /\ t.pc = "start"
           /\ IF state \in Selecting /\ goal
                THEN Ignore(S \cup {Goes(t, "planned")})
                ELSE BlockedNoRoute(S, goal)
        \/ /\ t.pc = "planned"
           /\ \/ Navigate("record", S) /\ UNCHANGED canceled
              \/ BlockedNoRoute(S, TRUE)

\* _find_and_start_turn_bay.
Bay(t) ==
  LET S == tasks \ {t}
  IN /\ t.kind = "bay"
     /\ \/ t.pc = "start" /\ ~goal /\ Ignore(S)
        \/ t.pc = "start" /\ goal /\ EnterWait(S)      \* no scan, no direction
        \/ /\ t.pc = "start" /\ goal                   \* no fresh safety snapshot
           /\ t.gen
           /\ state' = "WAIT_FOR_DYNAMIC_CLEAR" /\ tasks' = S
           /\ UNCHANGED <<phase, owner, goal, Route, active, handle, context, record, canceled>>
        \/ t.pc = "start" /\ goal /\ Ignore(IF t.gen THEN S \cup {Goes(t, "planned")} ELSE S)
        \/ t.pc = "planned" /\ EnterWait(S)
        \/ /\ t.pc = "planned"
           /\ state' = "NAVIGATING" /\ phase' = "STRAIGHT_PREPARE"
           /\ active' = FALSE /\ last' = 1 /\ index' = 0 /\ pos' = 0
           /\ relocation' = "TURN_BAY"
           /\ tasks' = NewToken(S)
           /\ UNCHANGED <<owner, goal, handle, context, record, canceled>>

\* The thread of _resume_localization_navigation_if_ready.
Recover(t) ==
  LET S == tasks \ {t}
  IN /\ t.kind = "recover"
     /\ \/ /\ state' = "WAIT_FOR_DYNAMIC_CLEAR" /\ context' = "due" /\ tasks' = S
           /\ UNCHANGED <<phase, owner, goal, Route, active, handle, record, canceled>>
        \/ /\ state' = "NAVIGATING" /\ phase' = "STRAIGHT_PREPARE"
           /\ handle' = "none" /\ owner' = FALSE /\ active' = FALSE
           /\ goal' = TRUE /\ context' = "none"
           /\ last' = Segments /\ index' = 0 /\ pos' = 0 /\ relocation' = "none"
           /\ tasks' = NewGeneration(S) \cup {Task("record", "persist")}
           /\ UNCHANGED <<record, canceled>>

\* The process is killed and started again; _load_map restores the mission.
Crash ==
  /\ "crash" \in Faults
  /\ state' = "LOCALIZATION_LOST" /\ phase' = "IDLE"
  /\ Revoke
  /\ goal' = (record # "none")
  /\ context' = IF record = "auto" THEN "due" ELSE "none"
  /\ last' = 0 /\ index' = 0 /\ pos' = 0 /\ relocation' = "none"
  /\ tasks' = {}
  /\ UNCHANGED <<record, canceled>>

-----------------------------------------------------------------------------

Next ==
  \/ Start \/ SelectRoute \/ Pause \/ Cancel \/ HandOver \/ TakeOver \/ Estop \/ Resume
  \/ SegmentTick \/ DynamicTick
  \/ SafetyStop \/ CorridorBlocked
  \/ LocalizationLost \/ LocalizationVerified \/ ResumeMission \/ Crash
  \/ \E t \in tasks : \/ Started(t) \/ Acknowledged(t) \/ CancelEnds(t)
                      \/ Resuming(t) \/ Resumed(t) \/ Persist(t)
                      \/ TickEnds(t)
                      \/ Send(t) \/ Accept(t) \/ SendFails(t) \/ Stored(t)
                      \/ Move(t) \/ GoalEnds(t) \/ Result(t)
                      \/ Replan(t) \/ DynamicReplan(t) \/ Bypass(t) \/ AutoSelect(t)
                      \/ Bay(t) \/ Recover(t)

Spec == Init /\ [][Next]_vars

-----------------------------------------------------------------------------
\* execution_segment_index goes past a segment of the route once, and only when
\* the robot has reached its end, although its tick, its result and the endpoint
\* check of the next preparation may all see it finished (_complete_active_segment,
\* completion_current).  Only a leg that makes room is completed undriven: a start
\* escape that is found no longer needed (START_ESCAPE_ALREADY_CLEAR), or the leg of
\* a turn bay that has replaced it while the tick searched.
SegmentsAreDriven ==
  [][last > 0 /\ index' > index =>
       index' = index + 1 /\ (index' <= pos \/ relocation # "none")]_vars

\* Once a mission is paused, cancelled, finished or without localization, no
\* answer of FollowPath that comes late puts its segment in force, and what the
\* controller still drives is out of date (_send_current_straight_segment).
StoppedFollowsNothing ==
  state \in {"PAUSED", "CANCELED", "SUCCEEDED", "LOCALIZATION_LOST"} =>
    phase # "STRAIGHT" /\ \A g \in Goals : g.pc = "running" => ~g.token

\* A current goal that the controller drives is the one in current_goal_handle,
\* so that a cancel, an emergency stop or a takeover reaches it.
DrivingIsRevocable == \A g \in Goals : g.token /\ g.pc = "running" => handle = "goal"

\* The threads that will take the state out of PLANNING.
PlanningThread ==
  \E t \in tasks : t.kind = "recover" \/ (t.kind = "op" /\ t.pc = "resuming")

\* While the state says PLANNING, a thread is there that will leave it.
\* The code does not keep this: see the README, section 5.
PlanningIsAttended == state = "PLANNING" => PlanningThread

\* The state is left in PLANNING with no thread that will change it only by a
\* navigation.resume whose start is refused (_resume_auto_from_current_pose): no
\* stop, takeover, loss of localization or other end of a thread takes the
\* thread away and leaves the state.
PlanningIsLeft ==
  [][state' = "PLANNING" /\ ~PlanningThread' =>
       \/ state = "PLANNING" /\ ~PlanningThread
       \/ \E t \in tasks : StartRefused(t)]_vars

\* docs/navigation-mapping.md:261: a cancel ends the mission.
CancelEndsMission == canceled => state # "NAVIGATING"

=============================================================================
