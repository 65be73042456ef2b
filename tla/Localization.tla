---------------------------- MODULE Localization ----------------------------
(***************************************************************************)
(* How NavigationAdapter (navigation-stack/adapter_node.py) decides where  *)
(* the robot is, and what it does with a mission meanwhile.                *)
(*                                                                         *)
(* The AMCL, scan and timer callbacks and the worker of the map-wide scan  *)
(* search run under localization_lock.  The command thread takes that lock *)
(* for a seed, a click and the start of a global search only: what the     *)
(* rest of map.load, map.deactivate and map.relocalize writes can fall     *)
(* into the middle of a tick.  A tick is therefore one step, except where  *)
(* it grants READY or angular velocity: there it decides in one step and   *)
(* writes in the next.                                                     *)
(*                                                                         *)
(* Evidence is what its consumers distinguish: none that is fresh, enough  *)
(* to keep READY (weak), enough to obtain it (strong), and that with all   *)
(* particles in one cluster (unique).  Clocks are left out: whatever waits *)
(* for a timeout may happen at any time.                                   *)
(***************************************************************************)
EXTENDS Naturals, FiniteSets

CONSTANTS
  MaxLoads,   \* bound on map.load calls; every one loads a new grid
  MaxGoals,   \* bound on the operator's goals
  MaxCalls,   \* bound on calls of map.load, localization commands and goals together
  MaxFaults,  \* bound on what fails
  MaxTurns,   \* headings observed until rotation_max_angle
  FaultKinds  \* what may fail

AllFaults == {"sensor", "service", "call", "callback", "tf", "response", "timeout",
              "topic", "rollback", "plan", "jump"}
ASSUME BoundsAssumption == /\ MaxLoads \in Nat /\ MaxCalls \in Nat /\ MaxGoals \in Nat
                           /\ MaxFaults \in Nat /\ MaxTurns \in Nat \ {0}
ASSUME FaultsAssumption == FaultKinds \subseteq AllFaults

VARIABLES
  grid,      \* saved_map: the number of the load it came from, 0 for none
  att,       \* the attempt: localization_state and its flags
  obs,       \* the AMCL and scan evidence, and the grid it was taken on
  verdict,   \* global_scan_uniqueness: none, busy, good, bad
  foreign,   \* history: that verdict was reached for another attempt or grid
  workers,   \* threads of the map-wide scan search
  rotating,  \* rotation_active
  anchor,    \* trajectory_map_from_odom is known
  calling,   \* a call of the global localization service is unanswered
  sensor,    \* the sensors' clocks: health, hard failure, the state that was paused
  nav,       \* the mission: state, goals, the contexts of the automatic resumes
  resumes,   \* threads of the automatic resumes
  command,   \* the map.load in progress and what it will roll back to; history: whether
             \* the last one went through
  tick,      \* what the timer has decided and not yet written
  spent      \* loads, calls, goals and faults so far

localizationVars == <<grid, att, obs, verdict, foreign, workers, rotating, anchor, calling,
                      sensor, nav, resumes, command, tick, spent>>
search == <<verdict, foreign, workers>>
evidence == <<obs, search>>
mission == <<nav, resumes>>

Seeds == {"LOCALIZING_LAST_POSE", "LOCALIZING_APPROXIMATE_POSE"}
Passive == {"PASSIVE_LOCALIZING", "AMBIGUOUS"}
Active == {"LOCALIZING_ROTATING", "LOCALIZING_SETTLING"}
Searching == Passive \cup Active \cup {"CANDIDATE", "VERIFYING"}
Levels == {"none", "weak", "strong", "unique"}
States == Seeds \cup Searching \cup {"IDLE", "LOCALIZATION_INITIALIZING", "READY",
            "LOCALIZATION_FAILED", "SENSOR_TIME_INVALID"}
Localizing == Seeds \cup Searching \cup {"LOCALIZATION_FAILED"}

Is(S) == att.ls \in S
Goals == 0 .. MaxGoals
Spend(what) == spent' = [spent EXCEPT ![what] = @ + 1]
Fails(what) == what \in FaultKinds /\ spent.faults < MaxFaults /\ Spend("faults")

NoEvidence == [level |-> "none", grid |-> 0]
Pose == obs.grid # 0   \* last_amcl_pose is known
NoCommand == [pc |-> "idle", grid |-> 0, localized |-> FALSE, ls |-> "IDLE", through |-> FALSE]

\* The attempt is identified by a number the model never shows: a change of
\* global_scan_evaluation_generation makes every running search out of date.
\* What it was to judge no longer matters then.
Outdated(W) == {[w EXCEPT !.current = FALSE, !.kind = "check"] : w \in W}
\* Of the threads that captured an older navigation_goal_generation only those
\* have an effect that have already started their route.
Retired(R) == {r \in R : r.pc = "clear"}

LocalizationTypeOK ==
  /\ grid \in 0 .. MaxLoads
  /\ att \in [ls : States, localized : BOOLEAN, allow : BOOLEAN, untrusted : BOOLEAN,
              pending : BOOLEAN, hint : BOOLEAN, approx : BOOLEAN, odometry : BOOLEAN,
              assisted : BOOLEAN, held : BOOLEAN, settled : BOOLEAN, turns : 0 .. MaxTurns]
  /\ obs \in [level : Levels, grid : 0 .. MaxLoads]
  /\ verdict \in {"none", "busy", "good", "bad"} /\ foreign \in BOOLEAN
  /\ workers \subseteq [kind : {"seed", "check"}, grid : 0 .. MaxLoads, current : BOOLEAN]
  /\ rotating \in BOOLEAN /\ anchor \in BOOLEAN /\ calling \in BOOLEAN
  /\ sensor \in [ok : BOOLEAN, hard : BOOLEAN, previous : States]
  /\ nav \in [cur : {"rest", "PLANNING", "NAVIGATING", "WAITING"}, goal : Goals,
              drive : Goals, byTime : Goals, byLoss : Goals, timing : BOOLEAN,
              losing : BOOLEAN]
  /\ resumes \subseteq [by : {"time", "loss"}, goal : Goals,
                        pc : {"check", "start", "clear"}]
  /\ command \in [pc : {"idle", "loading", "loaded"}, grid : 0 .. MaxLoads,
                  localized : BOOLEAN, ls : States, through : BOOLEAN]
  /\ tick \in {"idle", "accept", "rotate"}
  /\ spent \in [loads : 0 .. MaxLoads, calls : 0 .. MaxCalls, goals : Goals,
                faults : 0 .. MaxFaults]

LocalizationInit ==
  /\ grid = 0
  /\ att = [ls |-> "IDLE", localized |-> FALSE, allow |-> FALSE, untrusted |-> FALSE,
            pending |-> FALSE, hint |-> FALSE, approx |-> FALSE, odometry |-> FALSE,
            assisted |-> FALSE, held |-> FALSE, settled |-> FALSE, turns |-> 0]
  /\ obs = NoEvidence
  /\ verdict = "none" /\ foreign = FALSE /\ workers = {}
  /\ rotating = FALSE /\ anchor = FALSE /\ calling = FALSE
  /\ sensor = [ok |-> TRUE, hard |-> FALSE, previous |-> "IDLE"]
  /\ nav = [cur |-> "rest", goal |-> 0, drive |-> 0, byTime |-> 0, byLoss |-> 0,
            timing |-> FALSE, losing |-> FALSE]
  /\ resumes = {}
  /\ command = NoCommand
  /\ tick = "idle"
  /\ spent = [loads |-> 0, calls |-> 0, goals |-> 0, faults |-> 0]

-----------------------------------------------------------------------------
(* What the transitions are built from.                                    *)

May == spent.loads + spent.calls + spent.goals < MaxCalls

\* _reset_localization_evidence, on the attempt a.
Reset(a) == [a EXCEPT !.localized = FALSE, !.untrusted = FALSE, !.pending = FALSE,
                      !.hint = FALSE, !.odometry = FALSE, !.assisted = FALSE, !.held = FALSE]

Forget ==
  /\ obs' = NoEvidence
  /\ verdict' = "none" /\ foreign' = FALSE
  /\ workers' = Outdated(workers)

\* _set_state of a localization state also ends what current_state said.
Rests(n) == [n EXCEPT !.cur = "rest"]
Resting == nav' = Rests(nav)

\* _start_global_localization: the search begins, or its service is missing.
Global(a) == [Reset(a) EXCEPT !.ls = "PASSIVE_LOCALIZING", !.untrusted = TRUE, !.turns = 0,
                              !.pending = TRUE, !.approx = FALSE, !.settled = FALSE]
StartGlobalFor(a, calls) ==
  /\ Forget /\ rotating' = FALSE
  /\ \/ /\ att' = Global(a) /\ calling' = TRUE
        /\ spent' = [spent EXCEPT !.calls = @ + calls]
     \/ /\ att' = [Global(a) EXCEPT !.ls = "LOCALIZATION_FAILED"] /\ UNCHANGED calling
        /\ "service" \in FaultKinds /\ spent.faults < MaxFaults
        /\ spent' = [spent EXCEPT !.calls = @ + calls, !.faults = @ + 1]
StartGlobal(a) == StartGlobalFor(a, 0)

\* _begin_localization_verification.
Verification(a, allow) ==
  [a EXCEPT !.ls = "VERIFYING", !.localized = FALSE, !.allow = allow, !.held = FALSE,
            !.pending = FALSE, !.untrusted = FALSE]
StationaryReset == obs' = [obs EXCEPT !.level = "none"]
Verify(allow) ==
  /\ att' = Verification(att, allow) /\ rotating' = FALSE
  /\ StationaryReset

\* _begin_operator_pose_hint, _begin_odometry_prior.
ClickHint(a) == [Reset(a) EXCEPT !.ls = "LOCALIZING_APPROXIMATE_POSE", !.approx = TRUE,
                                 !.hint = TRUE, !.untrusted = TRUE]
OdometryPrior(a, allow) == [Reset(a) EXCEPT !.ls = "LOCALIZING_LAST_POSE", !.approx = FALSE,
                                            !.odometry = TRUE, !.allow = allow]

\* The drive is over, and whoever captured navigation_goal_generation is too late.
Halt(n) == [n EXCEPT !.drive = 0, !.cur = "rest"]
NoResume(n) == [n EXCEPT !.byTime = 0, !.byLoss = 0, !.timing = FALSE, !.losing = FALSE]
NewGeneration == resumes' = Retired(resumes)

MissionActive == nav.goal # 0 /\ nav.cur \in {"NAVIGATING", "WAITING"}

\* _localization_verdict, where the acceptance also needs the map-wide search.
Corroborated == /\ sensor.ok
                /\ obs.level \in IF att.untrusted THEN {"unique"} ELSE {"strong", "unique"}
Accepted == Corroborated /\ (att.untrusted => att.hint \/ verdict = "good")

-----------------------------------------------------------------------------
(* The environment: sensors, AMCL, the scan matcher, the service.          *)

\* _amcl_pose_callback, _particle_cloud_callback and the scan-map matcher, of
\* which a jump of the pose starts the window anew.
Observe(level) ==
  /\ grid # 0 /\ ~Is({"IDLE"}) /\ tick = "idle" /\ sensor.ok
  /\ obs' = [level |-> level, grid |-> grid]
  /\ obs' # obs
  /\ UNCHANGED <<grid, att, search, rotating, anchor, calling, sensor, mission, command, tick,
                 spent>>

SensorFault ==
  /\ sensor.ok /\ Fails("sensor") /\ sensor' = [sensor EXCEPT !.ok = FALSE]
  /\ UNCHANGED <<grid, att, evidence, rotating, anchor, calling, mission, command, tick>>

SensorHeals ==
  /\ ~sensor.ok /\ sensor' = [sensor EXCEPT !.ok = TRUE]
  /\ UNCHANGED <<grid, att, evidence, rotating, anchor, calling, mission, command, tick, spent>>

\* The answer of the global localization service; a failure is written without
\* the lock and whatever attempt it belongs to (completed).
ServiceAnswers ==
  /\ calling /\ calling' = FALSE
  /\ \/ UNCHANGED <<att, rotating, nav, spent>>
     \/ /\ Fails("call") /\ rotating' = FALSE /\ Resting
        /\ att' = [att EXCEPT !.ls = "LOCALIZATION_FAILED"]
  /\ UNCHANGED <<grid, evidence, anchor, sensor, resumes, command, tick>>

\* _request_global_scan_uniqueness: a search for the operator's hint (seed) or
\* about a candidate (check); a candidate that has moved is judged anew.
Ask(kind) ==
  /\ verdict = "none" \/ (kind = "check" /\ verdict # "busy")
  /\ verdict' = "busy" /\ foreign' = FALSE
  /\ workers' = workers \cup {[kind |-> kind, grid |-> grid, current |-> TRUE]}

\* The end of evaluate(): what belongs to another generation, attempt or grid is
\* dropped; an accepted seed begins an attempt around it and stays its verdict.
ScanSeed(a) == [Reset(a) EXCEPT !.ls = "LOCALIZING_LAST_POSE", !.approx = FALSE,
                                !.hint = TRUE, !.untrusted = TRUE]

\* mutation: the generation is not compared, the grid alone is.
FitsGrid(w) == w.grid = grid

Fits(w) == w.current /\ w.grid = grid

SearchEnds(w) ==
  /\ tick = "idle" /\ workers' = workers \ {w}
  /\ \/ ~Fits(w) /\ UNCHANGED <<att, obs, verdict, foreign, nav>>
     \/ /\ Fits(w) /\ foreign' = ~(w.current /\ w.grid = grid)
        /\ verdict' \in {"good", "bad"}
        /\ IF w.kind = "seed" /\ verdict' = "good"
             THEN att' = ScanSeed(att) /\ obs' = NoEvidence /\ Resting
             ELSE UNCHANGED <<att, obs, nav>>
  /\ UNCHANGED <<grid, rotating, anchor, calling, sensor, resumes, command, tick, spent>>

-----------------------------------------------------------------------------
(* _localization_tick: the monitors that come first.                       *)

\* _monitor_localization_tf: a link of the TF chain has been missing for too long.
TickLosesTf ==
  /\ tick = "idle" /\ grid # 0 /\ Is(Searching) /\ Fails("tf")
  /\ att' = [att EXCEPT !.localized = FALSE, !.ls = "LOCALIZATION_FAILED"]
  /\ rotating' = FALSE /\ Resting
  /\ UNCHANGED <<grid, evidence, anchor, calling, sensor, resumes, command, tick>>

\* _degrade_localization.
TickDegrades ==
  /\ tick = "idle" /\ grid # 0 /\ ~sensor.ok /\ ~sensor.hard
  /\ ~Is({"IDLE", "SENSOR_TIME_INVALID"})
  /\ att' = [att EXCEPT !.localized = FALSE, !.ls = "SENSOR_TIME_INVALID"]
  /\ rotating' = FALSE /\ anchor' = FALSE
  /\ sensor' = [sensor EXCEPT !.previous = att.ls]
  /\ nav' = [Halt(nav) EXCEPT !.byTime = IF MissionActive THEN nav.goal ELSE @,
                              !.timing = FALSE]
  /\ NewGeneration
  /\ UNCHANGED <<grid, evidence, calling, command, tick, spent>>

\* _fail_sustained_sensor_time_pause.
TickGivesUpOnSensors ==
  /\ tick = "idle" /\ grid # 0 /\ ~sensor.ok /\ ~sensor.hard /\ Is({"SENSOR_TIME_INVALID"})
  /\ sensor' = [sensor EXCEPT !.hard = TRUE]
  /\ nav' = [nav EXCEPT !.timing = FALSE, !.cur = "rest"]
  /\ UNCHANGED <<grid, att, evidence, rotating, anchor, calling, resumes, command, tick, spent>>

\* _restore_after_sensor_time_pause.
TickRestores ==
  /\ tick = "idle" /\ sensor.ok /\ Is({"SENSOR_TIME_INVALID"})
  /\ sensor' = [sensor EXCEPT !.hard = FALSE, !.previous = "IDLE"]
  /\ \/ /\ sensor.previous \in Seeds \cup Searching
        /\ att' = [att EXCEPT !.ls = sensor.previous]
        /\ UNCHANGED <<evidence, rotating, calling, spent>>
     \/ /\ sensor.previous \notin Seeds \cup Searching /\ Pose
        /\ Verify(FALSE) /\ UNCHANGED <<search, calling, spent>>
     \/ /\ sensor.previous \notin Seeds \cup Searching /\ ~Pose
        /\ StartGlobal(att)
  /\ Resting
  /\ UNCHANGED <<grid, anchor, resumes, command, tick>>

\* _localization_lost: by the tick in READY or by the AMCL callback.
LoseLocalization ==
  /\ tick = "idle" /\ grid # 0 /\ att.localized /\ obs.level = "none"
  /\ nav' = [Halt(nav) EXCEPT !.byLoss = IF MissionActive THEN nav.goal ELSE @,
                              !.losing = @ /\ ~MissionActive]
  /\ NewGeneration /\ anchor' = FALSE
  /\ StartGlobal(att)
  /\ UNCHANGED <<grid, sensor, command, tick>>

\* _resume_localization_navigation_if_ready, _resume_sensor_time_navigation_if_ready:
\* a thread for what is due, at most one of a kind at a time.
DueByTime(n) == n.byTime # 0 /\ ~n.timing /\ sensor.ok
DueByLoss(n) == n.byLoss # 0 /\ ~n.losing
Resume(by, g) == [by |-> by, goal |-> g, pc |-> "check"]
Resumed(n) == [n EXCEPT !.timing = @ \/ DueByTime(n), !.losing = @ \/ DueByLoss(n),
                        !.cur = IF DueByTime(n) \/ DueByLoss(n) THEN "PLANNING" ELSE @]
Threads(n) == (IF DueByTime(n) THEN {Resume("time", n.byTime)} ELSE {})
              \cup (IF DueByLoss(n) THEN {Resume("loss", n.byLoss)} ELSE {})

TickRetriesResume ==
  /\ tick = "idle" /\ (grid # 0 => sensor.ok) /\ att.localized /\ Is({"READY"})
  /\ DueByLoss(nav)
  /\ nav' = [nav EXCEPT !.losing = TRUE, !.cur = "PLANNING"]
  /\ resumes' = resumes \cup {Resume("loss", nav.byLoss)}
  /\ UNCHANGED <<grid, att, evidence, rotating, anchor, calling, sensor, command, tick, spent>>

-----------------------------------------------------------------------------
(* _localization_tick: the attempt in progress.                            *)

Tick == /\ tick = "idle" /\ (grid # 0 => sensor.ok) /\ Is(Localizing)
        /\ att.ls = "LOCALIZING_SETTLING" => att.settled
\* ready_evidence_since is forgotten by a tick that does not accept.
Judged == [att EXCEPT !.held = @ /\ Accepted]
Assistance(a) == [a EXCEPT !.localized = FALSE, !.ls = "AMBIGUOUS", !.assisted = TRUE]
Quiet == UNCHANGED <<grid, anchor, sensor, resumes, command>>

\* _start_localization_settling_evidence, once the chassis has come to rest.
TickSettles ==
  /\ tick = "idle" /\ (grid # 0 => sensor.ok)
  /\ Is({"LOCALIZING_SETTLING"}) /\ ~att.settled
  /\ att' = [att EXCEPT !.settled = TRUE, !.held = FALSE] /\ StationaryReset
  /\ Quiet /\ UNCHANGED <<search, rotating, calling, nav, tick, spent>>

TickAsks ==
  /\ Tick /\ att.untrusted /\ grid # 0
  /\ \/ att.hint /\ att.approx /\ Ask("seed")
     \/ ~att.hint /\ Corroborated /\ Pose /\ Ask("check")
  /\ att' = [att EXCEPT !.held = FALSE]
  /\ Quiet /\ UNCHANGED <<obs, rotating, calling, nav, tick, spent>>

\* A candidate that is accepted goes on; ready_evidence_since begins to count.
TickAdvances ==
  /\ Tick /\ Accepted /\ (~att.held \/ Is(Passive \cup {"CANDIDATE"}))
  /\ att' = [att EXCEPT !.held = TRUE, !.ls = CASE Is(Passive) -> "CANDIDATE"
                                                [] Is({"CANDIDATE"}) -> "VERIFYING"
                                                [] OTHER -> @]
  /\ Resting
  /\ Quiet /\ UNCHANGED <<evidence, rotating, calling, tick, spent>>

TickRejects ==
  /\ Tick /\ ~Accepted /\ att.held /\ att' = Judged
  /\ Quiet /\ UNCHANGED <<evidence, rotating, calling, nav, tick, spent>>

\* localization_ready_hold has passed; Accept writes what this tick has decided.
TickAccepts ==
  /\ Tick /\ Accepted /\ att.held /\ tick' = "accept"
  /\ Quiet /\ UNCHANGED <<att, evidence, rotating, calling, nav, spent>>

\* mutation: READY without _stop_localization_rotation.
AcceptTurning ==
  /\ tick = "accept" /\ tick' = "idle"
  /\ anchor' = TRUE
  /\ att' = [att EXCEPT !.localized = TRUE, !.ls = "READY", !.hint = FALSE, !.held = TRUE,
                        !.odometry = FALSE, !.allow = FALSE, !.pending = FALSE,
                        !.untrusted = FALSE, !.approx = FALSE]
  /\ nav' = Resumed(Rests(nav)) /\ resumes' = resumes \cup Threads(nav)
  /\ UNCHANGED <<grid, evidence, rotating, calling, sensor, command, spent>>

Accept ==
  /\ tick = "accept" /\ tick' = "idle"
  /\ rotating' = FALSE /\ anchor' = TRUE
  /\ att' = [att EXCEPT !.localized = TRUE, !.ls = "READY", !.hint = FALSE, !.held = TRUE,
                        !.odometry = FALSE, !.allow = FALSE, !.pending = FALSE,
                        !.untrusted = FALSE, !.approx = FALSE]
  /\ nav' = Resumed(Rests(nav)) /\ resumes' = resumes \cup Threads(nav)
  /\ UNCHANGED <<grid, evidence, calling, sensor, command, spent>>

\* _safe_to_rotate: what the model knows of it; anything else may forbid a rotation.
SafeToRotate == sensor.ok /\ nav.drive = 0 /\ nav.cur # "NAVIGATING"
NextRotation(a) == [a EXCEPT !.ls = "LOCALIZING_ROTATING", !.settled = FALSE]

\* A heading has been observed and gave no acceptable candidate.
TickNextHeading ==
  /\ Tick /\ Is({"LOCALIZING_SETTLING"}) /\ att.untrusted /\ obs.level # "none" /\ ~Accepted
  /\ IF att.turns = MaxTurns
       THEN att' = [Judged EXCEPT !.localized = FALSE, !.ls = "LOCALIZATION_FAILED"]
       ELSE /\ att.allow
            /\ \/ SafeToRotate /\ att' = NextRotation(Judged)
               \/ att' = [Judged EXCEPT !.ls = "AMBIGUOUS", !.assisted = TRUE]
  /\ rotating' = (rotating /\ att.turns # MaxTurns) /\ Resting
  /\ Quiet /\ UNCHANGED <<evidence, calling, tick, spent>>

TickVerifyTimesOut ==
  /\ Tick /\ Is({"VERIFYING"}) /\ ~Accepted
  /\ StartGlobal(att) /\ Resting
  /\ Quiet /\ UNCHANGED tick

\* localization_timeout: the operator's help is needed.
TickSessionTimesOut ==
  /\ Tick /\ ~Accepted /\ ~Is({"LOCALIZATION_FAILED"})
  /\ ~(Is({"AMBIGUOUS"}) /\ att.assisted)
  /\ ~(Is({"LOCALIZING_SETTLING"}) /\ att.untrusted /\ obs.level # "none")
  /\ att' = Assistance(Judged) /\ rotating' = FALSE /\ Resting
  /\ Quiet /\ UNCHANGED <<evidence, calling, tick, spent>>

\* The seed's own timeout.  A broad seed keeps its particles; an error that the
\* rejection of the odometry prior raises is not caught inside the tick.
TickSeedTimesOut ==
  /\ Tick /\ Is(Seeds)
  /\ \/ /\ ~att.odometry /\ att.approx
        /\ att' = [Judged EXCEPT !.ls = "AMBIGUOUS", !.assisted = TRUE, !.pending = FALSE]
        /\ Resting /\ UNCHANGED <<evidence, rotating, calling, spent, anchor, resumes>>
     \/ /\ att.odometry \/ ~att.approx
        /\ StartGlobal(att)
        /\ IF att.odometry /\ att'.ls = "LOCALIZATION_FAILED"
             THEN anchor' = FALSE /\ nav' = NoResume(Halt(nav)) /\ NewGeneration
             ELSE Resting /\ UNCHANGED <<anchor, resumes>>
  /\ UNCHANGED <<grid, sensor, command, tick>>

\* The stationary candidate had its chance: rotate if that is allowed and safe.
TickSearches ==
  /\ Tick /\ Is(Passive) /\ ~Accepted
  /\ \/ att.pending /\ att' = [Judged EXCEPT !.ls = "AMBIGUOUS", !.pending = FALSE]
        /\ UNCHANGED rotating
     \/ att.allow /\ att' = [Assistance(Judged) EXCEPT !.pending = FALSE] /\ rotating' = FALSE
     \/ /\ att.allow /\ SafeToRotate
        /\ att' = NextRotation([Judged EXCEPT !.pending = FALSE]) /\ UNCHANGED rotating
  /\ att' # att /\ Resting
  /\ Quiet /\ UNCHANGED <<evidence, calling, tick, spent>>

\* Rotating: the next heading is reached, the rotation has become unsafe, or the
\* velocity is published, which Rotate writes.
TickTurns ==
  /\ Tick /\ Is({"LOCALIZING_ROTATING"})
  /\ \/ /\ att.turns < MaxTurns
        /\ att' = [Judged EXCEPT !.ls = "LOCALIZING_SETTLING", !.settled = FALSE,
                                 !.turns = @ + 1]
     \/ att' = [Judged EXCEPT !.ls = "AMBIGUOUS"]
  /\ rotating' = FALSE /\ Resting
  /\ Quiet /\ UNCHANGED <<evidence, calling, tick, spent>>

TickRotates ==
  /\ Tick /\ Is({"LOCALIZING_ROTATING"}) /\ SafeToRotate /\ ~rotating
  /\ att' = Judged /\ tick' = "rotate"
  /\ Quiet /\ UNCHANGED <<evidence, rotating, calling, nav, spent>>

Rotate ==
  /\ tick = "rotate" /\ tick' = "idle" /\ rotating' = TRUE
  /\ Quiet /\ UNCHANGED <<att, evidence, calling, nav, spent>>

\* _fail_closed_localization_callback: a callback raised an unexpected exception.
FailClosed ==
  /\ tick = "idle" /\ grid # 0 /\ Fails("callback")
  /\ att' = [att EXCEPT !.localized = FALSE, !.ls = "LOCALIZATION_FAILED"]
  /\ rotating' = FALSE /\ anchor' = FALSE
  /\ nav' = NoResume(Halt(nav)) /\ NewGeneration
  /\ UNCHANGED <<grid, evidence, calling, sensor, command, tick>>

-----------------------------------------------------------------------------
(* The operator's localization commands.                                   *)

\* _prepare_motionless_localization_command: nothing may move, and no automatic
\* resume survives.
Motionless == nav.drive = 0 /\ ~rotating /\ nav.cur = "rest"
Prepare == /\ command.pc = "idle" /\ grid # 0 /\ Motionless
           /\ May /\ NewGeneration
Prepared == NoResume(nav)

\* map.relocalize with force_global.
ForceRescan ==
  /\ Prepare
  /\ \/ /\ Is(Searching) /\ att' = [att EXCEPT !.allow = TRUE] /\ nav' = Prepared
        /\ Spend("calls") /\ UNCHANGED <<evidence, rotating, calling>>
     \/ /\ ~Is(Searching) /\ nav' = [Prepared EXCEPT !.goal = 0]
        /\ \/ /\ anchor /\ att' = OdometryPrior(att, TRUE) /\ Forget
              /\ Spend("calls") /\ UNCHANGED <<rotating, calling>>
           \/ /\ ~anchor /\ tick = "idle"
              /\ StartGlobalFor([att EXCEPT !.allow = TRUE], 1)
  /\ UNCHANGED <<grid, anchor, sensor, command, tick>>

\* map.relocalize: verify without moving what there is.
Relocalize(allow) ==
  /\ Prepare /\ nav' = Prepared
  /\ \/ /\ Is(Seeds \cup {"LOCALIZATION_INITIALIZING", "VERIFYING"})
        /\ att' = [att EXCEPT !.allow = @ \/ allow] /\ Spend("calls")
        /\ UNCHANGED <<evidence, rotating, calling>>
     \/ /\ ~Is(Seeds \cup {"LOCALIZATION_INITIALIZING", "VERIFYING", "READY"})
        /\ Pose /\ Verify(allow) /\ Spend("calls") /\ UNCHANGED <<search, calling>>
     \/ /\ ~Is(Seeds \cup {"LOCALIZATION_INITIALIZING", "VERIFYING", "READY"})
        /\ ~Pose /\ tick = "idle"
        /\ StartGlobalFor([att EXCEPT !.allow = allow], 1)
  /\ UNCHANGED <<grid, anchor, sensor, command, tick>>

\* map.set_initial_pose; the same hint again leaves a converging cloud alone.
SetInitialPose ==
  /\ Prepare /\ tick = "idle" /\ Spend("calls")
  /\ \/ /\ att.hint /\ Is((Seeds \cup Searching) \ {"PASSIVE_LOCALIZING"})
        /\ nav' = Prepared /\ UNCHANGED <<att, evidence>>
     \/ att' = ClickHint(att) /\ Forget /\ nav' = Prepared
  /\ UNCHANGED <<grid, rotating, anchor, calling, sensor, command, tick>>

-----------------------------------------------------------------------------
(* map.load and map.deactivate.                                            *)

\* The Center ends a mission that moves before it asks for another map; the bound is
\* that no mission waits to be resumed then, of which _load_map takes no notice.
LoadStarts ==
  /\ command.pc = "idle" /\ spent.loads < MaxLoads /\ May /\ nav.drive = 0 /\ nav.cur = "rest"
  /\ nav.byTime = 0 /\ nav.byLoss = 0 /\ resumes = {} /\ Spend("loads")
  /\ command' = [pc |-> "loading", grid |-> grid, localized |-> att.localized, ls |-> att.ls,
                 through |-> FALSE]
  /\ att' = [att EXCEPT !.ls = "LOCALIZATION_INITIALIZING"]
  /\ UNCHANGED <<grid, evidence, rotating, anchor, calling, sensor, mission, tick>>

\* The answer of the Map Server takes longer than the rest of a tick.
LoadCommits ==
  /\ command.pc = "loading" /\ tick = "idle" /\ command' = [command EXCEPT !.pc = "loaded"]
  /\ grid' = spent.loads
  /\ att' = [att EXCEPT !.localized = FALSE, !.ls = "LOCALIZATION_INITIALIZING"]
  /\ anchor' = FALSE
  /\ nav' = [nav EXCEPT !.goal = 0, !.byLoss = 0, !.losing = FALSE, !.cur = "rest"]
  /\ UNCHANGED <<evidence, rotating, calling, sensor, resumes, tick, spent>>

\* rollback_map, after a refusal of the Map Server or without its /map; it may fail.
RollsBack ==
  /\ \/ command.pc = "loading" /\ Fails("response")
     \/ command.pc = "loaded" /\ Fails("topic")
  /\ command' = NoCommand /\ rotating' = FALSE /\ Resting
  /\ \/ /\ grid' = command.grid
        /\ att' = [att EXCEPT !.localized = command.localized,
                              !.ls = IF command.grid = 0 THEN "IDLE" ELSE command.ls]
     \/ "rollback" \in FaultKinds /\ command.grid # 0 /\ UNCHANGED <<grid, att>>
  /\ UNCHANGED <<evidence, anchor, calling, sensor, resumes, tick>>

\* MAP_LOAD_TIMEOUT is raised without a rollback.
LoadTimesOut ==
  /\ command.pc = "loading" /\ Fails("timeout")
  /\ command' = NoCommand
  /\ UNCHANGED <<grid, att, evidence, rotating, anchor, calling, sensor, mission, tick>>

\* _begin_auto_localization from the last known pose: none, a recent one, a legacy one.
LastPose(a, approx) == [Reset(a) EXCEPT !.ls = "LOCALIZING_LAST_POSE", !.allow = FALSE,
                                        !.turns = 0, !.approx = approx, !.untrusted = approx]
\* mutation: the new session starts with the evidence there is.
BeginAutoKept ==
  \/ \E approx \in BOOLEAN : /\ att' = LastPose(att, approx) /\ rotating' = FALSE
                             /\ UNCHANGED <<evidence, calling, spent>>
  \/ StartGlobal([att EXCEPT !.allow = FALSE])

BeginAuto ==
  \/ \E approx \in BOOLEAN : /\ att' = LastPose(att, approx) /\ Forget /\ rotating' = FALSE
                             /\ UNCHANGED <<calling, spent>>
  \/ StartGlobal([att EXCEPT !.allow = FALSE])

\* A mission stored for this map is kept, and resumed if its record says so.
LoadEnds(stored, auto) ==
  /\ command.pc = "loaded" /\ tick = "idle" /\ command' = [NoCommand EXCEPT !.through = TRUE]
  /\ nav' = [Rests(nav) EXCEPT !.goal = stored, !.byLoss = IF auto THEN stored ELSE @]
  /\ BeginAuto
  /\ UNCHANGED <<grid, anchor, sensor, resumes, tick>>

Deactivate ==
  /\ command.pc = "idle" /\ grid # 0 /\ grid' = 0
  /\ att' = [att EXCEPT !.localized = FALSE, !.allow = FALSE, !.ls = "IDLE"]
  /\ rotating' = FALSE /\ anchor' = FALSE
  /\ nav' = [NoResume(Halt(nav)) EXCEPT !.goal = 0] /\ NewGeneration
  /\ UNCHANGED <<evidence, calling, sensor, command, tick, spent>>

-----------------------------------------------------------------------------
(* The mission, as far as localization and it depend on each other.        *)

\* navigation.start, once it is validated and authorised (_navigate).
Start ==
  /\ command.pc = "idle" /\ grid # 0 /\ spent.goals < MaxGoals /\ May /\ nav.cur # "PLANNING"
  /\ att.localized /\ Is({"READY"}) /\ obs.level # "none" /\ sensor.ok /\ nav.drive = 0
  /\ Spend("goals") /\ NewGeneration
  /\ nav' = [nav EXCEPT !.goal = spent.goals + 1, !.drive = spent.goals + 1,
                        !.cur = "NAVIGATING"]
  /\ UNCHANGED <<grid, att, evidence, rotating, anchor, calling, sensor, command, tick>>

\* The goal is reached, the route waits for an obstacle, the operator cancels or pauses.
MissionEnds ==
  /\ \/ /\ nav.drive # 0 /\ UNCHANGED resumes
        /\ nav' \in {[Halt(nav) EXCEPT !.goal = 0], [Halt(nav) EXCEPT !.cur = "WAITING"]}
     \/ /\ nav.goal # 0 /\ NewGeneration
        /\ nav' \in {[NoResume(Halt(nav)) EXCEPT !.goal = 0], NoResume(Halt(nav))}
  /\ nav' # nav
  /\ UNCHANGED <<grid, att, evidence, rotating, anchor, calling, sensor, command, tick, spent>>

\* _pause_for_execution_pose_discontinuity.
PoseJumps ==
  /\ tick = "idle" /\ nav.cur = "NAVIGATING" /\ Fails("jump")
  /\ nav' = [Halt(nav) EXCEPT !.byTime = nav.goal] /\ NewGeneration
  /\ Verify(TRUE)
  /\ UNCHANGED <<grid, search, anchor, calling, sensor, command, tick>>

\* The threads of an automatic resume: they look, plan, start the route under the
\* generation they captured, and clear the context in any generation.
Without(by) == IF by = "time" THEN [nav EXCEPT !.timing = FALSE] ELSE [nav EXCEPT !.losing = FALSE]
ResumeChecks(r) ==
  /\ r.pc = "check"
  /\ r.by = "time" => att.localized /\ Is({"READY"}) /\ sensor.ok
  /\ resumes' = (resumes \ {r}) \cup {[r EXCEPT !.pc = "start"]}
  /\ UNCHANGED <<nav, spent>>
ResumeStarts(r) ==
  /\ r.pc = "start"
  /\ nav' = [nav EXCEPT !.goal = r.goal, !.drive = r.goal, !.cur = "NAVIGATING"]
  /\ resumes' = Retired(resumes \ {r}) \cup {[r EXCEPT !.pc = "clear"]}
  /\ UNCHANGED spent
ResumeClears(r) ==
  /\ r.pc = "clear" /\ resumes' = resumes \ {r}
  /\ nav' = IF r.by = "time" THEN [Without("time") EXCEPT !.byTime = 0]
                             ELSE [Without("loss") EXCEPT !.byLoss = 0]
  /\ UNCHANGED spent
ResumeFails(r) ==
  /\ r.pc # "clear" /\ resumes' = resumes \ {r}
  /\ nav' = [Without(r.by) EXCEPT !.cur = "WAITING"]
  /\ \/ Fails("plan")
     \/ /\ r.by = "time" /\ ~(att.localized /\ Is({"READY"}) /\ sensor.ok)
        /\ UNCHANGED spent
ResumeStep(r) ==
  /\ ResumeChecks(r) \/ ResumeStarts(r) \/ ResumeClears(r) \/ ResumeFails(r)
  /\ UNCHANGED <<grid, att, evidence, rotating, anchor, calling, sensor, command, tick>>

-----------------------------------------------------------------------------
Monitors == TickLosesTf \/ TickDegrades \/ TickGivesUpOnSensors \/ TickRestores
            \/ LoseLocalization \/ TickRetriesResume \/ FailClosed
Ticks == \/ TickSettles \/ TickAsks \/ TickAdvances \/ TickRejects \/ TickAccepts
         \/ TickNextHeading \/ TickVerifyTimesOut \/ TickSessionTimesOut
         \/ TickSeedTimesOut \/ TickSearches \/ TickTurns \/ TickRotates
Writes == Accept \/ Rotate
World == \/ \E level \in Levels : Observe(level)
         \/ SensorFault \/ SensorHeals \/ ServiceAnswers \/ PoseJumps
Operator == ForceRescan \/ (\E allow \in BOOLEAN : Relocalize(allow)) \/ SetInitialPose
            \/ Start \/ MissionEnds
Loading == \/ LoadStarts \/ LoadCommits \/ RollsBack \/ LoadTimesOut \/ Deactivate
           \/ \E stored \in Goals, auto \in BOOLEAN : LoadEnds(stored, auto)

LocalizationNext == \/ Monitors \/ Ticks \/ Writes \/ World \/ Operator \/ Loading
        \/ \E w \in workers : SearchEnds(w)
        \/ \E r \in resumes : ResumeStep(r)

LocalizationSpec == LocalizationInit /\ [][LocalizationNext]_localizationVars

-----------------------------------------------------------------------------
(* Properties.                                                             *)

\* A pose found by searching the whole map becomes READY only if the uniqueness of
\* the match was judged for this very attempt on this grid, or within the region
\* the operator pointed at (_localization_verdict; the generation, attempt and
\* grid checks of evaluate at 3346).
ReadyIsUnique ==
  [][tick = "accept" /\ att.untrusted /\ att'.localized
       => att.hint \/ (verdict = "good" /\ ~foreign)]_localizationVars

\* After a map.load that went through, a robot counts as localized on evidence of
\* that map only, although _load_map, _deactivate_map and map.relocalize write without
\* localization_lock between the two halves of a tick.  (After a load that is rolled
\* back the older attempt goes on with what was seen of the newer grid; after one whose
\* rollback fails too, nothing clears what was seen of the older.)
EvidenceFitsMap ==
  command.pc = "idle" /\ command.through /\ att.localized /\ grid # 0 => obs.grid \in {0, grid}

\* Localization and navigation never own the chassis together (_safe_to_rotate,
\* _stop_localization_rotation, _prepare_motionless_localization_command).
OneMotionOwner == ~(rotating /\ nav.drive # 0)

\* A localization recovery resumes the mission that is kept.  "An explicit operator
\* command owns the outcome. Neither sensor nor localization recovery may auto-resume
\* an older mission." (adapter_node.py:14792): a route to the destination of a mission
\* that a newer navigation.start has replaced is never started again.  The code does
\* not keep this: see the README, section 5.
OlderMissionIsNotResumed ==
  [][nav'.drive \notin {0, nav.drive} /\ nav.goal # 0 /\ UNCHANGED spent
       => nav'.drive = nav.goal]_localizationVars

=============================================================================
