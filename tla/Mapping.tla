------------------------------- MODULE Mapping -------------------------------
(***************************************************************************)
(* A mapping session from the operator to the stored version: the rows and *)
(* handlers of the center (api/maps.py, api/websockets.py), the edge's     *)
(* execute and its upload (navigation_backends.py, client.py), the mode    *)
(* supervisor that replaces one ROS stack by the other, and the mapping    *)
(* adapter with SLAM and its autosave (adapter_node.py).                   *)
(*                                                                         *)
(* Statuses are written without their prefix MAPPING_; "RESET" is FAULT    *)
(* with error_code MAPPING_RUNTIME_RESET.  The robot is online throughout. *)
(***************************************************************************)
EXTENDS Naturals, FiniteSets, FiniteSetsExt

CONSTANTS
    MaxSessions,  \* bound: mapping sessions, numbered as they are created
    MaxCalls,     \* bound: requests the center serves, numbered as they come
    Ops,          \* operations asked for
    MaxFaults     \* bound: crashes, timeouts, failed commands and services

Sessions == 1..MaxSessions
Calls == 1..MaxCalls
NoCall == 0

ASSUME BoundAssumption == MaxSessions \in Nat /\ MaxCalls \in Nat /\ MaxFaults \in Nat

VARIABLES
    row,       \* MappingSession.status
    record,    \* its MapRecord: new, one with a saved version that it continues, or deleted
    stored,    \* what MapVersion holds of the session
    ask,       \* the request a handler of the center serves
    task,      \* _handle_navigation_command of a request
    hold,      \* Ros2NavigationBackend._lock: its holder, where it is, the answer it got
    seen,      \* Ros2NavigationBackend._state
    request,   \* mode-request.json
    status,    \* mode-status.json
    sup,       \* mode_supervisor.py
    running,   \* containers that run
    rt,        \* the adapter that owns the socket, its SLAM and its current job
    autosave,  \* _autosave_posegraph: "paused" and "frozen" hold the operation lock
    gen,       \* sessions with a committed autosave generation
    bundle,    \* created/<map>/v<n>/map-bundle.tar.gz: what it holds
    marker,    \* sessions with an .upload-pending.json
    faults     \* faults so far

center == <<row, record, stored, ask>>
edge == <<task, hold, seen>>
host == <<request, status, sup, running>>
disk == <<gen, bundle, marker>>
vars == <<center, edge, host, rt, autosave, disk, faults>>

Closed == {"FINISHED", "CANCELED", "FAULT", "RESET", "ERROR"}
Open == {s \in Sessions : row[s] \notin Closed \cup {"none"}}
NoAsk == [op |-> "none", s |-> 0, pc |-> "idle", ok |-> FALSE, st |-> "none"]
Served == [NoAsk EXCEPT !.pc = "done"]
NoTask == [pc |-> "idle", op |-> "none", exp |-> "none"]
NoJob == [op |-> "none", s |-> 0, c |-> NoCall, exp |-> "none", begun |-> FALSE]
Free == [c |-> NoCall, pc |-> "none", ok |-> FALSE, st |-> "FAULT", id |-> 0]
NoStack == [mode |-> "none", reach |-> FALSE, st |-> "none", own |-> 0, graph |-> {},
            paused |-> FALSE, doubt |-> FALSE, job |-> NoJob]
\* A stack that has just come up: an adapter in IDLE before an empty graph.
Fresh(mode) == [NoStack EXCEPT !.mode = mode, !.reach = TRUE,
                               !.st = IF mode = "MAPPING" THEN "IDLE" ELSE "READY"]
Mode(op) == IF op = "load" THEN "NAVIGATION" ELSE "MAPPING"

Init ==
    /\ row = [s \in Sessions |-> "none"] /\ record = [s \in Sessions |-> "none"]
    /\ stored = [s \in Sessions |-> "none"]
    /\ ask = [c \in Calls |-> NoAsk]
    /\ task = [c \in Calls |-> NoTask]
    /\ hold = Free /\ seen = [mode |-> "none", st |-> "FAULT"]
    /\ request = [mode |-> "NAVIGATION", id |-> 1]
    /\ status = [id |-> 1, res |-> "READY"]
    /\ sup = [pc |-> "idle", id |-> 1, mode |-> "NAVIGATION"]
    /\ running = {"NAVIGATION"} /\ rt = Fresh("NAVIGATION") /\ autosave = "idle"
    /\ gen = {} /\ bundle = [s \in Sessions |-> "none"] /\ marker = {} /\ faults = 0

Fault == faults < MaxFaults /\ faults' = faults + 1

-----------------------------------------------------------------------------
(* The center. *)

Ask(c, op, s, expected) ==
    /\ ask[c].pc = "idle" /\ \A p \in 1..(c - 1) : ask[p].pc # "idle"
    /\ ask' = [ask EXCEPT ![c] = [op |-> op, s |-> s, pc |-> "asked", ok |-> FALSE, st |-> "none"]]
    /\ task' = [task EXCEPT ![c] = [pc |-> "new", op |-> op, exp |-> expected]]

\* start_mapping: the row is committed before the robot is asked, for a new map or for one that
\* has a saved version.
Start(c) ==
    /\ "start" \in Ops /\ Open = {}
    /\ \E s \in Sessions :
         /\ row[s] = "none" /\ \A p \in 1..(s - 1) : row[p] # "none"
         /\ row' = [row EXCEPT ![s] = "STARTING"]
         /\ \E map \in {"new", "saved"} : record' = [record EXCEPT ![s] = map]
         /\ Ask(c, "start", s, "IDLE")
    /\ UNCHANGED <<stored, hold, seen, host, rt, autosave, disk, faults>>

\* The transitions that an action may ask for (MAPPING_TRANSITIONS and mapping_action).
Before(op) ==
    CASE op = "stop" -> {"RUNNING", "SAVING", "STOPPED"}
      [] op = "save" -> {"STOPPED"}
      [] op = "finish" -> {"RUNNING", "STOPPED", "PAUSED"}
      [] op = "pause" -> {"RUNNING", "PAUSED"}
      [] op = "resume" -> {"STARTING", "LOCALIZING", "RUNNING", "STOPPED", "PAUSED"}
      [] op = "discard" -> {"STARTING", "LOCALIZING", "RUNNING", "STOPPED", "PAUSED", "ERROR",
                            "FAULT", "RESET", "CANCELED"}
      [] OTHER -> {"RESET"}

Target(op) ==
    CASE op = "stop" -> "STOPPED"
      [] op \in {"save", "finish"} -> "FINISHED"
      [] op \in {"pause", "recover"} -> "PAUSED"
      [] op = "resume" -> "RUNNING"
      [] OTHER -> "CANCELED"

\* mapping_action: the panel expects the status it shows.
Act(c, s, op) ==
    /\ op \in Ops \ {"start", "load"} /\ row[s] \in Before(op)
    /\ op = "recover" => stored[s] = "none" /\ record[s] # "saved" /\ Open = {}
    /\ Ask(c, op, s, IF op = "recover" THEN "IDLE" ELSE row[s])
    /\ UNCHANGED <<row, record, stored, hold, seen, host, rt, autosave, disk, faults>>

\* api/navigation.py load_map looks at no mapping session.
LoadMap(c) ==
    /\ "load" \in Ops
    /\ Ask(c, "load", 0, "none")
    /\ UNCHANGED <<row, record, stored, hold, seen, host, rt, autosave, disk, faults>>

\* The handler resumes: what it awaited decides, whatever happened to the row meanwhile.  A
\* cancel deletes the map that has no version yet.
Commit(c) ==
    LET a == ask[c]
        reached == a.ok \/ a.st = Target(a.op)
        told == {"RUNNING", "STOPPED", "ERROR", "PAUSED", "FINISHED", "CANCELED", "FAULT"}
    IN /\ a.pc = "answered"
       /\ row' = IF a.op = "load" THEN row
                 ELSE IF a.op = "start" THEN [row EXCEPT ![a.s] = IF a.ok THEN "RUNNING" ELSE "ERROR"]
                 ELSE IF reached THEN [row EXCEPT ![a.s] = Target(a.op)]
                 ELSE IF a.st \in told THEN [row EXCEPT ![a.s] = a.st] ELSE row
       /\ record' = IF a.op = "discard" /\ reached /\ record[a.s] = "new" /\ stored[a.s] = "none"
                    THEN [record EXCEPT ![a.s] = "deleted"] ELSE record
       /\ ask' = [ask EXCEPT ![c] = Served]
       /\ UNCHANGED <<stored, edge, host, rt, autosave, disk, faults>>

\* A request that failed: the handler raises, and only start_mapping writes the row.
RowsAfterFailure(failed) ==
    [s \in Sessions |-> IF \E c \in failed : ask[c].op = "start" /\ ask[c].s = s
                        THEN "ERROR" ELSE row[s]]

AskTimesOut(c) ==
    /\ Fault /\ ask[c].pc = "asked"
    /\ row' = RowsAfterFailure({c})
    /\ ask' = [ask EXCEPT ![c] = [@ EXCEPT !.pc = "left"]]
    /\ UNCHANGED <<record, stored, edge, host, rt, autosave, disk>>

\* persist_robot_runtime_event: the newest open session gets the state of the runtime.
Health ==
    /\ seen.mode = "MAPPING" /\ Open # {}
    /\ row' = [row EXCEPT ![Max(Open)] = IF seen.st = "IDLE" THEN "RESET" ELSE seen.st]
    /\ UNCHANGED <<record, stored, ask, edge, host, rt, autosave, disk, faults>>

-----------------------------------------------------------------------------
(* The edge: one execute at a time. *)

Respond(c, ok, st) ==
    /\ ask' = [ask EXCEPT ![c] = IF @.pc = "asked"
                                 THEN [@ EXCEPT !.pc = "answered", !.ok = ok, !.st = st] ELSE Served]
    /\ task' = [task EXCEPT ![c] = NoTask]

\* A recovery without a complete autosave is refused; so is a source that cannot be fetched.
Unserved(c) ==
    /\ task[c].pc = "new" /\ hold.c # c
    /\ \/ task[c].op = "recover" /\ ask[c].s \notin gen
       \/ task[c].op \in {"start", "load"}
    /\ Respond(c, FALSE, "FAULT")
    /\ UNCHANGED <<row, record, stored, hold, seen, host, rt, autosave, disk, faults>>

Acquire(c) ==
    /\ task[c].pc \in {"new", "again"} /\ hold = Free
    /\ task[c].op = "recover" => ask[c].s \in gen
    /\ hold' = [Free EXCEPT !.c = c, !.pc = "ensure"]
    /\ UNCHANGED <<center, task, seen, host, rt, autosave, disk, faults>>

Answers(mode) == rt.reach /\ rt.mode = mode /\ rt.job = NoJob

\* What execute sends: a recovery is a start from the autosave, then a pause.
Sent(c) == IF task[c].op # "recover" THEN task[c].op
           ELSE IF task[c].pc = "again" THEN "pause" ELSE "start"

\* After a switch the state the adapter reports replaces the state the browser expected; an
\* adapter that was merely busy has its own word taken for it (doubt).
Submit(c, expected) ==
    /\ rt' = [rt EXCEPT !.doubt = @ \/ (hold.pc = "wait" /\ rt.st \notin {"IDLE", "READY"}),
                        !.job = [op |-> Sent(c), s |-> ask[c].s, c |-> c, exp |-> expected,
                                 begun |-> FALSE]]
    /\ hold' = [hold EXCEPT !.pc = "calling", !.id = 0]
    /\ seen' = [mode |-> rt.mode, st |-> rt.st]

\* The ids are unique; only whether two are equal matters, so that a forgotten one is used again.
NewId == CHOOSE i \in 1..5 : i \notin {request.id, status.id, sup.id, hold.id}
WriteRequest(mode) == request' = [mode |-> mode, id |-> NewId]

\* _ensure_mode: an adapter that does not answer, because it is busy or not there, is replaced.
Ensure(c) ==
    /\ hold.c = c /\ hold.pc = "ensure"
    /\ IF Answers(Mode(task[c].op))
       THEN Submit(c, task[c].exp) /\ UNCHANGED request
       ELSE /\ WriteRequest(Mode(task[c].op))
            /\ hold' = [hold EXCEPT !.pc = "wait", !.id = NewId]
            /\ UNCHANGED <<rt, seen>>
    /\ UNCHANGED <<center, task, status, sup, running, autosave, disk, faults>>

Switched(c) ==
    /\ hold.c = c /\ hold.pc = "wait" /\ Answers(Mode(task[c].op))
    /\ Submit(c, rt.st)
    /\ UNCHANGED <<center, task, host, autosave, disk, faults>>

Replied(ok, st) == hold' = [hold EXCEPT !.pc = "replied", !.ok = ok, !.st = st]

SwitchFails(c) ==
    /\ hold.c = c /\ hold.pc = "wait"
    /\ \/ /\ status.id = hold.id /\ status.res = "FAULT"
          /\ Replied(FALSE, seen.st) /\ UNCHANGED <<seen, faults>>
       \/ /\ Fault /\ Replied(FALSE, "FAULT") /\ seen' = [seen EXCEPT !.st = "FAULT"]
    /\ UNCHANGED <<center, task, host, rt, autosave, disk>>

\* The adapter is gone, or takes too long: the job it has begun goes on without its caller.
CallFails(c) ==
    /\ hold.c = c /\ hold.pc = "calling"
    /\ \/ rt.job.c # c /\ UNCHANGED <<rt, faults>>
       \/ Fault /\ rt.job.c = c /\ rt' = [rt EXCEPT !.job.c = NoCall]
    /\ Replied(FALSE, "FAULT") /\ seen' = [seen EXCEPT !.st = "FAULT"]
    /\ UNCHANGED <<center, task, host, autosave, disk>>

\* The lock is released; what a save still has to do comes after it.
Release(c) ==
    /\ hold.c = c /\ hold.pc = "replied"
    /\ hold' = Free
    /\ IF ~hold.ok THEN Respond(c, FALSE, hold.st)
       ELSE IF Sent(c) \in {"save", "finish"} THEN task' = [task EXCEPT ![c].pc = "saved"] /\ UNCHANGED ask
       ELSE IF task[c].op = "recover" /\ task[c].pc = "new"
       THEN task' = [task EXCEPT ![c].pc = "again", ![c].exp = "RUNNING"] /\ UNCHANGED ask
       ELSE Respond(c, TRUE, hold.st)
    /\ UNCHANGED <<row, record, stored, seen, host, rt, autosave, disk, faults>>

ToNavigation(c) ==
    /\ task[c].pc = "saved"
    /\ WriteRequest("NAVIGATION")
    /\ task' = [task EXCEPT ![c].pc = "queue"]
    /\ UNCHANGED <<center, hold, seen, status, sup, running, rt, autosave, disk, faults>>


\* The marker is durable before the save is acknowledged.
Queue(c) ==
    /\ task[c].pc = "queue"
    /\ marker' = marker \cup {ask[c].s}
    /\ Respond(c, TRUE, "FINISHED")
    /\ UNCHANGED <<row, record, stored, hold, seen, host, rt, autosave, gen, bundle, faults>>

\* _navigation_runtime_loop asks for the adapter's state.
Poll ==
    /\ hold = Free /\ rt.reach /\ rt.job = NoJob
    /\ seen' = [mode |-> rt.mode, st |-> rt.st]
    /\ UNCHANGED <<center, task, hold, host, rt, autosave, disk, faults>>

\* upload_version: 404 for a deleted map, 422 for a bundle that its validation refuses.
Refused(s) == record[s] = "deleted" \/ bundle[s] = "invalid"

\* upload_version stores a version once; another checksum is refused.  The marker of an upload
\* that is refused stays.
Upload(s) ==
    /\ s \in marker /\ stored[s] = "none" /\ ~Refused(s)
    /\ stored' = [stored EXCEPT ![s] = bundle[s]]
    /\ UNCHANGED <<row, record, ask, edge, host, rt, autosave, disk, faults>>

Uploaded(s) ==
    /\ s \in marker /\ stored[s] = bundle[s]
    /\ marker' = marker \ {s}
    /\ UNCHANGED <<center, edge, host, rt, autosave, gen, bundle, faults>>

\* map.resync of a stored version.
Resync(s) ==
    /\ "resync" \in Ops /\ stored[s] # "none" /\ bundle[s] # "none"
    /\ marker' = marker \cup {s}
    /\ UNCHANGED <<center, edge, host, rt, autosave, gen, bundle, faults>>

\* The edge process restarts: what it had not written down is lost.
EdgeCrash ==
    /\ Fault
    /\ row' = RowsAfterFailure({c \in Calls : ask[c].pc = "asked"})
    /\ ask' = [c \in Calls |-> IF ask[c].pc \in {"asked", "left"} THEN Served ELSE ask[c]]
    /\ task' = [c \in Calls |-> NoTask]
    /\ hold' = Free /\ seen' = [mode |-> "none", st |-> "FAULT"]
    /\ rt' = [rt EXCEPT !.job.c = NoCall]
    /\ UNCHANGED <<record, stored, host, autosave, disk>>

-----------------------------------------------------------------------------
(* mode_supervisor.py *)

\* The newest request; an older one that it has not seen is never served.
SupTakes ==
    /\ sup.pc = "idle" /\ request.id # sup.id
    /\ sup' = [pc |-> "check", id |-> request.id, mode |-> request.mode]
    /\ status' = [id |-> request.id, res |-> "SWITCHING"]
    /\ UNCHANGED <<center, edge, request, running, rt, autosave, disk, faults>>

SupEnds(res) == sup' = [sup EXCEPT !.pc = "idle"] /\ status' = [id |-> sup.id, res |-> res]

SupChecks ==
    /\ sup.pc = "check"
    /\ IF Answers(sup.mode) THEN SupEnds("READY")
                            ELSE sup' = [sup EXCEPT !.pc = "stop"] /\ UNCHANGED status
    /\ UNCHANGED <<center, edge, request, running, rt, autosave, disk, faults>>

\* mutation: compose up without the stop of the other stack
StoppedFirstNot == running

\* The stack of the other mode is stopped first.
StoppedFirst == running \cap {sup.mode}

\* compose stop, then remove_stale_socket; whoever still runs has lost its socket.
SupStops ==
    /\ sup.pc = "stop"
    /\ running' = StoppedFirst
    /\ rt' = IF rt.mode \in running' THEN [rt EXCEPT !.reach = FALSE] ELSE NoStack
    /\ autosave' = IF rt.mode \in running' THEN autosave ELSE "idle"
    /\ sup' = [sup EXCEPT !.pc = "up"]
    /\ UNCHANGED <<center, edge, request, status, disk, faults>>

\* compose up --force-recreate: a container that ran is replaced.
SupStarts ==
    /\ sup.pc = "up"
    /\ running' = running \cup {sup.mode}
    /\ rt' = NoStack /\ autosave' = "idle"
    /\ sup' = [sup EXCEPT !.pc = "await"]
    /\ UNCHANGED <<center, edge, request, status, disk, faults>>

\* mutation: wait_for_mode without a deadline
AwaitForever == sup.pc = "await" /\ Answers(sup.mode) /\ SupEnds("READY")

\* wait_for_mode: the adapter of the mode answers, or the time is up.
Await ==
    /\ sup.pc = "await"
    /\ \/ Answers(sup.mode) /\ SupEnds("READY")
       \/ ~Answers(sup.mode) /\ SupEnds("FAULT")

SupAwaits == Await /\ UNCHANGED <<center, edge, request, running, rt, autosave, disk, faults>>

\* validate_base_runtime or a compose command fails.
SupFails ==
    /\ Fault /\ sup.pc \in {"check", "stop", "up"}
    /\ SupEnds("FAULT")
    /\ UNCHANGED <<center, edge, request, running, rt, autosave, disk>>

\* The last request is in memory only: a restarted supervisor serves it again.
SupCrash ==
    /\ Fault
    /\ sup' = [sup EXCEPT !.pc = "idle", !.id = 0]
    /\ UNCHANGED <<center, edge, request, status, running, rt, autosave, disk>>

\* A container that has been started gets ready.
Boot ==
    /\ rt = NoStack
    /\ \E mode \in running : rt' = Fresh(mode)
    /\ UNCHANGED <<center, edge, host, autosave, disk, faults>>

\* Docker restarts a stack that died.
StackCrash ==
    /\ Fault /\ rt # NoStack
    /\ rt' = NoStack /\ autosave' = "idle"
    /\ UNCHANGED <<center, edge, host, disk>>

-----------------------------------------------------------------------------
(* The adapter. *)

\* mutation: the operation lock is left out
LockFreeAlways == TRUE

\* mapping_operation_lock
LockFree == autosave = "idle" /\ ~rt.job.begun

\* A job that ends: its caller, if it still waits, gets the answer.
Ends(ok) ==
    IF rt.job.c = NoCall THEN UNCHANGED <<hold, seen>>
    ELSE /\ hold' = [hold EXCEPT !.pc = "replied", !.ok = ok, !.st = rt'.st]
         /\ seen' = [mode |-> rt.mode, st |-> rt'.st]

Restartable == {"CANCELED", "FINISHED", "FAULT", "ERROR"}

\* _dispatch: the state that the caller expects must be the adapter's.
Expected == \/ rt.job.exp \in {"none", rt.st}
            \/ rt.job.op = "start" /\ rt.job.exp = "IDLE" /\ rt.st \in Restartable

\* A job that is refused before it changes anything: a conflict, a sensor or a service that is
\* not there.
Refuses ==
    /\ rt.job # NoJob /\ ~rt.job.begun
    /\ \/ ~Expected /\ UNCHANGED faults
       \/ Expected /\ LockFree /\ Fault
    /\ rt' = [rt EXCEPT !.job = NoJob] /\ Ends(FALSE)
    /\ UNCHANGED <<center, task, host, autosave, disk>>

Ready(op) == rt.job.op = op /\ ~rt.job.begun /\ Expected /\ LockFree

\* mapping.start: a finished session's SLAM is restarted; a continuation localises first.
StartsMapping ==
    /\ Ready("start")
    /\ LET graph == IF rt.st \in Restartable THEN {} ELSE rt.graph
           paused == IF rt.st \in Restartable THEN FALSE ELSE rt.paused
           begun == [rt EXCEPT !.own = rt.job.s, !.graph = graph, !.paused = paused]
       IN \/ /\ rt' = [begun EXCEPT !.st = "RUNNING", !.graph = graph \cup {rt.job.s}, !.job = NoJob]
             /\ Ends(TRUE)
          \/ /\ rt' = [begun EXCEPT !.st = "LOCALIZING", !.job.begun = TRUE]
             /\ UNCHANGED <<hold, seen>>
    /\ UNCHANGED <<center, task, host, autosave, disk, faults>>

\* _verify_mapping_continuation_pose: confirmed, or the source graph is loaded again.
Locates ==
    /\ rt.job.op = "start" /\ rt.job.begun
    /\ \E ok \in BOOLEAN :
         /\ rt' = [rt EXCEPT !.st = IF ok THEN "RUNNING" ELSE "ERROR", !.job = NoJob,
                             !.graph = IF ok THEN @ \cup {rt.job.s} ELSE @]
         /\ Ends(ok)
    /\ UNCHANGED <<center, task, host, autosave, disk, faults>>

\* The pause service of SLAM toggles, for a command repeated in its own state too; one that times
\* out may have toggled all the same.
Toggles ==
    /\ rt.job.op \in {"stop", "pause", "resume"} /\ Ready(rt.job.op)
    /\ \/ /\ rt' = [rt EXCEPT !.st = Target(rt.job.op), !.paused = ~@, !.job = NoJob,
                              !.doubt = @ \/ rt.st = Target(rt.job.op)]
          /\ Ends(TRUE) /\ UNCHANGED faults
       \/ /\ Fault
          /\ rt' = [rt EXCEPT !.paused = ~@, !.doubt = TRUE, !.job = NoJob]
          /\ Ends(FALSE)
    /\ UNCHANGED <<center, task, host, autosave, disk>>

Discards ==
    /\ Ready("discard")
    /\ rt' = [rt EXCEPT !.st = "CANCELED", !.job = NoJob] /\ Ends(TRUE)
    /\ UNCHANGED <<center, task, host, autosave, disk, faults>>

StartsSaving ==
    /\ rt.job.op \in {"save", "finish"} /\ Ready(rt.job.op)
    /\ rt' = [rt EXCEPT !.st = "SAVING", !.job.begun = TRUE]
    /\ UNCHANGED <<center, edge, host, autosave, disk, faults>>

\* _save_mapping_bundle replaces the bundle of the version by what SLAM holds, within the center's
\* limits (MapBundleStore) or not.  After a failure
\* the state stays SAVING, and the stop that leaves it toggles a SLAM that is paused already.
Saves ==
    /\ rt.job.op \in {"save", "finish"} /\ rt.job.begun
    /\ \/ /\ \E content \in {IF rt.job.s \in rt.graph THEN "survey" ELSE "blank", "invalid"} :
                bundle' = [bundle EXCEPT ![rt.job.s] = content]
          /\ rt' = [rt EXCEPT !.st = "FINISHED", !.job = NoJob]
          /\ Ends(TRUE) /\ UNCHANGED faults
       \/ /\ Fault /\ UNCHANGED bundle
          /\ rt' = [rt EXCEPT !.job = NoJob, !.doubt = TRUE]
          /\ Ends(FALSE)
    /\ UNCHANGED <<center, task, host, autosave, gen, marker>>

LoadsMap ==
    /\ Ready("load")
    /\ rt' = [rt EXCEPT !.job = NoJob] /\ Ends(TRUE)
    /\ UNCHANGED <<center, task, host, autosave, disk, faults>>

\* _autosave_posegraph, for a vehicle at rest: SLAM is frozen if it measures.
AutosaveBegins ==
    /\ autosave = "idle" /\ LockFree /\ rt.mode = "MAPPING" /\ rt.own # 0
    /\ rt.st \in {"RUNNING", "PAUSED"}
    /\ autosave' = IF rt.st = "RUNNING" THEN "frozen" ELSE "paused"
    /\ rt' = IF rt.st = "RUNNING" THEN [rt EXCEPT !.paused = ~@] ELSE rt
    /\ UNCHANGED <<center, edge, host, disk, faults>>

\* The pause times out: it may have toggled, and nothing toggles it back.  The state stays RUNNING
\* (a pause that has not toggled either changes nothing).
AutosaveFails ==
    /\ autosave = "idle" /\ LockFree /\ rt.mode = "MAPPING" /\ rt.own # 0 /\ rt.st = "RUNNING"
    /\ Fault
    /\ rt' = [rt EXCEPT !.paused = ~@, !.doubt = TRUE]
    /\ UNCHANGED <<center, edge, host, autosave, disk>>

\* The generation is committed or dropped; SLAM is resumed in either case.
AutosaveEnds ==
    /\ autosave # "idle"
    /\ autosave' = "idle"
    /\ gen' \in {gen, gen \cup {rt.own}}
    /\ \/ rt' = [rt EXCEPT !.paused = IF autosave = "frozen" THEN ~@ ELSE @] /\ UNCHANGED faults
       \/ Fault /\ autosave = "frozen" /\ rt' = [rt EXCEPT !.st = "ERROR"]
    /\ UNCHANGED <<center, edge, host, bundle, marker>>

-----------------------------------------------------------------------------
CenterStep(c) == Start(c) \/ LoadMap(c) \/ Commit(c) \/ AskTimesOut(c)
                 \/ \E s \in Sessions, op \in Ops : Act(c, s, op)
EdgeStep(c) == Unserved(c) \/ Acquire(c) \/ Ensure(c) \/ Switched(c) \/ SwitchFails(c)
               \/ CallFails(c) \/ Release(c) \/ ToNavigation(c) \/ Queue(c)
Supervisor == SupTakes \/ SupChecks \/ SupStops \/ SupStarts \/ SupAwaits
AdapterStep == Refuses \/ StartsMapping \/ Locates \/ Toggles \/ Discards \/ StartsSaving
               \/ Saves \/ LoadsMap \/ AutosaveBegins \/ AutosaveFails
               \/ AutosaveEnds

Next ==
    \/ \E c \in Calls : CenterStep(c) \/ EdgeStep(c)
    \/ \E s \in Sessions : Upload(s) \/ Uploaded(s) \/ Resync(s)
    \/ Health \/ Poll \/ EdgeCrash
    \/ Supervisor \/ SupFails \/ SupCrash \/ Boot \/ StackCrash
    \/ AdapterStep

Spec == Init /\ [][Next]_vars

\* The retry loop of the uploads and the supervisor's loop run for ever.
FairSpec == Spec /\ WF_vars(Supervisor)
                 /\ \A s \in Sessions : WF_vars(Upload(s)) /\ WF_vars(Uploaded(s))

-----------------------------------------------------------------------------
(* Properties. *)

\* The two stacks, each of which publishes map -> odom, never run together
\* (mode_supervisor.py switch_mode).
StacksNeverOverlap == Cardinality(running) <= 1

\* SLAM takes measurements if the adapter says that it maps a session, and none if it says
\* PAUSED or STOPPED.
Follows(r) == /\ r.st = "RUNNING" => ~r.paused
              /\ r.st \in {"PAUSED", "STOPPED"} => r.paused

\* Whenever nobody holds the operation lock, SLAM follows the adapter's state, for a stack of which
\* no toggle was repeated in its own state, timed out (of a command or of the autosave) or followed a
\* failed save, and no command was sent on the word of an adapter that a switch found merely busy
\* (_mapping_command_locked, _autosave_posegraph).
SlamFollowsState == rt.own # 0 /\ LockFree /\ ~rt.doubt => Follows(rt)

\* SLAM follows the adapter's state whatever happened to a toggle.  The code does not keep
\* this: see the README, section 5.
SlamAlwaysFollows == rt.own # 0 /\ LockFree => Follows(rt)

\* A save that the robot acknowledged reaches the center, whatever crashes afterwards, unless the
\* center refuses it for good: its map was deleted by a cancel, or its bundle breaks a limit
\* (_queue_mapping_upload, _mapping_upload_retry_loop, upload_version, mapping_action).
Acknowledged(s) == \E c \in Calls : ask[c].pc = "answered" /\ ask[c].ok /\ ask[c].s = s
                                    /\ ask[c].op \in {"save", "finish"}

\* An acknowledged save reaches the center in any case.  The code does not keep this: see the
\* README, section 5.
EverySaveIsStored == \A s \in Sessions : Acknowledged(s) ~> stored[s] # "none"

\* The supervisor answers the last request for a mode, whatever fails or restarts.
LastRequestIsAnswered ==
    \A i \in 1..5 : request.id = i ~> request.id # i \/ (status.id = i /\ status.res # "SWITCHING")

\* A robot has one open mapping session (start_mapping's 409).  The code does not keep
\* this: see the README, section 5.
OneOpenSession == Cardinality(Open) <= 1
=============================================================================
