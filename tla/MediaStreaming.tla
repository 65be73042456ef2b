---------------------------- MODULE MediaStreaming ----------------------------
(***************************************************************************)
(* The robot's camera on demand: the leases the center grants and renews   *)
(* (services/hub.py, api/sessions.py, api/robots.py), the edge that keeps  *)
(* them and its media loop (client.py), and the publisher with its worker, *)
(* its ffmpeg and gstreamer children and the plan they run from, which     *)
(* threads prepare under _video_plan_lock (media.py).                      *)
(*                                                                         *)
(* Everything of the edge but the threads and the children runs on one     *)
(* asyncio event loop; Blocked says that loop waits for the plan lock.     *)
(***************************************************************************)
EXTENDS Naturals

CONSTANTS
    Pipelines,      \* "encoded" and "raw": what VIDEO_PIPELINE may be
    Sources,        \* video sources: "usb" is H.264 passed on, others are encoded
    Leases,         \* "session", and "preview" for an operator's previews
    HardwareWorks,  \* the hardware encoder does
    FirstSource,    \* bound: the source configured at the start
    MaxUpdates,     \* bound: configuration updates and camera selections
    MaxFaults       \* bound: lost links and rooms, failures of a service or child

ASSUME MediaAssumption ==
    /\ "encoded" \in Pipelines \/ "raw" \in Pipelines
    /\ HardwareWorks \in BOOLEAN
    /\ FirstSource \in Sources
    /\ MaxUpdates \in Nat /\ MaxFaults \in Nat

VARIABLES
    session,   \* the robot has a session with status active
    renewing,  \* renew_session_media_leases has the session in its list
    link,      \* run: "up", "ending" (its tasks are cancelled), "down"
    leases,    \* media_leases: whose leases the edge holds
    restart,   \* media_restart_requested
    source,    \* config.simulator_media_source
    update,    \* configuration.update: "settled", "sending" its state, "unsaved"
    loop,      \* _media_loop
    connected, \* MediaPublisher.connected
    room,      \* MediaPublisher.room
    worker,    \* the video worker in MediaPublisher.tasks
    own,       \* the worker's children
    orphans,   \* children that no worker waits for any more
    threads,   \* threads in _prepare_encoded_video
    prepared,  \* _prepared_video_key and _prepared_video_plan
    hwFailed,  \* _failed_video_encoders has the hardware encoder
    pipeline,  \* _video_pipeline
    updates, faults

center == <<session, renewing>>
config == <<restart, source, update, pipeline>>
children == <<own, orphans>>
plans == <<threads, prepared, hwFailed>>
counts == <<updates, faults>>
mediaVars == <<center, link, leases, config, loop, connected, room, worker,
               children, plans, counts>>

Plan(mode, encoder, of) == [mode |-> mode, encoder |-> encoder, of |-> of]
NoPlan == Plan("none", "none", "none")
NoWorker == [pc |-> "none", plan |-> NoPlan, refresh |-> FALSE, canceled |-> FALSE, ended |-> {}]
NoChild == [publisher |-> "none", ffmpeg |-> "none"]
Unprepared == [key |-> "none", plan |-> NoPlan]

Building == \E t \in threads : t.at = "building"
\* _encoded_video_loop takes the lock on the event loop itself.
Blocked == worker.pc = "lock" /\ Building

MediaInit ==
  /\ session = FALSE /\ renewing = FALSE
  /\ link = "down"
  /\ leases = {}
  /\ restart = FALSE /\ source = FirstSource /\ update = "settled"
  /\ loop = [pc |-> "off", next |-> "none"]
  /\ connected = FALSE /\ room = "none"
  /\ worker = NoWorker /\ own = NoChild /\ orphans = {}
  /\ threads = {} /\ prepared = Unprepared /\ hwFailed = FALSE
  /\ pipeline \in Pipelines
  /\ updates = 0 /\ faults = 0

Fault == faults < MaxFaults /\ faults' = faults + 1

-----------------------------------------------------------------------------
(* The center.                                                             *)

\* forward_to_robot: without a socket nothing is sent and the caller learns it.
Reachable == link = "up" /\ ~Blocked
\* _start_media_lease and _stop_media_lease.
Grant(l) == Reachable /\ l \in Leases /\ leases' = leases \cup {l}
Withdraw(l) == leases' = IF Reachable THEN leases \ {l} ELSE leases

\* create_session and start_session_media, which has to reach the robot.
OpenSession == ~session /\ "preview" \notin leases /\ session' = TRUE /\ Grant("session") /\ UNCHANGED renewing

\* close_session and the expiries: the status changes whether or not the stop is sent.
EndSession == session /\ session' = FALSE /\ Withdraw("session") /\ UNCHANGED renewing

\* mutation: sessions that are no longer active are renewed too
ListAll == ~renewing /\ renewing' = TRUE /\ UNCHANGED <<session, leases>>

\* renew_session_media_leases: the list is made once, then sent robot by robot.
ListRenewals == session /\ ~renewing /\ renewing' = TRUE /\ UNCHANGED <<session, leases>>

Renew ==
  /\ renewing /\ renewing' = FALSE
  /\ Grant("session") \/ (~Reachable /\ UNCHANGED leases)
  /\ UNCHANGED session

\* create_preview_lease and renew_preview_lease; close_preview_lease.  Bound: previews and
\* sessions take turns.
ShowPreview == ~session /\ ~renewing /\ Grant("preview") /\ UNCHANGED <<session, renewing>>
ClosePreview == "preview" \in leases /\ Withdraw("preview") /\ UNCHANGED <<session, renewing>>

Center ==
  /\ \/ OpenSession \/ EndSession \/ ListRenewals \/ Renew \/ ShowPreview \/ ClosePreview
  /\ UNCHANGED <<link, config, loop, connected, room, worker, children, plans, counts>>

-----------------------------------------------------------------------------
(* The video worker and its children.                                      *)

Alive == {"live", "term"}

\* mutation: processes are stopped in the order they were listed
StoppingInOrder(c) ==
  CASE c.ffmpeg = "live" -> [c EXCEPT !.ffmpeg = "term"]
    [] c.ffmpeg = "none" /\ c.publisher = "live" -> [c EXCEPT !.publisher = "term"]
    [] OTHER -> c

\* One pass of "for process in reversed(processes)" up to its next await.
Stopping(c) ==
  CASE c.publisher = "live" -> [c EXCEPT !.publisher = "term"]
    [] c.publisher = "none" /\ c.ffmpeg = "live" -> [c EXCEPT !.ffmpeg = "term"]
    [] OTHER -> c

Stopped == own = NoChild
Abandoned == {<<p, own[p]>> : p \in {q \in DOMAIN own : own[q] \in Alive}}

\* mutation: the encoder that failed is not remembered
HandledForgetful(ended, keyframe) ==
  /\ UNCHANGED hwFailed
  /\ worker' = [worker EXCEPT !.pc = IF own' = NoChild THEN "sleep" ELSE "final",
                              !.refresh = ~keyframe, !.ended = {}]

\* What the except clause keeps of a failure.
Handled(ended, keyframe) ==
  /\ hwFailed' = (hwFailed \/ ("ffmpeg" \in ended /\ worker.plan.encoder = "hardware"))
  /\ worker' = [worker EXCEPT !.pc = IF own' = NoChild THEN "sleep" ELSE "final",
                              !.refresh = ~keyframe, !.ended = {}]

Expected(plan) == CASE plan.mode = "direct" -> {"publisher"}
                    [] plan.mode = "bridge" -> {"publisher", "ffmpeg"}
                    [] OTHER -> {"ffmpeg"}

Wake ==
  /\ worker.pc = "sleep"
  /\ worker' = [worker EXCEPT !.pc = CASE pipeline = "raw" -> "create"
                                       [] worker.refresh -> "lock"
                                       [] OTHER -> "token"]
  /\ UNCHANGED <<children, plans, counts>>

\* The refresh forgets the plan and has a thread make the next one.
TakeLock ==
  /\ worker.pc = "lock"
  /\ prepared' = Unprepared
  /\ threads' = threads \cup {[for |-> "refresh", key |-> source, at |-> "waiting", plan |-> NoPlan]}
  /\ worker' = [worker EXCEPT !.pc = "plan"]
  /\ UNCHANGED <<children, hwFailed, counts>>

\* The video token, and the first child.
Publish ==
  /\ worker.pc = "token"
  /\ \/ /\ own' = [own EXCEPT !.publisher = "live"]
        /\ worker' = [worker EXCEPT !.pc = IF worker.plan.mode = "direct" THEN "run" ELSE "bridge"]
        /\ UNCHANGED <<hwFailed, counts>>
     \/ /\ Fault
        /\ UNCHANGED <<own, updates>>
        /\ Handled({}, FALSE)
  /\ UNCHANGED <<orphans, threads, prepared>>

\* ffmpeg of a bridge, or of the raw pipeline.
Capture ==
  /\ worker.pc \in {"bridge", "create"}
  /\ \/ /\ own' = [own EXCEPT !.ffmpeg = "live"]
        /\ worker' = [worker EXCEPT !.pc = "run"]
        /\ UNCHANGED <<hwFailed, counts>>
     \/ /\ Fault
        /\ own' = Stopping(own)
        /\ UNCHANGED updates
        /\ Handled({}, FALSE)
  /\ UNCHANGED <<orphans, threads, prepared>>

\* A child is seen to have ended; the others are stopped before the failure is handled.
SeeExit ==
  /\ worker.pc = "run"
  /\ LET ended == {p \in Expected(worker.plan) : own[p] = "none"}
     IN ended # {} /\ worker' = [worker EXCEPT !.pc = "halt", !.ended = ended]
  /\ own' = Stopping(own)
  /\ UNCHANGED <<orphans, plans, counts>>

\* The watchdog, or no frame in time; the raw pipeline stops ffmpeg there and then.
Stall ==
  /\ worker.pc = "run" /\ Fault
  /\ own' = Stopping(own)
  /\ Handled({}, FALSE)
  /\ UNCHANGED <<orphans, threads, prepared, updates>>

StopNext ==
  /\ worker.pc \in {"halt", "final"} /\ ~Stopped /\ Stopping(own) # own
  /\ own' = Stopping(own)
  /\ UNCHANGED <<worker, orphans, plans, counts>>

EndHalt ==
  /\ worker.pc = "halt" /\ Stopped
  /\ UNCHANGED <<children, threads, prepared, counts>>
  /\ \E keyframe \in BOOLEAN :   \* "video-keyframe-timeout" is the publisher's
        (keyframe => "publisher" \in worker.ended) /\ Handled(worker.ended, keyframe)

EndFinal ==
  /\ worker.pc = "final" /\ Stopped
  /\ worker' = IF worker.canceled THEN NoWorker
               ELSE [worker EXCEPT !.pc = "sleep"]
  /\ UNCHANGED <<children, plans, counts>>

Worker ==
  /\ \/ Wake \/ TakeLock \/ Publish \/ Capture \/ SeeExit \/ Stall
     \/ StopNext \/ EndHalt \/ EndFinal
  /\ UNCHANGED <<center, link, leases, config, loop, connected, room>>

\* disconnect cancels its tasks; a cancellation in the finally clause interrupts it.
CancelWorker ==
  \/ /\ worker.pc \in {"none", "sleep", "lock", "plan", "token", "create"}
     /\ worker' = NoWorker
     /\ UNCHANGED children
  \/ /\ worker.pc = "bridge"   \* the pipe's write end is closed: the publisher reads EOF
     /\ worker' = NoWorker
     /\ own' = NoChild
     /\ orphans' = orphans \cup {<<"publisher", "eof">>}
  \/ /\ worker.pc \in {"run", "halt"}
     /\ own' = Stopping(own)
     /\ worker' = [worker EXCEPT !.pc = "final", !.canceled = TRUE]
     /\ UNCHANGED orphans
  \/ /\ worker.pc = "final"
     /\ worker' = NoWorker
     /\ own' = NoChild
     /\ orphans' = orphans \cup Abandoned

Forsaken(who) == {IF t.for \in who THEN [t EXCEPT !.for = "nobody"] ELSE t : t \in threads}

-----------------------------------------------------------------------------
(* The media loop.                                                         *)

\* MediaPublisher.disconnect up to its first await, on the way to next.
Disconnect(next) ==
  /\ connected' = FALSE
  /\ CancelWorker
  /\ loop' = [pc |-> "closing", next |-> next]

LoopAt(pc) == [pc |-> pc, next |-> "none"]

\* The top of _media_loop, reached within a second or a backoff of any change.
Turn ==
  /\ loop.pc \in {"idle", "watch", "backoff"}
  /\ LET held == leases # {}
     IN \/ /\ ~held /\ ~connected
           /\ loop' = LoopAt("idle")
           /\ UNCHANGED <<restart, connected, worker, children, threads>>
        \/ /\ ~held /\ connected
           /\ Disconnect("idle")
           /\ threads' = Forsaken({"refresh"})
           /\ UNCHANGED restart
        \/ /\ held /\ (restart \/ ~connected)
           /\ restart' = FALSE
           /\ Disconnect("token")
           /\ threads' = Forsaken({"refresh"})
        \/ /\ held /\ ~restart /\ connected
           /\ loop' = LoopAt("watch")
           /\ UNCHANGED <<restart, connected, worker, children, threads>>
  /\ UNCHANGED <<link, leases, room, prepared, hwFailed, counts>>

\* disconnect: the workers have ended, then the room is left.
Closed ==
  /\ loop.pc = "closing" /\ worker.pc = "none"
  /\ room' = "none"
  /\ CASE loop.next = "token" -> loop' = LoopAt("token") /\ UNCHANGED <<link, leases>>
       [] loop.next = "down" -> loop' = LoopAt("off") /\ link' = "down" /\ UNCHANGED leases
       [] OTHER -> loop' = LoopAt(loop.next) /\ UNCHANGED <<link, leases>>
  /\ UNCHANGED <<restart, connected, worker, children, plans, counts>>

\* An exception of connect: the loop disconnects and backs off.
ConnectFails ==
  /\ Disconnect("backoff")
  /\ threads' = Forsaken({"refresh"})

Join ==
  /\ loop.pc = "token"
  /\ UNCHANGED <<link, leases, restart, prepared, hwFailed, updates>>
  /\ \/ /\ pipeline = "encoded"
        /\ room' = "live" /\ loop' = LoopAt("preparing")
        /\ threads' = threads \cup {[for |-> "connect", key |-> source, at |-> "waiting", plan |-> NoPlan]}
        /\ UNCHANGED <<connected, worker, children, faults>>
     \/ /\ pipeline = "raw"
        /\ room' = "live" /\ loop' = LoopAt("audio")
        /\ worker' = [NoWorker EXCEPT !.pc = "create"]
        /\ UNCHANGED <<connected, children, threads, faults>>
     \/ Fault /\ ConnectFails /\ room' = "live"

\* _publish_audio, on which a room that has been lost meanwhile fails.
Connected ==
  /\ loop.pc = "audio"
  /\ UNCHANGED <<link, leases, restart, room, prepared, hwFailed, counts>>
  /\ \/ /\ room = "live"
        /\ connected' = TRUE /\ loop' = LoopAt("watch")
        /\ UNCHANGED <<worker, children, threads>>
     \/ room = "lost" /\ ConnectFails

Loop == /\ Turn \/ Closed \/ Join \/ Connected
        /\ UNCHANGED <<center, source, update, pipeline>>

\* on_disconnected.
LoseRoom ==
  /\ room = "live" /\ Fault
  /\ room' = "lost" /\ connected' = FALSE
  /\ UNCHANGED <<center, link, leases, config, loop, worker, children, plans, updates>>

-----------------------------------------------------------------------------
(* The gateway link and what arrives on it.                                *)

Warm(t) == IF pipeline = "encoded"
           THEN t \cup {[for |-> "nobody", key |-> source', at |-> "waiting", plan |-> NoPlan]}
           ELSE t

LinkUp ==
  /\ link = "down"
  /\ link' = "up" /\ loop' = LoopAt("idle")
  /\ threads' = threads \cup IF pipeline = "encoded"
                THEN {[for |-> "nobody", key |-> source, at |-> "waiting", plan |-> NoPlan]} ELSE {}
  /\ UNCHANGED <<leases, restart, source, update, connected, room, worker, children,
                 prepared, hwFailed, counts>>

\* _connected cancels its tasks; the media loop first lets a disconnect's workers end.
LinkDrops ==
  /\ link = "up" /\ Fault
  /\ link' = "ending"
  /\ update' = IF update = "sending" THEN "unsaved" ELSE update
  /\ threads' = Forsaken({"connect"} \cup IF loop.pc = "closing" THEN {"refresh"} ELSE {})
  /\ IF loop.pc = "closing" /\ worker.pc # "none"
     THEN loop' = [loop EXCEPT !.next = "off"] /\ CancelWorker
     ELSE loop' = LoopAt("off") /\ UNCHANGED <<worker, children>>
  /\ UNCHANGED <<leases, restart, source, connected, room, prepared, hwFailed, updates>>

\* The finally clause of run.
LeaveLink ==
  /\ link = "ending" /\ loop.pc = "off"
  /\ leases' = {}
  /\ Disconnect("down")
  /\ threads' = Forsaken({"refresh"})
  /\ UNCHANGED <<link, restart, source, update, room, prepared, hwFailed, counts>>

\* configuration.update: applied and saved, then its state is sent.
Configure ==
  /\ link = "up" /\ update # "sending" /\ updates < MaxUpdates
  /\ updates' = updates + 1
  /\ source' \in Sources \ {source}
  /\ \/ update' = "sending" /\ UNCHANGED faults
     \/ update' = "unsaved" /\ Fault   \* _save_device_state raises
  /\ UNCHANGED <<link, leases, restart, loop, connected, room, worker, children, plans>>

\* Only then is the restart asked for, and a thread warms the new source.
ConfigurationSent ==
  /\ link = "up" /\ update = "sending"
  /\ update' = "settled" /\ restart' = TRUE
  /\ UNCHANGED source
  /\ threads' = Warm(threads)
  /\ UNCHANGED <<link, leases, loop, connected, room, worker, children,
                 prepared, hwFailed, counts>>

\* media.source.select.
SelectCamera ==
  /\ link = "up" /\ update # "sending" /\ updates < MaxUpdates
  /\ updates' = updates + 1
  /\ source' \in Sources \ {source} /\ restart' = TRUE /\ update' = "settled"
  /\ UNCHANGED <<link, leases, loop, connected, room, worker, children, plans, faults>>

Gateway ==
  /\ \/ LinkUp \/ LinkDrops \/ LeaveLink
     \/ Configure \/ ConfigurationSent \/ SelectCamera
  /\ UNCHANGED <<center, pipeline>>

-----------------------------------------------------------------------------
(* Threads, children and time.                                             *)

\* What the probe finds, whether that has to be encoded again, and by which encoder.
Codec(s) == IF s = "usb" THEN "h264" ELSE "other"
Transcoded(s) == Codec(s) # "h264"
Encoder == IF hwFailed THEN "software" ELSE "hardware"

\* _build_encoded_video_plan, from the configuration as it is now.
Built == IF Transcoded(source) THEN Plan("bridge", Encoder, source)
         ELSE Plan("direct", "copy", source)

\* What a thread returns to the coroutine that waits for it, if one still does.
Return(t, plan) ==
  CASE t.for = "connect" /\ plan # NoPlan ->
         /\ worker' = [NoWorker EXCEPT !.pc = "token", !.plan = plan]
         /\ loop' = LoopAt("audio")
         /\ UNCHANGED <<connected, children>>
    [] t.for = "connect" /\ plan = NoPlan ->
         Disconnect("backoff")
    [] t.for = "refresh" /\ plan # NoPlan ->
         /\ worker' = [worker EXCEPT !.pc = "token", !.plan = plan, !.refresh = FALSE]
         /\ UNCHANGED <<loop, connected, children>>
    [] t.for = "refresh" /\ plan = NoPlan ->
         /\ worker' = [worker EXCEPT !.pc = "sleep"]
         /\ UNCHANGED <<loop, connected, children>>
    [] OTHER -> UNCHANGED <<loop, connected, worker, children>>

\* Under the lock: the plan of this key, or a new one.
Enter(t) ==
  /\ t.at = "waiting" /\ ~Building
  /\ IF prepared.key = t.key
     THEN /\ ~Blocked
          /\ threads' = threads \ {t}
          /\ Return(t, prepared.plan)
     ELSE /\ threads' = (threads \ {t}) \cup {[t EXCEPT !.at = "building", !.plan = Built]}
          /\ UNCHANGED <<loop, connected, worker, children>>
  /\ UNCHANGED <<prepared, faults>>

Build(t) ==
  /\ t.at = "building"
  /\ threads' = threads \ {t}
  /\ \/ /\ prepared' = [key |-> t.key, plan |-> t.plan]
        /\ Return(t, t.plan)
        /\ UNCHANGED faults
     \/ /\ Fault
        /\ Return(t, NoPlan)
        /\ UNCHANGED prepared

Thread ==
  /\ \E t \in threads : Enter(t) \/ Build(t)
  /\ UNCHANGED <<center, link, leases, config, room, hwFailed, updates>>

\* A child ends by itself: a fault, unless its encoder or its camera fails it.
ChildFails(p) ==
  /\ own[p] = "live" /\ worker.pc \in {"bridge", "run"}
  /\ own' = [own EXCEPT ![p] = "none"]
  /\ IF \/ p = "ffmpeg" /\ worker.plan.encoder = "hardware" /\ ~HardwareWorks
        \/ p = "ffmpeg" /\ own.publisher = "none" /\ worker.plan.mode = "bridge"
        \/ orphans # {}
     THEN UNCHANGED faults ELSE Fault
  /\ UNCHANGED orphans

\* SIGTERM, or SIGKILL 1.5 s later.
ChildStops(p) ==
  /\ own[p] = "term"
  /\ own' = [own EXCEPT ![p] = "none"]
  /\ UNCHANGED <<orphans, faults>>

\* ffmpeg writes to a pipe nobody reads once its publisher has gone.
OrphanEnds(o) ==
  /\ o[2] # "live" \/ \A q \in orphans : q[1] # "publisher"
  /\ orphans' = orphans \ {o}
  /\ UNCHANGED <<own, faults>>

Others == <<center, link, leases, config, loop, connected, room, worker, plans, updates>>
Ends == (\E p \in DOMAIN own : ChildStops(p)) /\ UNCHANGED Others
OrphansEnd == (\E o \in orphans : OrphanEnds(o)) /\ UNCHANGED Others
System == Ends \/ OrphansEnd \/ ((\E p \in DOMAIN own : ChildFails(p)) /\ UNCHANGED Others)

\* ttl_seconds pass without another media.start, of which the center sends three in that
\* time for a session; _prune_media_leases.
RunOut(l) ==
  /\ l \in leases /\ ~(l = "session" /\ session)
  /\ leases' = leases \ {l}
  /\ UNCHANGED <<center, link, config, loop, connected, room, worker, children, plans, counts>>

-----------------------------------------------------------------------------

EventLoop == ~Blocked /\ (Worker \/ Loop \/ LoseRoom \/ Gateway)
MediaNext == Center \/ EventLoop \/ Thread \/ System \/ \E l \in Leases : RunOut(l)
MediaSpec == MediaInit /\ [][MediaNext]_mediaVars

\* The event loop runs what is ready, threads and processes end, an ended session's lease runs out.
Fairness ==
  /\ WF_mediaVars(~Blocked /\ Worker)
  /\ WF_mediaVars(~Blocked /\ Loop)
  /\ WF_mediaVars(~Blocked /\ (LinkUp \/ LeaveLink \/ ConfigurationSent) /\ UNCHANGED <<center, pipeline>>)
  /\ WF_mediaVars(Thread)
  /\ WF_mediaVars(Ends)
  /\ WF_mediaVars(OrphansEnd)
  /\ WF_mediaVars(RunOut("session"))
MediaFairSpec == MediaSpec /\ Fairness

-----------------------------------------------------------------------------

MediaTypeOK ==
  /\ session \in BOOLEAN /\ renewing \in BOOLEAN
  /\ link \in {"up", "ending", "down"}
  /\ leases \subseteq Leases
  /\ restart \in BOOLEAN /\ source \in Sources /\ update \in {"settled", "sending", "unsaved"}
  /\ loop.pc \in {"off", "idle", "watch", "backoff", "closing", "token", "preparing", "audio"}
  /\ connected \in BOOLEAN /\ room \in {"none", "live", "lost"}
  /\ worker.pc \in {"none", "sleep", "lock", "plan", "token", "create", "bridge", "run",
                    "halt", "final"}
  /\ own \in [{"publisher", "ffmpeg"} -> {"none", "live", "term"}]
  /\ orphans \subseteq {"publisher", "ffmpeg"} \X {"live", "term", "eof"}
  /\ hwFailed \in BOOLEAN /\ pipeline \in Pipelines
  /\ updates \in 0..MaxUpdates /\ faults \in 0..MaxFaults

\* However a worker is cancelled, in the middle of stopping its children as well, the
\* publisher it leaves behind has been told to end: no camera streams unattended.
PublisherIsTold == <<"publisher", "live">> \notin orphans

\* While somebody holds a lease the camera comes up and stays up, whatever links, rooms and
\* children failed before and although the hardware encoder does not work.
LeaseBringsVideo == <>[](leases # {}) => <>[](connected /\ worker.pc = "run")

\* Once the robot's sessions are over, the edge lets the session lease go for good, even
\* when a renewal listed before the end is sent after the stop.
EndedLeaseLapses == <>[]~session => <>[]("session" \notin leases)

\* "Media failures never stop the safety/control loop" (media.py:439).  The code does not
\* keep this: see the README, section 5.
ControlLoopRuns == ~Blocked
=============================================================================
