----------------------------- MODULE MapRegistry -----------------------------
(***************************************************************************)
(* Deleting a map and loading one: the center's handlers (api/maps.py,     *)
(* api/navigation.py), the edge's map registry, its synchronisation with   *)
(* the center's tombstones and its restore loop (simulator/client.py,      *)
(* simulator/map_cache.py), and the navigation adapter they command.       *)
(*                                                                         *)
(* The asyncio tasks of the edge interleave at every await; each action    *)
(* is the code between two awaits.  One robot is modelled, with one        *)
(* version of each map.  The adapter serves its requests one after         *)
(* another: a request whose caller was cancelled or timed out is served    *)
(* all the same.                                                           *)
(***************************************************************************)
EXTENDS Naturals, Sequences, SequencesExt

CONSTANTS
    Maps,        \* map_id of the records
    Calls,       \* requests the handlers of the center serve, one each
    NoMap,       \* "NO_ACTIVE_MAP", the empty map_id
    NoJob,       \* nobody
    MaxFaults    \* bound: lost connections, crashes, timeouts, failed requests

ASSUME BoundAssumption == MaxFaults \in Nat
ASSUME NameAssumption ==
    /\ NoMap \notin Maps /\ NoJob \notin Calls \cup {"sync", "restore"}
    /\ Calls \cap {"sync", "restore"} = {}

VARIABLES
    record,      \* MapRecord.status, "deleted" once deleted_at is set
    deletion,    \* MapRecord.deletion_status
    rows,        \* RobotMapCache.sync_status of the robot's row for the map
    assigned,    \* Robot.map_id
    call,        \* the request a handler of the center serves
    link,        \* the robot's socket is open
    gone,        \* history: the maps deleted when the socket was opened
    ready,       \* RobotClient.map_registry_ready
    task,        \* _handle_navigation_command of a request
    sync,        \* _map_registry_sync_loop
    restore,     \* the restore of _navigation_runtime_loop
    holder,      \* Ros2NavigationBackend._lock and the answer its holder got
    seen,        \* Ros2NavigationBackend._state
    active,      \* registry.json: active
    tomb,        \* registry.json: tombstones
    files,       \* maps installed in the cache directory
    inbox,       \* requests on the adapter's socket
    adapter,     \* the navigation stack: running, map loaded, driving
    mission,     \* the adapter's stored mission, by its map
    faults       \* faults so far

center == <<record, deletion, rows, assigned, call>>
edge == <<ready, task, sync, restore, holder, seen>>
disk == <<active, tomb, files>>
robot == <<inbox, adapter, mission>>
vars == <<center, link, gone, edge, disk, robot, faults>>

Jobs == Calls \cup {"sync", "restore"}
Idle == [pc |-> "idle", op |-> "none", map |-> NoMap]
Unheld == [job |-> NoJob, reply |-> "none"]
Off == [pc |-> "off", todo |-> {}, map |-> NoMap, ok |-> TRUE]
Unknown == [st |-> "FAULT", map |-> NoMap]
Fresh == [up |-> TRUE, map |-> NoMap, drive |-> FALSE]
Deleted == {m \in Maps : record[m] = "deleted"}

TypeOK ==
    /\ record \in [Maps -> {"active", "deleted"}]
    /\ deletion \in [Maps -> {"none", "DELETION_PENDING", "DELETED"}]
    /\ rows \in [Maps -> {"none", "SYNCED", "DELETION_PENDING", "DELETED"}]
    /\ assigned \in Maps \cup {NoMap}
    /\ call \in [Calls -> [kind : {"none", "load", "delete", "start"},
                           map : Maps \cup {NoMap},
                           pc : {"idle", "stopping", "asked", "accepted", "refused", "done"}]]
    /\ link \in BOOLEAN /\ ready \in BOOLEAN
    /\ gone \subseteq Maps
    /\ task \in [Calls -> [pc : {"idle", "new", "download", "exec", "calling"},
                           op : {"none", "load", "cancel", "deactivate", "start"},
                           map : Maps \cup {NoMap}]]
    /\ restore \in [pc : {"idle", "download", "exec", "calling"},
                    op : {"none", "load"}, map : Maps \cup {NoMap}]
    /\ sync \in [pc : {"off", "start", "quiesce", "calling", "get", "items", "deactivate",
                       "post", "posted", "rest"},
                 todo : SUBSET Maps, map : Maps \cup {NoMap}, ok : BOOLEAN]
    /\ holder \in [job : Jobs \cup {NoJob}, reply : {"none", "ok", "bad"}]
    /\ seen \in [st : {"FAULT", "NO_ACTIVE_MAP", "READY", "NAVIGATING"},
                 map : Maps \cup {NoMap}]
    /\ active \in Maps \cup {NoMap}
    /\ tomb \in [Maps -> {"none", "DELETION_PENDING", "DELETED"}]
    /\ files \subseteq Maps
    /\ inbox \in Seq([op : {"load", "cancel", "deactivate", "start"}, map : Maps \cup {NoMap},
                      had : BOOLEAN, job : Jobs \cup {NoJob}])
    /\ adapter \in [up : BOOLEAN, map : Maps \cup {NoMap}, drive : BOOLEAN]
    /\ mission \in Maps \cup {NoMap}
    /\ faults \in 0..MaxFaults

\* An empty cache, a navigation stack without a map and a robot that is about to connect.
Init ==
    /\ record = [m \in Maps |-> "active"] /\ deletion = [m \in Maps |-> "none"]
    /\ rows = [m \in Maps |-> "none"] /\ assigned = NoMap
    /\ call = [c \in Calls |-> [kind |-> "none", map |-> NoMap, pc |-> "idle"]]
    /\ link = FALSE /\ gone = {} /\ ready = FALSE
    /\ task = [c \in Calls |-> Idle] /\ restore = Idle /\ sync = Off
    /\ holder = Unheld /\ seen = Unknown
    /\ active = NoMap /\ tomb = [m \in Maps |-> "none"] /\ files = {}
    /\ inbox = <<>> /\ adapter = Fresh /\ mission = NoMap /\ faults = 0

Fault == faults < MaxFaults /\ faults' = faults + 1

-----------------------------------------------------------------------------
(* The center. *)

\* request_robot: the command is sent over the robot's socket.
Ask(c, kind, m, pc, op) ==
    /\ call' = [call EXCEPT ![c] = [kind |-> kind, map |-> m, pc |-> pc]]
    /\ task' = [task EXCEPT ![c] = [pc |-> "new", op |-> op, map |-> m]]

\* load_map looks at the version first, and stops a navigation that the robot's health reports.
Load(c, m) ==
    /\ call[c].pc = "idle" /\ record[m] = "active" /\ link
    /\ \/ Ask(c, "load", m, "stopping", "cancel")
       \/ Ask(c, "load", m, "asked", "load")
    /\ UNCHANGED <<record, deletion, rows, assigned, link, gone, ready, sync, restore, holder,
                   seen, disk, robot, faults>>

LoadGoesOn(c) ==
    /\ call[c].pc = "accepted" /\ call[c].kind = "load" /\ task[c].op = "cancel"
    /\ IF link THEN Ask(c, "load", call[c].map, "asked", "load")
               ELSE call' = [call EXCEPT ![c].pc = "done"] /\ UNCHANGED task
    /\ UNCHANGED <<record, deletion, rows, assigned, link, gone, ready, sync, restore, holder,
                   seen, disk, robot, faults>>

\* The answer came: the row of the cache and the robot's map are written in one commit.
LoadCommits(c) ==
    /\ call[c].pc = "accepted" /\ call[c].kind = "load" /\ task[c].op = "load"
    /\ rows' = [rows EXCEPT ![call[c].map] = "SYNCED"]
    /\ assigned' = call[c].map
    /\ call' = [call EXCEPT ![c].pc = "done"]
    /\ UNCHANGED <<record, deletion, link, gone, edge, disk, robot, faults>>

\* The commit of delete_map; acked: the robot answered that it gave the map up.
Tombstoned(m, affected, acked) ==
    /\ record' = [record EXCEPT ![m] = "deleted"]
    /\ assigned' = IF affected THEN NoMap ELSE assigned
    /\ deletion' = [deletion EXCEPT ![m] = IF affected => acked THEN "DELETED"
                                                               ELSE "DELETION_PENDING"]
    /\ rows' = [rows EXCEPT ![m] = IF @ = "none" THEN @
                                   ELSE IF acked THEN "DELETED" ELSE "DELETION_PENDING"]

\* delete_map asks a robot that has the map, if it is online; an offline one is left to the
\* tombstone.
Delete(c, m) ==
    /\ call[c].pc = "idle" /\ record[m] = "active"
    /\ IF assigned = m /\ link
       THEN Ask(c, "delete", m, "asked", "deactivate") /\ UNCHANGED <<record, deletion, rows, assigned>>
       ELSE /\ Tombstoned(m, assigned = m, FALSE)
            /\ call' = [call EXCEPT ![c] = [kind |-> "delete", map |-> m, pc |-> "done"]]
            /\ UNCHANGED task
    /\ UNCHANGED <<link, gone, ready, sync, restore, holder, seen, disk, robot, faults>>

\* An answer of any kind lets the deletion be recorded; only a failed request aborts it.
DeleteCommits(c) ==
    /\ call[c].pc \in {"accepted", "refused"} /\ call[c].kind = "delete"
    /\ Tombstoned(call[c].map, TRUE, call[c].pc = "accepted")
    /\ call' = [call EXCEPT ![c].pc = "done"]
    /\ UNCHANGED <<link, gone, edge, disk, robot, faults>>

\* start_navigation of a mission planned on the robot's map; those of a deleted map are canceled.
Start(c, m) ==
    /\ call[c].pc = "idle" /\ record[m] = "active" /\ assigned = m /\ link
    /\ Ask(c, "start", m, "asked", "start")
    /\ UNCHANGED <<record, deletion, rows, assigned, link, gone, ready, sync, restore, holder,
                   seen, disk, robot, faults>>

\* A rejected load or start, an accepted start, and a request that the center stops waiting for.
CallEnds(c) ==
    /\ \/ call[c].pc = "refused" /\ call[c].kind # "delete"
       \/ call[c].pc = "accepted" /\ call[c].kind = "start"
       \/ call[c].pc \in {"asked", "stopping"}
    /\ call' = [call EXCEPT ![c].pc = "done"]
    /\ UNCHANGED <<record, deletion, rows, assigned, link, gone, edge, disk, robot, faults>>

-----------------------------------------------------------------------------
(* The registry on the robot's disk. *)

\* record_tombstone forgets the map; an acknowledged tombstone is left as it is.
RecordTombstone(m, status) ==
    /\ tomb' = [tomb EXCEPT ![m] = IF @ = "DELETED" THEN @ ELSE status]
    /\ active' = IF active = m THEN NoMap ELSE active

\* mutation: what was downloaded is installed whatever happened meanwhile
InstallsAnyway(m) == TRUE

\* ensure installs what it downloaded unless the map was deleted meanwhile.
Installs(m) == tomb[m] = "none"

\* What ensure finds: a deleted map is an error, a valid copy is used, any other is fetched.
Ensured(m) == IF tomb[m] # "none" THEN "error" ELSE IF m \in files THEN "exec" ELSE "download"

-----------------------------------------------------------------------------
(* Commands of the center at the edge. *)

\* The answer reaches a handler that still waits for it.
Answer(c, result) ==
    call' = [call EXCEPT ![c].pc = IF @ \in {"asked", "stopping"} THEN result ELSE @]

Finish(c, result) == Answer(c, result) /\ task' = [task EXCEPT ![c].pc = "idle"]

\* Commands that the barrier does not hold back (_require_map_registry_ready).
Permitted(op) == ready \/ op \in {"cancel", "deactivate"}

Begin(c) ==
    /\ task[c].pc = "new"
    /\ LET next == IF task[c].op = "load" THEN Ensured(task[c].map) ELSE "exec" IN
       IF Permitted(task[c].op) /\ next # "error"
       THEN task' = [task EXCEPT ![c].pc = next] /\ UNCHANGED call
       ELSE Finish(c, "refused")
    /\ UNCHANGED <<record, deletion, rows, assigned, link, gone, ready, sync, restore, holder,
                   seen, disk, robot, faults>>

Downloaded(c) ==
    /\ task[c].pc = "download"
    /\ \/ /\ Installs(task[c].map)
          /\ files' = files \cup {task[c].map}
          /\ task' = [task EXCEPT ![c].pc = "exec"] /\ UNCHANGED call
       \/ Finish(c, "refused") /\ UNCHANGED files
    /\ UNCHANGED <<record, deletion, rows, assigned, link, gone, ready, sync, restore, holder,
                   seen, active, tomb, robot, faults>>

-----------------------------------------------------------------------------
(* Ros2NavigationBackend.execute: one call at a time, served in order by the adapter. *)

Request(op, m, j) == [op |-> op, map |-> m, had |-> m \in files, job |-> j]

Hold(j, op, m) ==
    /\ holder = Unheld
    /\ holder' = [job |-> j, reply |-> "none"]
    /\ inbox' = Append(inbox, Request(op, m, j))

SubmitCall(c) ==
    /\ task[c].pc = "exec"
    /\ Hold(c, task[c].op, task[c].map)
    /\ task' = [task EXCEPT ![c].pc = "calling"]
    /\ UNCHANGED <<center, link, gone, ready, sync, restore, seen, disk, adapter, mission, faults>>

SubmitRestore ==
    /\ restore.pc = "exec"
    /\ Hold("restore", "load", restore.map)
    /\ restore' = [restore EXCEPT !.pc = "calling"]
    /\ UNCHANGED <<center, link, gone, ready, task, sync, seen, disk, adapter, mission, faults>>

SubmitSync ==
    /\ sync.pc \in {"quiesce", "deactivate"}
    /\ Hold("sync", IF sync.pc = "quiesce" THEN "cancel" ELSE "deactivate", sync.map)
    /\ sync' = [sync EXCEPT !.pc = "calling"]
    /\ UNCHANGED <<center, link, gone, ready, task, restore, seen, disk, adapter, mission, faults>>

\* What a request does to the stack it meets.  A map is loaded while nothing drives, by the
\* restore loop only into an empty stack; its files must have been there.
Accepted(r, stack) ==
    CASE r.op = "load" -> r.had /\ ~stack.drive /\ (r.job = "restore" => stack.map = NoMap)
      [] r.op = "start" -> stack.map = r.map /\ ~stack.drive
      [] OTHER -> TRUE

Effect(r, stack) ==
    CASE r.op = "load" -> [stack EXCEPT !.map = r.map]
      [] r.op = "start" -> [stack EXCEPT !.drive = TRUE]
      [] r.op = "cancel" -> [stack EXCEPT !.drive = FALSE]
      [] OTHER -> [stack EXCEPT !.drive = FALSE, !.map = NoMap]

\* The stored mission survives a load of its own map only.
MissionAfter(r) ==
    CASE r.op = "load" -> IF mission = r.map THEN mission ELSE NoMap
      [] r.op = "start" -> r.map
      [] OTHER -> NoMap

Reply(r, answer) ==
    holder' = IF r.job = NoJob THEN holder ELSE [holder EXCEPT !.reply = answer]

\* _serve: the request at the head, in a stack that is started for it if it was stopped; a load
\* or a start can be refused for reasons of its own.
Serve ==
    /\ inbox # <<>>
    /\ LET r == Head(inbox)
           stack == IF adapter.up THEN adapter ELSE Fresh
       IN \/ /\ Accepted(r, stack)
             /\ adapter' = Effect(r, stack) /\ mission' = MissionAfter(r) /\ Reply(r, "ok")
          \/ /\ r.op \in {"load", "start"}
             /\ adapter' = stack /\ UNCHANGED mission /\ Reply(r, "bad")
    /\ inbox' = Tail(inbox)
    /\ UNCHANGED <<center, link, gone, ready, task, sync, restore, seen, disk, faults>>

\* The state string of the adapter, which every response carries.
Shown == [st |-> IF adapter.map = NoMap THEN "NO_ACTIVE_MAP"
                 ELSE IF adapter.drive THEN "NAVIGATING" ELSE "READY",
          map |-> adapter.map]

\* The caller resumes with the lock released.
Released(j) == holder.job = j /\ holder.reply # "none" /\ holder' = Unheld

\* A call that is given up leaves its request to the adapter and a state of FAULT behind.
GivesUp ==
    /\ Fault /\ holder.job # NoJob /\ holder.reply = "none"
    /\ holder' = [holder EXCEPT !.reply = "bad"]
    /\ inbox' = [i \in DOMAIN inbox |-> [inbox[i] EXCEPT !.job = NoJob]]
    /\ seen' = [seen EXCEPT !.st = "FAULT"]
    /\ UNCHANGED <<center, link, gone, ready, task, sync, restore, disk, adapter, mission>>

\* After a deactivation the supervisor stops the stack before the lock is released.
Stopped == [up |-> FALSE, map |-> NoMap, drive |-> FALSE]
Looks(stopped) ==
    /\ adapter' = IF stopped THEN Stopped ELSE adapter
    /\ seen' = IF stopped THEN [st |-> "NO_ACTIVE_MAP", map |-> NoMap]
               ELSE IF seen.st = "FAULT" /\ holder.reply = "bad" THEN seen ELSE Shown

\* _execute_navigation_command after execute: a loaded map becomes the active one unless it was
\* deleted meanwhile; a deactivation for a deletion records the tombstone, purges, acknowledges.
ResumeCall(c) ==
    /\ Released(c)
    /\ Looks(task[c].op = "deactivate" /\ holder.reply = "ok")
    /\ LET m == task[c].map IN
       \/ /\ holder.reply = "bad" /\ Finish(c, "refused") /\ UNCHANGED disk
       \/ /\ holder.reply = "ok" /\ task[c].op = "load"
          /\ IF tomb[m] = "none" THEN active' = m /\ Finish(c, "accepted")
                                 ELSE UNCHANGED active /\ Finish(c, "refused")
          /\ UNCHANGED <<tomb, files>>
       \/ /\ holder.reply = "ok" /\ task[c].op = "deactivate"
          /\ RecordTombstone(m, "DELETED") /\ files' = files \ {m}
          /\ Finish(c, "accepted")
       \/ /\ holder.reply = "ok" /\ task[c].op \in {"cancel", "start"}
          /\ Finish(c, "accepted") /\ UNCHANGED disk
    /\ UNCHANGED <<record, deletion, rows, assigned, link, gone, ready, sync, restore, inbox,
                   mission, faults>>

-----------------------------------------------------------------------------
(* _navigation_runtime_loop: the status poll and the restore of the active map. *)

\* A stopped stack answers nothing.  An empty one is given the active map behind the barrier:
\* active_load_payload if the cache is intact, the download of ensure otherwise.
Poll ==
    /\ link /\ restore.pc = "idle" /\ holder = Unheld /\ inbox = <<>>
    /\ seen' = IF adapter.up THEN Shown ELSE [seen EXCEPT !.st = "FAULT"]
    /\ restore' = IF adapter.up /\ adapter.map = NoMap /\ ready /\ active # NoMap
                  THEN [pc |-> Ensured(active), op |-> "load", map |-> active] ELSE restore
    /\ UNCHANGED <<center, link, gone, ready, task, sync, holder, disk, robot, faults>>

\* The repaired copy is marked active again and loaded.
RestoreDownloads ==
    /\ restore.pc = "download"
    /\ \/ /\ Installs(restore.map)
          /\ files' = files \cup {restore.map} /\ active' = restore.map
          /\ restore' = [restore EXCEPT !.pc = "exec"]
       \/ restore' = Idle /\ UNCHANGED <<files, active>>
    /\ UNCHANGED <<center, link, gone, ready, task, sync, holder, seen, tomb, robot, faults>>

ResumeRestore ==
    /\ Released("restore") /\ Looks(FALSE)
    /\ restore' = Idle
    /\ UNCHANGED <<center, link, gone, ready, task, sync, disk, inbox, mission, faults>>

-----------------------------------------------------------------------------
(* _map_registry_sync_loop. *)

\* While the barrier is closed a navigation that the last status showed is canceled first.
SyncStarts ==
    /\ sync.pc = "start"
    /\ sync' = [sync EXCEPT !.pc = IF ~ready /\ seen.st = "NAVIGATING" THEN "quiesce" ELSE "get",
                            !.map = NoMap, !.ok = TRUE]
    /\ UNCHANGED <<center, link, gone, ready, task, restore, holder, seen, disk, robot, faults>>

\* GET /api/maps/tombstones: every map ever deleted.
SyncGets ==
    /\ sync.pc = "get"
    /\ sync' = [sync EXCEPT !.pc = "items", !.todo = Deleted]
    /\ UNCHANGED <<center, link, gone, ready, task, restore, holder, seen, disk, robot, faults>>

\* mutation: only the active map is looked for in the stack
MayHaveActive(m) == active = m /\ seen.st # "NO_ACTIVE_MAP"

\* The stack may have the map: its last status says so, or it was active and the stack is not
\* known to be empty.
MayHave(m) == seen.map = m \/ (active = m /\ seen.st # "NO_ACTIVE_MAP")

\* The tombstone is durable before the stack is told and before anything is removed.
SyncTakes(m) ==
    /\ sync.pc = "items" /\ m \in sync.todo
    /\ RecordTombstone(m, "DELETION_PENDING")
    /\ sync' = [sync EXCEPT !.pc = IF MayHave(m) THEN "deactivate" ELSE "post", !.map = m,
                            !.todo = @ \ {m}]
    /\ files' = IF MayHave(m) THEN files ELSE files \ {m}
    /\ UNCHANGED <<center, link, gone, ready, task, restore, holder, seen, robot, faults>>

\* An unconfirmed deactivation leaves the item for the next round; a failed quiesce ends this one.
ResumeSync ==
    /\ Released("sync")
    /\ Looks(sync.map # NoMap /\ holder.reply = "ok")
    /\ sync' = IF sync.map = NoMap
               THEN [sync EXCEPT !.pc = IF holder.reply = "ok" THEN "get" ELSE "rest"]
               ELSE IF holder.reply = "ok" THEN [sync EXCEPT !.pc = "post"]
               ELSE [sync EXCEPT !.pc = "items", !.ok = FALSE]
    /\ files' = IF sync.map # NoMap /\ holder.reply = "ok" THEN files \ {sync.map} ELSE files
    /\ UNCHANGED <<center, link, gone, ready, task, restore, active, tomb, inbox, mission, faults>>

\* acknowledge_tombstone of the center.
SyncPosts ==
    /\ sync.pc = "post"
    /\ rows' = [rows EXCEPT ![sync.map] = IF @ = "none" THEN @ ELSE "DELETED"]
    /\ deletion' = [deletion EXCEPT ![sync.map] = "DELETED"]
    /\ sync' = [sync EXCEPT !.pc = "posted"]
    /\ UNCHANGED <<record, assigned, call, link, gone, ready, task, restore, holder, seen, disk,
                   robot, faults>>

\* acknowledge_tombstone of the cache.
SyncAcknowledges ==
    /\ sync.pc = "posted"
    /\ tomb' = [tomb EXCEPT ![sync.map] = "DELETED"]
    /\ sync' = [sync EXCEPT !.pc = "items"]
    /\ UNCHANGED <<center, link, gone, ready, task, restore, holder, seen, active, files, robot,
                   faults>>

\* A failed request: of the snapshot, or of an acknowledgement, which may have arrived.
SyncFails ==
    /\ Fault /\ sync.pc \in {"get", "post", "posted"}
    /\ sync' = [sync EXCEPT !.pc = IF @ = "get" THEN "rest" ELSE "items", !.ok = FALSE]
    /\ UNCHANGED <<center, link, gone, ready, task, restore, holder, seen, disk, robot>>

\* A complete round opens the barrier; a failed one leaves it as it is.
SyncEnds ==
    /\ sync.pc = "items" /\ sync.todo = {}
    /\ ready' = (ready \/ sync.ok)
    /\ sync' = [sync EXCEPT !.pc = "rest"]
    /\ UNCHANGED <<center, link, gone, task, restore, holder, seen, disk, robot, faults>>

SyncWakes ==
    /\ sync.pc = "rest"
    /\ sync' = [sync EXCEPT !.pc = "start"]
    /\ UNCHANGED <<center, link, gone, ready, task, restore, holder, seen, disk, robot, faults>>

-----------------------------------------------------------------------------
(* Connections, crashes and what the adapter does by itself. *)

\* mutation: the barrier of the last connection stays open
ConnectOpen ==
    /\ ~link /\ link' = TRUE
    /\ gone' = Deleted
    /\ sync' = [Off EXCEPT !.pc = "start"]
    /\ UNCHANGED <<center, ready, task, restore, holder, seen, disk, robot, faults>>

\* _connected closes the barrier before any task of the connection runs.
Connect ==
    /\ ~link /\ link' = TRUE
    /\ ready' = FALSE
    /\ gone' = Deleted
    /\ sync' = [Off EXCEPT !.pc = "start"]
    /\ UNCHANGED <<center, task, restore, holder, seen, disk, robot, faults>>

\* Every task of the connection is cancelled, the requests it sent to the adapter are not; the
\* waiting handlers of the center get a ConnectionError.  A crash forgets the last status too.
Disconnect(crash) ==
    /\ Fault /\ link /\ link' = FALSE
    /\ call' = [c \in Calls |-> IF call[c].pc \in {"asked", "stopping"}
                                THEN [call[c] EXCEPT !.pc = "done"] ELSE call[c]]
    /\ task' = [c \in Calls |-> [task[c] EXCEPT !.pc = "idle"]]
    /\ sync' = Off /\ restore' = Idle /\ holder' = Unheld
    /\ inbox' = [i \in DOMAIN inbox |-> [inbox[i] EXCEPT !.job = NoJob]]
    /\ seen' = IF crash THEN Unknown ELSE seen
    /\ UNCHANGED <<record, deletion, rows, assigned, gone, ready, disk, adapter, mission>>

\* A new stack has no map and no request; its mission is on disk.
AdapterRestarts ==
    /\ Fault
    /\ adapter' = Fresh /\ inbox' = <<>>
    /\ holder' = IF holder.job # NoJob /\ holder.reply = "none"
                 THEN [holder EXCEPT !.reply = "bad"] ELSE holder
    /\ UNCHANGED <<center, link, gone, ready, task, sync, restore, seen, disk, mission>>

\* An installed copy that no longer passes _validate_installed_cache is as good as none.
CacheDecays(m) ==
    /\ Fault /\ m \in files
    /\ files' = files \ {m}
    /\ UNCHANGED <<center, link, gone, edge, active, tomb, robot>>

\* Once localized on the map of the stored mission the adapter plans again and drives.
MissionResumes ==
    /\ adapter.map # NoMap /\ mission = adapter.map /\ ~adapter.drive
    /\ adapter' = [adapter EXCEPT !.drive = TRUE]
    /\ UNCHANGED <<center, link, gone, edge, disk, inbox, mission, faults>>

MissionEnds ==
    /\ adapter.drive
    /\ adapter' = [adapter EXCEPT !.drive = FALSE] /\ mission' = NoMap
    /\ UNCHANGED <<center, link, gone, edge, disk, inbox, faults>>

-----------------------------------------------------------------------------

CenterStep ==
    \/ \E c \in Calls, m \in Maps : Load(c, m) \/ Delete(c, m) \/ Start(c, m)
    \/ \E c \in Calls : LoadGoesOn(c) \/ LoadCommits(c) \/ DeleteCommits(c) \/ CallEnds(c)

EdgeStep ==
    \/ \E c \in Calls : Begin(c) \/ Downloaded(c) \/ SubmitCall(c) \/ ResumeCall(c)
    \/ SubmitRestore \/ RestoreDownloads \/ ResumeRestore \/ Poll
    \/ SubmitSync \/ ResumeSync \/ SyncStarts \/ SyncGets \/ SyncPosts \/ SyncAcknowledges
    \/ SyncEnds \/ SyncWakes \/ \E m \in Maps : SyncTakes(m)

Trouble ==
    \/ GivesUp \/ SyncFails \/ AdapterRestarts
    \/ \E crash \in BOOLEAN : Disconnect(crash)
    \/ \E m \in Maps : CacheDecays(m)

Next == CenterStep \/ EdgeStep \/ Serve \/ Connect \/ MissionResumes \/ MissionEnds \/ Trouble

Spec == Init /\ [][Next]_vars

\* The tasks of the edge run when they can, asyncio.Lock serves its waiters in turn, the adapter
\* answers and a lost connection is opened again.
Fairness ==
    /\ WF_vars(Serve) /\ WF_vars(Connect) /\ WF_vars(Poll)
    /\ SF_vars(SubmitRestore) /\ SF_vars(SubmitSync) /\ \A c \in Calls : SF_vars(SubmitCall(c))
    /\ WF_vars(RestoreDownloads) /\ WF_vars(ResumeRestore) /\ WF_vars(ResumeSync)
    /\ \A c \in Calls : WF_vars(Begin(c)) /\ WF_vars(Downloaded(c)) /\ WF_vars(ResumeCall(c))
    /\ WF_vars(SyncStarts) /\ WF_vars(SyncGets) /\ WF_vars(SyncPosts)
    /\ WF_vars(SyncAcknowledges) /\ WF_vars(SyncEnds) /\ WF_vars(SyncWakes)
    /\ \A m \in Maps : WF_vars(SyncTakes(m))

FairSpec == Spec /\ Fairness

-----------------------------------------------------------------------------

(***************************************************************************)
(* A deletion that the center books as done for the robot, or that the     *)
(* edge's registry books as acknowledged, is done: the map is off the      *)
(* disk, it is not the active map, and its tombstone keeps it so, whatever *)
(* download, load or restore of it was under way.                          *)
(***************************************************************************)
DeletionIsTrue ==
    \A m \in Maps : rows[m] = "DELETED" \/ tomb[m] = "DELETED" =>
        m \notin files /\ active # m /\ tomb[m] # "none"

(***************************************************************************)
(* The reconnect barrier: no task of a connection asks the stack to load,  *)
(* or to drive on, a map that was deleted before the connection was opened *)
(* (client.py _connected, _require_map_registry_ready, map_cache ensure).  *)
(***************************************************************************)
GoneIsNotServed ==
    \A i \in DOMAIN inbox :
        inbox[i].job # NoJob /\ inbox[i].op \in {"load", "start"} => inbox[i].map \notin gone

(***************************************************************************)
(* A deleted map leaves the robot for good: in the end the stack does not  *)
(* have it, it is not active and its files are gone, also when a load or a *)
(* restore of it finished after its tombstone was acknowledged.            *)
(***************************************************************************)
DeletedLeaves ==
    \A m \in Maps :
        <>[](record[m] = "deleted" => adapter.map # m /\ active # m /\ m \notin files)

(***************************************************************************)
(* Note.md 14.6: every new connection revokes a navigation that is still   *)
(* active before the registry is trusted.  The code does not keep this: see  *)
(* the README, section 5.                                                  *)
(***************************************************************************)
BarrierStopsMissions == [][~ready /\ ready' => ~adapter.drive]_vars

=============================================================================
