------------------------- MODULE MapRegistryProofs -------------------------
(***************************************************************************)
(* What TLAPS proves of MapRegistry, for every set of maps and requests    *)
(* and however many connections are lost.                                  *)
(***************************************************************************)
EXTENDS MapRegistry, SequenceTheorems, TLAPS

\* Names do not clash, and the bound is a number.
USE BoundAssumption, NameAssumption

CallTypes == [kind : {"none", "load", "delete", "start"}, map : Maps \cup {NoMap},
              pc : {"idle", "stopping", "asked", "accepted", "refused", "done"}]
TaskTypes == [pc : {"idle", "new", "download", "exec", "calling"},
              op : {"none", "load", "cancel", "deactivate", "start"}, map : Maps \cup {NoMap}]
RestoreTypes == [pc : {"idle", "download", "exec", "calling"}, op : {"none", "load"},
                 map : Maps \cup {NoMap}]
SyncTypes == [pc : {"off", "start", "quiesce", "calling", "get", "items", "deactivate",
                    "post", "posted", "rest"},
              todo : SUBSET Maps, map : Maps \cup {NoMap}, ok : BOOLEAN]
HolderTypes == [job : Jobs \cup {NoJob}, reply : {"none", "ok", "bad"}]
SeenTypes == [st : {"FAULT", "NO_ACTIVE_MAP", "READY", "NAVIGATING"}, map : Maps \cup {NoMap}]
RequestTypes == [op : {"load", "cancel", "deactivate", "start"}, map : Maps \cup {NoMap},
                 had : BOOLEAN, job : Jobs \cup {NoJob}]
AdapterTypes == [up : BOOLEAN, map : Maps \cup {NoMap}, drive : BOOLEAN]

\* The active map has no tombstone.
ActiveIsAlive == active \in Maps => tomb[active] = "none"

\* A request and a task are about a map of the center.
CallNamed(c) == call[c].pc # "idle" => call[c].map \in Maps
TaskNamed(c) == task[c].pc # "idle" => task[c].op # "none" /\ task[c].map \in Maps
Named ==
  /\ \A c \in Calls : CallNamed(c) /\ TaskNamed(c)
  /\ restore.pc # "idle" => restore.op = "load" /\ restore.map \in Maps

Sound == TypeOK /\ ActiveIsAlive /\ Named

\* Who holds the lock of the backend waits for an answer; a task belongs to a request that is
\* not answered yet.
Held ==
  /\ \A c \in Calls : task[c].pc # "idle" => call[c].pc \in {"asked", "stopping", "done"}
  /\ \A c \in Calls : holder.job = c => task[c].pc = "calling"
  /\ holder.job = "restore" => restore.pc = "calling"
  /\ holder.job = "sync" => sync.pc = "calling"

\* The synchronisation deals with a map of the center, and never before its tombstone is on disk.
Tombed ==
  /\ sync.pc = "quiesce" => sync.map = NoMap
  /\ \/ sync.pc \in {"deactivate", "post", "posted"}
     \/ sync.pc = "calling" /\ sync.map # NoMap
     => sync.map \in Maps /\ tomb[sync.map] # "none"

\* A request to delete is carried by the deactivation of its map; once it is accepted the
\* tombstone of the map is acknowledged.
Promised ==
  \A c \in Calls : call[c].kind = "delete" =>
    /\ call[c].pc = "asked" => task[c].op = "deactivate" /\ task[c].map = call[c].map
    /\ call[c].pc = "accepted" => tomb[call[c].map] = "DELETED"
    /\ call[c].pc # "stopping"

\* What is acknowledged to the center is off the disk.
Purged == sync.pc \in {"post", "posted"} => sync.map \notin files

\* Nothing of a connection is left when it is closed.
Offline ==
  ~link => /\ holder = Unheld /\ sync.pc = "off" /\ restore.pc = "idle"
           /\ \A c \in Calls : task[c].pc = "idle"
           /\ \A i \in DOMAIN inbox : inbox[i].job = NoJob

\* The maps a round of the synchronisation still has to take are the only ones that were gone
\* when the connection was opened and have no tombstone yet; an open barrier leaves none.
Barrier ==
  /\ gone \subseteq Deleted
  /\ ready => \A m \in gone : tomb[m] # "none"
  /\ \/ sync.pc \in {"items", "deactivate", "post", "posted"}
     \/ sync.pc = "calling" /\ sync.map # NoMap
     => \A m \in gone : m \in sync.todo \/ tomb[m] # "none"

\* What is on its way to the stack was not gone when the connection was opened.
Current ==
  /\ \A c \in Calls :
       task[c].map \in gone =>
         /\ task[c].op = "start" => task[c].pc = "idle"
         /\ task[c].op = "load" => task[c].pc \in {"idle", "new"}
  /\ restore.map \in gone => restore.pc = "idle"

-----------------------------------------------------------------------------
(* Types, and the active map.                                              *)

\* The constants of the records have their types.
LEMMA ConstantTypes ==
  /\ Idle \in TaskTypes /\ Idle \in RestoreTypes
  /\ Unheld \in HolderTypes /\ Unknown \in SeenTypes
  /\ Off \in SyncTypes /\ [Off EXCEPT !.pc = "start"] \in SyncTypes
  /\ Fresh \in AdapterTypes /\ Stopped \in AdapterTypes
<1>1. Idle \in TaskTypes /\ Idle \in RestoreTypes
  BY DEF Idle, TaskTypes, RestoreTypes
<1>2. Unheld \in HolderTypes /\ Unknown \in SeenTypes
  BY DEF Unheld, HolderTypes, Unknown, SeenTypes
<1>3. Off \in SyncTypes /\ [Off EXCEPT !.pc = "start"] \in SyncTypes
  BY DEF Off, SyncTypes
<1>4. Fresh \in AdapterTypes /\ Stopped \in AdapterTypes
  BY DEF Fresh, Stopped, AdapterTypes
<1> QED
  BY <1>1, <1>2, <1>3, <1>4

\* A request of the center and the task it starts at the edge.
LEMMA AskTypes ==
  ASSUME TypeOK, NEW c \in Calls, NEW kind \in {"load", "delete", "start"},
         NEW m \in Maps \cup {NoMap}, NEW pc \in {"stopping", "asked"},
         NEW op \in {"load", "cancel", "deactivate", "start"}, Ask(c, kind, m, pc, op)
  PROVE  call' \in [Calls -> CallTypes] /\ task' \in [Calls -> TaskTypes]
<1>1. [kind |-> kind, map |-> m, pc |-> pc] \in CallTypes
  BY DEF CallTypes
<1>2. [pc |-> "new", op |-> op, map |-> m] \in TaskTypes
  BY DEF TaskTypes
<1> QED
  BY <1>1, <1>2 DEF Ask, TypeOK, CallTypes, TaskTypes

\* The commit of a deletion.
LEMMA TombstonedTypes ==
  ASSUME TypeOK, NEW m, NEW affected, NEW acked, Tombstoned(m, affected, acked)
  PROVE  /\ record' \in [Maps -> {"active", "deleted"}]
         /\ deletion' \in [Maps -> {"none", "DELETION_PENDING", "DELETED"}]
         /\ rows' \in [Maps -> {"none", "SYNCED", "DELETION_PENDING", "DELETED"}]
         /\ assigned' \in Maps \cup {NoMap}
<1>1. rows' \in [Maps -> {"none", "SYNCED", "DELETION_PENDING", "DELETED"}]
  BY DEF Tombstoned, TypeOK
<1>2. assigned' \in Maps \cup {NoMap}
  BY DEF Tombstoned, TypeOK
<1>3. deletion' \in [Maps -> {"none", "DELETION_PENDING", "DELETED"}]
  BY DEF Tombstoned, TypeOK
<1> QED
  BY <1>1, <1>2, <1>3 DEF Tombstoned, TypeOK

\* The end of a call, whatever it is called.
LEMMA CallPcTypes ==
  ASSUME TypeOK, NEW c \in Calls, NEW pc \in {"accepted", "refused", "done"},
         call' = [call EXCEPT ![c].pc = pc]
  PROVE  call' \in [Calls -> CallTypes]
<1>1. call \in [Calls -> CallTypes]
  BY DEF TypeOK, CallTypes
<1>2. [call[c] EXCEPT !.pc = pc] \in CallTypes
  BY <1>1 DEF CallTypes
<1> QED
  BY <1>1, <1>2

\* The center keeps the types.
LEMMA CenterTypes ==
  ASSUME Sound, CenterStep
  PROVE  Sound'
<1>0. TypeOK
  BY DEF Sound
<1>1. UNCHANGED <<active, tomb>>
  BY DEF CenterStep, Load, Delete, Start, LoadGoesOn, LoadCommits, DeleteCommits, CallEnds, disk,
     edge
<1>2. TypeOK'
  <2>1. CASE \E c \in Calls, m \in Maps : Load(c, m)
    <3> PICK c \in Calls, m \in Maps : Load(c, m)
      BY <2>1
    <3>1. call' \in [Calls -> CallTypes] /\ task' \in [Calls -> TaskTypes]
      BY <1>0, AskTypes DEF Load
    <3> QED
      BY <1>0, <3>1 DEF Load, TypeOK, CallTypes, TaskTypes, disk, robot
  <2>2. CASE \E c \in Calls, m \in Maps : Delete(c, m)
    <3> PICK c \in Calls, m \in Maps : Delete(c, m)
      BY <2>2
    <3>1. CASE assigned = m /\ link
      <4>1. call' \in [Calls -> CallTypes] /\ task' \in [Calls -> TaskTypes]
        BY <1>0, <3>1, AskTypes DEF Delete
      <4> QED
        BY <1>0, <3>1, <4>1 DEF Delete, TypeOK, CallTypes, TaskTypes, disk, robot
    <3>2. CASE ~(assigned = m /\ link)
      <4>1. [kind |-> "delete", map |-> m, pc |-> "done"] \in CallTypes
        BY DEF CallTypes
      <4>2. call' \in [Calls -> CallTypes]
        <5>1. call \in [Calls -> CallTypes]
          BY <1>0 DEF TypeOK, CallTypes
        <5> QED
          BY <3>2, <4>1, <5>1 DEF Delete
      <4>3. Tombstoned(m, assigned = m, FALSE)
        BY <3>2 DEF Delete
      <4>4. /\ record' \in [Maps -> {"active", "deleted"}]
            /\ deletion' \in [Maps -> {"none", "DELETION_PENDING", "DELETED"}]
            /\ rows' \in [Maps -> {"none", "SYNCED", "DELETION_PENDING", "DELETED"}]
            /\ assigned' \in Maps \cup {NoMap}
        BY <1>0, <4>3, TombstonedTypes, Zenon
      <4>5. UNCHANGED <<link, gone, edge, disk, robot, faults>>
        BY <3>2 DEF Delete, edge
      <4> QED
        BY <1>0, <4>2, <4>4, <4>5 DEF TypeOK, CallTypes, edge, disk, robot
    <3> QED
      BY <3>1, <3>2
  <2>3. CASE \E c \in Calls, m \in Maps : Start(c, m)
    <3> PICK c \in Calls, m \in Maps : Start(c, m)
      BY <2>3
    <3>1. call' \in [Calls -> CallTypes] /\ task' \in [Calls -> TaskTypes]
      BY <1>0, AskTypes DEF Start
    <3> QED
      BY <1>0, <3>1 DEF Start, TypeOK, CallTypes, TaskTypes, disk, robot
  <2>4. CASE \E c \in Calls : LoadGoesOn(c)
    <3> PICK c \in Calls : LoadGoesOn(c)
      BY <2>4
    <3>0. call[c].map \in Maps \cup {NoMap}
      BY <1>0 DEF TypeOK
    <3>1. call' \in [Calls -> CallTypes] /\ task' \in [Calls -> TaskTypes]
      <4>1. CASE link
        <5>1. Ask(c, "load", call[c].map, "asked", "load")
          BY <4>1 DEF LoadGoesOn
        <5> QED
          BY <1>0, <3>0, <5>1, AskTypes, Zenon
      <4>2. CASE ~link
        <5>1. call' = [call EXCEPT ![c].pc = "done"] /\ task' = task
          BY <4>2 DEF LoadGoesOn
        <5>2. task \in [Calls -> TaskTypes]
          BY <1>0 DEF TypeOK, TaskTypes
        <5> QED
          BY <1>0, <5>1, <5>2, CallPcTypes
      <4> QED
        BY <4>1, <4>2
    <3> QED
      BY <1>0, <3>1 DEF LoadGoesOn, TypeOK, CallTypes, TaskTypes, disk, robot
  <2>5. CASE \E c \in Calls : LoadCommits(c)
    <3> PICK c \in Calls : LoadCommits(c)
      BY <2>5
    <3>1. call' \in [Calls -> CallTypes]
      BY <1>0, CallPcTypes DEF LoadCommits
    <3>2. /\ rows' \in [Maps -> {"none", "SYNCED", "DELETION_PENDING", "DELETED"}]
          /\ assigned' \in Maps \cup {NoMap}
      BY <1>0 DEF LoadCommits, TypeOK
    <3> QED
      BY <1>0, <3>1, <3>2 DEF LoadCommits, TypeOK, CallTypes, edge, disk, robot
  <2>6. CASE \E c \in Calls : DeleteCommits(c)
    <3> PICK c \in Calls : DeleteCommits(c)
      BY <2>6
    <3>1. call' \in [Calls -> CallTypes]
      BY <1>0, CallPcTypes DEF DeleteCommits
    <3>2. Tombstoned(call[c].map, TRUE, call[c].pc = "accepted")
      BY DEF DeleteCommits
    <3>3. /\ record' \in [Maps -> {"active", "deleted"}]
          /\ deletion' \in [Maps -> {"none", "DELETION_PENDING", "DELETED"}]
          /\ rows' \in [Maps -> {"none", "SYNCED", "DELETION_PENDING", "DELETED"}]
          /\ assigned' \in Maps \cup {NoMap}
      BY <1>0, <3>2, TombstonedTypes, Zenon
    <3> QED
      BY <1>0, <3>1, <3>3 DEF DeleteCommits, TypeOK, CallTypes, edge, disk, robot
  <2>7. CASE \E c \in Calls : CallEnds(c)
    <3> PICK c \in Calls : CallEnds(c)
      BY <2>7
    <3>1. call' \in [Calls -> CallTypes]
      BY <1>0, CallPcTypes DEF CallEnds
    <3> QED
      BY <1>0, <3>1 DEF CallEnds, TypeOK, CallTypes, edge, disk, robot
  <2> QED
    BY <2>1, <2>2, <2>3, <2>4, <2>5, <2>6, <2>7 DEF CenterStep
<1>3. Named'
  <2>1. restore' = restore
    BY DEF CenterStep, Load, Delete, Start, LoadGoesOn, LoadCommits, DeleteCommits, CallEnds, edge
  <2>2. call \in [Calls -> CallTypes] /\ task \in [Calls -> TaskTypes]
    BY <1>0 DEF TypeOK, CallTypes, TaskTypes
  <2>3. ASSUME NEW c \in Calls, NEW m \in Maps, NEW kind, NEW pc, NEW op \in {"load", "cancel", "deactivate", "start"},
               Ask(c, kind, m, pc, op)
        PROVE  Named'
    <3>1. \A d \in Calls \ {c} : call'[d] = call[d] /\ task'[d] = task[d]
      BY <2>3 DEF Ask
    <3>2. call'[c].map = m /\ task'[c].map = m /\ task'[c].op = op
      BY <2>2, <2>3 DEF Ask
    <3> QED
      BY <2>1, <3>1, <3>2 DEF Sound, Named, CallNamed, TaskNamed
  <2>4. ASSUME NEW c \in Calls, call[c].map \in Maps, call' = [call EXCEPT ![c].pc = "done"],
               task' = task
        PROVE  Named'
    <3>1. \A d \in Calls : call'[d].map = call[d].map /\ (d # c => call'[d] = call[d])
      BY <2>2, <2>4
    <3> QED
      BY <2>1, <2>4, <3>1 DEF Sound, Named, CallNamed, TaskNamed
  <2>5. CASE \E c \in Calls, m \in Maps : Load(c, m) \/ Start(c, m)
    <3> PICK c \in Calls, m \in Maps : Load(c, m) \/ Start(c, m)
      BY <2>5
    <3> QED
      BY <2>3 DEF Load, Start
  <2>6. CASE \E c \in Calls, m \in Maps : Delete(c, m)
    <3> PICK c \in Calls, m \in Maps : Delete(c, m)
      BY <2>6
    <3>1. CASE assigned = m /\ link
      BY <2>3, <3>1 DEF Delete
    <3>2. CASE ~(assigned = m /\ link)
      <4>1. call' = [call EXCEPT ![c] = [kind |-> "delete", map |-> m, pc |-> "done"]] /\ task' = task
        BY <3>2 DEF Delete
      <4>2. call'[c].map = m /\ \A d \in Calls \ {c} : call'[d] = call[d]
        BY <2>2, <4>1
      <4> QED
        BY <2>1, <4>1, <4>2 DEF Sound, Named, CallNamed, TaskNamed
    <3> QED
      BY <3>1, <3>2
  <2>7. CASE \E c \in Calls : LoadGoesOn(c) \/ LoadCommits(c) \/ DeleteCommits(c) \/ CallEnds(c)
    <3> PICK c \in Calls : LoadGoesOn(c) \/ LoadCommits(c) \/ DeleteCommits(c) \/ CallEnds(c)
      BY <2>7
    <3>1. call[c].map \in Maps
      BY DEF LoadGoesOn, LoadCommits, DeleteCommits, CallEnds, Sound, Named, CallNamed
    <3>2. \/ Ask(c, "load", call[c].map, "asked", "load")
          \/ call' = [call EXCEPT ![c].pc = "done"] /\ task' = task
      BY DEF LoadGoesOn, LoadCommits, DeleteCommits, CallEnds, edge
    <3> QED
      BY <2>3, <2>4, <3>1, <3>2
  <2> QED
    BY <2>5, <2>6, <2>7 DEF CenterStep
<1> QED
  BY <1>1, <1>2, <1>3 DEF Sound, ActiveIsAlive

\* A tombstone: the map is not active any more, and never without one again.
LEMMA TombstoneTypes ==
  ASSUME Sound, NEW m, NEW status \in {"DELETION_PENDING", "DELETED"}, RecordTombstone(m, status)
  PROVE  /\ tomb' \in [Maps -> {"none", "DELETION_PENDING", "DELETED"}]
         /\ active' \in Maps \cup {NoMap}
         /\ ActiveIsAlive'
         /\ \A n \in Maps : tomb[n] # "none" => tomb'[n] # "none"
         /\ m \in Maps => tomb'[m] # "none" /\ active' # m
<1>1. tomb' \in [Maps -> {"none", "DELETION_PENDING", "DELETED"}]
  BY DEF RecordTombstone, Sound, TypeOK
<1>2. active' \in Maps \cup {NoMap} /\ (active' # m \/ m = NoMap)
  BY DEF RecordTombstone, Sound, TypeOK
<1>3. \A n \in Maps : n # m => tomb'[n] = tomb[n]
  BY DEF RecordTombstone, Sound, TypeOK
<1>4. m \in Maps => tomb'[m] # "none"
  BY DEF RecordTombstone, Sound, TypeOK
<1>5. active' \in {active, NoMap}
  BY DEF RecordTombstone
<1> QED
  BY <1>1, <1>2, <1>3, <1>4, <1>5 DEF Sound, ActiveIsAlive

\* The next step of a task.
LEMMA TaskPcTypes ==
  ASSUME TypeOK, NEW c \in Calls, NEW pc \in {"idle", "download", "exec", "calling"},
         task' = [task EXCEPT ![c].pc = pc]
  PROVE  task' \in [Calls -> TaskTypes]
<1>1. task \in [Calls -> TaskTypes]
  BY DEF TypeOK, TaskTypes
<1>2. [task[c] EXCEPT !.pc = pc] \in TaskTypes
  BY <1>1 DEF TaskTypes
<1> QED
  BY <1>1, <1>2

\* The end of a task, and its answer.
LEMMA FinishTypes ==
  ASSUME TypeOK, NEW c \in Calls, NEW result \in {"accepted", "refused"}, Finish(c, result)
  PROVE  call' \in [Calls -> CallTypes] /\ task' \in [Calls -> TaskTypes]
<1>0. call \in [Calls -> CallTypes]
  BY DEF TypeOK, CallTypes
<1>1. [call[c] EXCEPT !.pc = IF @ \in {"asked", "stopping"} THEN result ELSE @] \in CallTypes
  BY <1>0 DEF CallTypes
<1>2. call' \in [Calls -> CallTypes]
  BY <1>0, <1>1 DEF Finish, Answer
<1>3. task' \in [Calls -> TaskTypes]
  BY TaskPcTypes DEF Finish
<1> QED
  BY <1>2, <1>3

\* A request is put in the adapter's socket.
LEMMA HoldTypes ==
  ASSUME TypeOK, NEW j \in Jobs, NEW op \in {"load", "cancel", "deactivate", "start"},
         NEW m \in Maps \cup {NoMap}, Hold(j, op, m)
  PROVE  holder' \in HolderTypes /\ inbox' \in Seq(RequestTypes)
<1>1. (m \in files) \in BOOLEAN
  OBVIOUS
<1>2. Request(op, m, j) \in RequestTypes
  BY <1>1 DEF Request, RequestTypes
<1>3. inbox \in Seq(RequestTypes)
  BY DEF TypeOK, RequestTypes
<1>4. [job |-> j, reply |-> "none"] \in HolderTypes
  BY DEF HolderTypes
<1> QED
  BY <1>2, <1>3, <1>4 DEF Hold

\* What the caller of the adapter sees when it resumes.
LEMMA LooksTypes ==
  ASSUME TypeOK, NEW stopped \in BOOLEAN, Looks(stopped)
  PROVE  adapter' \in AdapterTypes /\ seen' \in SeenTypes
<1>1. adapter \in AdapterTypes /\ seen \in SeenTypes
  BY DEF TypeOK, AdapterTypes, SeenTypes
<1>2. Shown \in SeenTypes
  BY <1>1 DEF Shown, AdapterTypes, SeenTypes
<1>3. [st |-> "NO_ACTIVE_MAP", map |-> NoMap] \in SeenTypes
  BY DEF SeenTypes
<1> QED
  BY <1>1, <1>2, <1>3, ConstantTypes, Zenon DEF Looks

\* What a task does leaves every request and every task about its map.
LEMMA TaskNames ==
  ASSUME Sound, NEW c \in Calls, UNCHANGED restore,
         call' = call \/ \E result : Answer(c, result),
         \E pc : task' = [task EXCEPT ![c].pc = pc], task[c].pc # "idle"
  PROVE  Named'
<1>1. \A d \in Calls \ {c} : call'[d] = call[d] /\ task'[d] = task[d]
  BY DEF Answer, Sound, TypeOK
<1>2. call'[c].map = call[c].map /\ (call'[c].pc = call[c].pc \/ call[c].pc # "idle")
  BY DEF Answer, Sound, TypeOK
<1>3. task'[c].map = task[c].map /\ task'[c].op = task[c].op
  BY DEF Sound, TypeOK
<1> QED
  BY <1>1, <1>2, <1>3 DEF Sound, Named, CallNamed, TaskNamed

\* The tasks of the center's commands keep the types.
LEMMA CommandsSound ==
  ASSUME Sound, NEW c \in Calls, Begin(c) \/ Downloaded(c) \/ SubmitCall(c) \/ ResumeCall(c),
         Held
  PROVE  Sound'
<1>0. TypeOK
  BY DEF Sound
<1>1. CASE Begin(c)
  <2> DEFINE next == IF task[c].op = "load" THEN Ensured(task[c].map) ELSE "exec"
  <2>1. call' \in [Calls -> CallTypes] /\ task' \in [Calls -> TaskTypes] /\ Named'
    <3>1. CASE Permitted(task[c].op) /\ next # "error"
      <4>1. next \in {"download", "exec"}
        BY <3>1 DEF Ensured
      <4>2. /\ call' = call /\ task' = [task EXCEPT ![c].pc = next] /\ restore' = restore
            /\ task[c].pc # "idle"
        BY <1>1, <3>1 DEF Begin
      <4>3. call' \in [Calls -> CallTypes]
        BY <1>0, <4>2 DEF TypeOK, CallTypes
      <4> HIDE DEF next
      <4> QED
        BY <1>0, <4>1, <4>2, <4>3, TaskPcTypes, TaskNames
    <3>2. CASE ~(Permitted(task[c].op) /\ next # "error")
      <4>1. Finish(c, "refused") /\ restore' = restore /\ task[c].pc # "idle"
        BY <1>1, <3>2 DEF Begin
      <4> QED
        BY <1>0, <4>1, FinishTypes, TaskNames DEF Finish
    <3> QED
      BY <3>1, <3>2
  <2> QED
    BY <1>1, <2>1 DEF Begin, Sound, TypeOK, ActiveIsAlive, CallTypes, TaskTypes, disk, robot
<1>2. CASE Downloaded(c)
  <2>1. /\ call' \in [Calls -> CallTypes] /\ task' \in [Calls -> TaskTypes] /\ Named'
        /\ files' \subseteq Maps
    <3>0. restore' = restore /\ task[c].pc # "idle"
      BY <1>2 DEF Downloaded
    <3>1. CASE Finish(c, "refused") /\ UNCHANGED files
      BY <1>0, <3>0, <3>1, FinishTypes, TaskNames DEF TypeOK, Finish
    <3>2. CASE /\ Installs(task[c].map) /\ files' = files \cup {task[c].map}
               /\ task' = [task EXCEPT ![c].pc = "exec"] /\ UNCHANGED call
      <4>1. call' \in [Calls -> CallTypes]
        BY <1>0, <3>2 DEF TypeOK, CallTypes
      <4>2. task[c].map \in Maps
        BY <3>0 DEF Sound, Named, TaskNamed
      <4>3. task' \in [Calls -> TaskTypes] /\ Named'
        BY <1>0, <3>0, <3>2, TaskPcTypes, TaskNames
      <4> QED
        BY <1>0, <3>2, <4>1, <4>2, <4>3 DEF TypeOK
    <3> QED
      BY <1>2, <3>1, <3>2 DEF Downloaded
  <2> QED
    BY <1>2, <2>1 DEF Downloaded, Sound, TypeOK, ActiveIsAlive, CallTypes, TaskTypes, robot
<1>3. CASE SubmitCall(c)
  <2>1. task[c].op \in {"load", "cancel", "deactivate", "start"} /\ task[c].map \in Maps
    BY <1>0, <1>3 DEF SubmitCall, TypeOK, Sound, Named, TaskNamed
  <2>2. holder' \in HolderTypes /\ inbox' \in Seq(RequestTypes)
    BY <1>0, <1>3, <2>1, HoldTypes DEF SubmitCall, Jobs
  <2>3. task' \in [Calls -> TaskTypes] /\ Named'
    BY <1>0, <1>3, TaskPcTypes, TaskNames DEF SubmitCall, center
  <2> QED
    BY <1>3, <2>2, <2>3
    DEF SubmitCall, Sound, TypeOK, ActiveIsAlive, TaskTypes, HolderTypes, RequestTypes, center, disk
<1>4. CASE ResumeCall(c)
  <2>0. task[c].pc # "idle" /\ task[c].map \in Maps /\ restore' = restore
    BY <1>4 DEF ResumeCall, Released, Held, Sound, Named, TaskNamed
  <2>1. holder' \in HolderTypes
    BY <1>4, ConstantTypes DEF ResumeCall, Released
  <2>2. adapter' \in AdapterTypes /\ seen' \in SeenTypes
    <3>1. (task[c].op = "deactivate" /\ holder.reply = "ok") \in BOOLEAN
      OBVIOUS
    <3>2. Looks(task[c].op = "deactivate" /\ holder.reply = "ok")
      BY <1>4 DEF ResumeCall
    <3> QED
      BY <1>0, <3>1, <3>2, LooksTypes, Zenon
  <2>3. \E result \in {"accepted", "refused"} : Finish(c, result)
    BY <1>4, Zenon DEF ResumeCall
  <2>4. call' \in [Calls -> CallTypes] /\ task' \in [Calls -> TaskTypes]
    BY <1>0, <2>3, FinishTypes
  <2>5. Named'
    BY <2>0, <2>3, TaskNames DEF Finish
  <2>6. /\ files' \subseteq Maps /\ ActiveIsAlive' /\ active' \in Maps \cup {NoMap}
        /\ tomb' \in [Maps -> {"none", "DELETION_PENDING", "DELETED"}]
    <3>1. CASE UNCHANGED disk
      BY <3>1 DEF disk, Sound, TypeOK, ActiveIsAlive
    <3>2. CASE /\ (active' = task[c].map /\ tomb[task[c].map] = "none") \/ UNCHANGED active
               /\ UNCHANGED <<tomb, files>>
      BY <2>0, <3>2 DEF Sound, TypeOK, ActiveIsAlive
    <3>3. CASE RecordTombstone(task[c].map, "DELETED") /\ files' = files \ {task[c].map}
      BY <1>0, <3>3, TombstoneTypes DEF TypeOK
    <3> QED
      BY <1>4, <3>1, <3>2, <3>3 DEF ResumeCall
  <2> QED
    BY <1>4, <2>1, <2>2, <2>4, <2>5, <2>6
    DEF ResumeCall, Sound, TypeOK, CallTypes, TaskTypes, HolderTypes, AdapterTypes, SeenTypes
<1> QED
  BY <1>1, <1>2, <1>3, <1>4

\* The restore and the poll keep the types.
LEMMA RestoreSound ==
  ASSUME Sound, SubmitRestore \/ RestoreDownloads \/ ResumeRestore \/ Poll
  PROVE  Sound'
<1>0. TypeOK /\ restore \in RestoreTypes /\ seen \in SeenTypes
  BY DEF Sound, TypeOK, RestoreTypes, SeenTypes
<1>1. CASE SubmitRestore
  <2>1. restore' \in RestoreTypes /\ restore'.op = "load" /\ restore'.map \in Maps
    BY <1>0, <1>1 DEF SubmitRestore, RestoreTypes, Sound, Named
  <2>2. holder' \in HolderTypes /\ inbox' \in Seq(RequestTypes)
    BY <1>0, <1>1, HoldTypes DEF SubmitRestore, Jobs, RestoreTypes
  <2> QED
    BY <1>1, <2>1, <2>2
    DEF SubmitRestore, Sound, TypeOK, ActiveIsAlive, Named, CallNamed, TaskNamed, RestoreTypes,
        HolderTypes, RequestTypes, center, disk
<1>2. CASE RestoreDownloads
  <2>1. /\ restore' \in RestoreTypes /\ active' \in Maps \cup {NoMap} /\ files' \subseteq Maps
        /\ ActiveIsAlive'
        /\ restore'.pc # "idle" => restore'.op = "load" /\ restore'.map \in Maps
    <3>1. CASE restore' = Idle /\ UNCHANGED <<files, active>>
      BY <1>2, <3>1, ConstantTypes DEF RestoreDownloads, Idle, Sound, TypeOK, ActiveIsAlive
    <3>2. CASE /\ Installs(restore.map)
               /\ files' = files \cup {restore.map} /\ active' = restore.map
               /\ restore' = [restore EXCEPT !.pc = "exec"]
      BY <1>0, <1>2, <3>2
      DEF RestoreDownloads, Installs, RestoreTypes, Sound, Named, TypeOK, ActiveIsAlive
    <3> QED
      BY <1>2, <3>1, <3>2 DEF RestoreDownloads
  <2> QED
    BY <1>2, <2>1
    DEF RestoreDownloads, Sound, TypeOK, Named, CallNamed, TaskNamed, RestoreTypes, center, robot
<1>3. CASE ResumeRestore
  <2>1. adapter' \in AdapterTypes /\ seen' \in SeenTypes
    BY <1>0, <1>3, LooksTypes DEF ResumeRestore
  <2>2. restore' \in RestoreTypes /\ holder' \in HolderTypes /\ restore'.pc = "idle"
    BY <1>3, ConstantTypes DEF ResumeRestore, Released, Idle
  <2> QED
    BY <1>3, <2>1, <2>2
    DEF ResumeRestore, Sound, TypeOK, ActiveIsAlive, Named, CallNamed, TaskNamed, RestoreTypes,
        HolderTypes, AdapterTypes, SeenTypes, center, disk
<1>4. CASE Poll
  <2>1. seen' \in SeenTypes
    <3>1. Shown \in SeenTypes
      BY <1>0 DEF Shown, SeenTypes, TypeOK
    <3>2. [seen EXCEPT !.st = "FAULT"] \in SeenTypes
      BY <1>0 DEF SeenTypes
    <3> QED
      BY <1>4, <3>1, <3>2 DEF Poll
  <2>2. /\ restore' \in RestoreTypes
        /\ restore'.pc # "idle" => restore'.op = "load" /\ restore'.map \in Maps
    <3>1. CASE restore' = restore
      BY <1>0, <3>1 DEF Sound, Named
    <3>2. CASE /\ active # NoMap
               /\ restore' = [pc |-> Ensured(active), op |-> "load", map |-> active]
      <4>1. active \in Maps /\ Ensured(active) \in {"exec", "download"}
        BY <3>2 DEF Ensured, Sound, TypeOK, ActiveIsAlive
      <4> QED
        BY <3>2, <4>1 DEF RestoreTypes
    <3> QED
      BY <1>4, <3>1, <3>2 DEF Poll
  <2> QED
    BY <1>4, <2>1, <2>2
    DEF Poll, Sound, TypeOK, ActiveIsAlive, Named, CallNamed, TaskNamed, RestoreTypes, SeenTypes,
        center, disk, robot
<1> QED
  BY <1>1, <1>2, <1>3, <1>4

SyncStep ==
  \/ SubmitSync \/ ResumeSync \/ SyncStarts \/ SyncGets \/ SyncPosts \/ SyncAcknowledges
  \/ SyncEnds \/ SyncWakes \/ \E m \in Maps : SyncTakes(m)

\* The synchronisation keeps the types.
LEMMA SyncSound ==
  ASSUME Sound, Tombed, SyncStep \/ SyncFails
  PROVE  Sound'
<1>0. TypeOK /\ sync \in SyncTypes
  BY DEF Sound, TypeOK, SyncTypes
<1>1. Named'
  BY DEF SyncStep, SubmitSync, ResumeSync, SyncStarts, SyncGets, SyncPosts, SyncAcknowledges,
     SyncEnds, SyncWakes, SyncTakes, SyncFails, center, disk, robot, Sound, Named, CallNamed,
     TaskNamed
<1>2. CASE SubmitSync
  <2>1. sync' \in SyncTypes
    BY <1>0, <1>2 DEF SubmitSync, SyncTypes
  <2>2. holder' \in HolderTypes /\ inbox' \in Seq(RequestTypes)
    <3>1. PICK op \in {"load", "cancel", "deactivate", "start"} : Hold("sync", op, sync.map)
      BY <1>2, Zenon DEF SubmitSync
    <3>2. "sync" \in Jobs /\ sync.map \in Maps \cup {NoMap}
      BY <1>0 DEF Jobs, SyncTypes
    <3> QED
      BY <1>0, <3>1, <3>2, HoldTypes, Zenon
  <2>3. UNCHANGED <<center, link, gone, ready, task, restore, seen, disk, adapter, mission, faults>>
    BY <1>2, Zenon DEF SubmitSync
  <2> QED
    BY <1>1, <2>1, <2>2, <2>3
    DEF Sound, TypeOK, ActiveIsAlive, SyncTypes, HolderTypes, RequestTypes, center, disk
<1>3. CASE ResumeSync
  <2>1. sync' \in SyncTypes /\ files' \subseteq Maps
    BY <1>0, <1>3 DEF ResumeSync, SyncTypes, TypeOK
  <2>2. adapter' \in AdapterTypes /\ seen' \in SeenTypes
    <3>1. (sync.map # NoMap /\ holder.reply = "ok") \in BOOLEAN
      OBVIOUS
    <3>2. Looks(sync.map # NoMap /\ holder.reply = "ok")
      BY <1>3 DEF ResumeSync
    <3> QED
      BY <1>0, <3>1, <3>2, LooksTypes, Zenon
  <2>3. holder' \in HolderTypes
    BY <1>3, ConstantTypes DEF ResumeSync, Released
  <2>4. UNCHANGED <<center, link, gone, ready, task, restore, active, tomb, inbox, mission, faults>>
    BY <1>3, Zenon DEF ResumeSync
  <2>5. ActiveIsAlive'
    BY <2>4 DEF Sound, ActiveIsAlive
  <2>6. TypeOK'
    BY <1>0, <2>1, <2>2, <2>3, <2>4
    DEF TypeOK, SyncTypes, HolderTypes, AdapterTypes, SeenTypes, center
  <2> QED
    BY <1>1, <2>5, <2>6 DEF Sound
<1>4. CASE SyncStarts \/ SyncGets \/ SyncEnds \/ SyncWakes
  <2>1. sync' \in SyncTypes
    BY <1>0, <1>4, ZenonT(60) DEF SyncStarts, SyncGets, SyncEnds, SyncWakes, SyncTypes, Deleted
  <2>2. ready' \in BOOLEAN
    BY <1>0, <1>4, Zenon DEF SyncStarts, SyncGets, SyncEnds, SyncWakes, TypeOK
  <2> QED
    BY <1>1, <1>4, <2>1, <2>2
    DEF SyncStarts, SyncGets, SyncEnds, SyncWakes, Sound, TypeOK, ActiveIsAlive, SyncTypes, center,
        disk, robot
<1>5. CASE SyncPosts
  <2>1. sync' \in SyncTypes
    BY <1>0, <1>5 DEF SyncPosts, SyncTypes
  <2>2. /\ rows' \in [Maps -> {"none", "SYNCED", "DELETION_PENDING", "DELETED"}]
        /\ deletion' \in [Maps -> {"none", "DELETION_PENDING", "DELETED"}]
    BY <1>0, <1>5 DEF SyncPosts, TypeOK
  <2> QED
    BY <1>1, <1>5, <2>1, <2>2, SMTT(30) DEF SyncPosts, Sound, TypeOK, ActiveIsAlive, SyncTypes, disk, robot
<1>6. CASE SyncAcknowledges
  <2>1. sync' \in SyncTypes
    BY <1>0, <1>6 DEF SyncAcknowledges, SyncTypes
  <2>2. tomb' \in [Maps -> {"none", "DELETION_PENDING", "DELETED"}]
    BY <1>0, <1>6 DEF SyncAcknowledges, TypeOK
  <2>3. ActiveIsAlive'
    BY <1>0, <1>6 DEF SyncAcknowledges, Tombed, ActiveIsAlive, Sound, TypeOK
  <2> QED
    BY <1>1, <1>6, <2>1, <2>2, <2>3, SMTT(30) DEF SyncAcknowledges, Sound, TypeOK, SyncTypes, center, robot
<1>7. CASE \E m \in Maps : SyncTakes(m)
  <2> PICK m \in Maps : SyncTakes(m)
    BY <1>7
  <2>1. sync' \in SyncTypes /\ files' \subseteq Maps
    BY <1>0 DEF SyncTakes, SyncTypes, TypeOK
  <2>2. /\ tomb' \in [Maps -> {"none", "DELETION_PENDING", "DELETED"}]
        /\ active' \in Maps \cup {NoMap} /\ ActiveIsAlive'
    BY TombstoneTypes DEF SyncTakes
  <2> QED
    BY <1>1, <2>1, <2>2 DEF SyncTakes, Sound, TypeOK, SyncTypes, center, robot
<1>8. CASE SyncFails
  <2>1. sync' \in SyncTypes
    BY <1>0, <1>8 DEF SyncFails, SyncTypes
  <2>2. faults' \in 0 .. MaxFaults
    BY <1>0, <1>8 DEF SyncFails, Fault, TypeOK
  <2> QED
    BY <1>1, <1>8, <2>1, <2>2
    DEF SyncFails, Sound, TypeOK, ActiveIsAlive, SyncTypes, center, disk, robot
<1> QED
  BY <1>2, <1>3, <1>4, <1>5, <1>6, <1>7, <1>8 DEF SyncStep

\* What the adapter serves.
LEMMA ServeSound ==
  ASSUME Sound, Serve
  PROVE  Sound'
<1>1. inbox \in Seq(RequestTypes) /\ inbox # <<>> /\ adapter \in AdapterTypes
      /\ holder \in HolderTypes
  BY DEF Serve, Sound, TypeOK, RequestTypes, AdapterTypes, HolderTypes
<1> DEFINE r == Head(inbox)
           stack == IF adapter.up THEN adapter ELSE Fresh
<1>2. r \in RequestTypes /\ inbox' \in Seq(RequestTypes)
  BY <1>1 DEF Serve
<1>3. stack \in AdapterTypes
  BY <1>1, ConstantTypes
<1> HIDE DEF r, stack
<1>4. Effect(r, stack) \in AdapterTypes
  BY <1>2, <1>3 DEF Effect, RequestTypes, AdapterTypes
<1>5. MissionAfter(r) \in Maps \cup {NoMap}
  BY <1>2 DEF MissionAfter, RequestTypes, Sound, TypeOK
<1>6. ASSUME NEW answer \in {"ok", "bad"}, Reply(r, answer)
      PROVE  holder' \in HolderTypes
  BY <1>1, <1>6 DEF Reply, HolderTypes
<1>7. adapter' \in AdapterTypes /\ mission' \in Maps \cup {NoMap} /\ holder' \in HolderTypes
  BY <1>3, <1>4, <1>5, <1>6 DEF Serve, r, stack, Sound, TypeOK
<1> QED
  BY <1>2, <1>7
  DEF Serve, Sound, TypeOK, ActiveIsAlive, Named, CallNamed, TaskNamed, HolderTypes, AdapterTypes,
      RequestTypes, center, disk

\* Giving a request up takes its caller out of the socket, and nothing else.
LEMMA Forgotten ==
  ASSUME TypeOK, inbox' = [i \in DOMAIN inbox |-> [inbox[i] EXCEPT !.job = NoJob]]
  PROVE  inbox' \in Seq(RequestTypes) /\ \A i \in DOMAIN inbox' : inbox'[i].job = NoJob
<1>1. inbox \in Seq(RequestTypes)
  BY DEF TypeOK, RequestTypes
<1>2. DOMAIN inbox = 1 .. Len(inbox) /\ Len(inbox) \in Nat
      /\ \A i \in DOMAIN inbox : inbox[i] \in RequestTypes
  BY <1>1
<1>3. \A i \in DOMAIN inbox : [inbox[i] EXCEPT !.job = NoJob] \in RequestTypes
                           /\ [inbox[i] EXCEPT !.job = NoJob].job = NoJob
  BY <1>2 DEF RequestTypes
<1>4. inbox' \in [1 .. Len(inbox) -> RequestTypes] /\ DOMAIN inbox' = DOMAIN inbox
  BY <1>2, <1>3
<1>5. inbox' \in Seq(RequestTypes)
  BY <1>2, <1>4, SeqDef, ZenonT(30)
<1> QED
  BY <1>3, <1>4, <1>5

\* Connections, failures and what the adapter does by itself.
LEMMA TroubleSound ==
  ASSUME Sound, Tombed, Trouble \/ Connect \/ MissionResumes \/ MissionEnds
  PROVE  Sound'
<1>0. TypeOK
  BY DEF Sound
<1>1. CASE GivesUp
  <2>1. inbox' \in Seq(RequestTypes)
    BY <1>0, <1>1, Forgotten DEF GivesUp
  <2>2. holder' \in HolderTypes /\ seen' \in SeenTypes
    <3>1. holder \in HolderTypes /\ seen \in SeenTypes
      BY <1>0 DEF TypeOK, HolderTypes, SeenTypes
    <3> QED
      BY <1>1, <3>1 DEF GivesUp, HolderTypes, SeenTypes
  <2>3. faults' \in 0 .. MaxFaults
    BY <1>0, <1>1 DEF GivesUp, Fault, TypeOK
  <2> QED
    BY <1>1, <2>1, <2>2, <2>3
    DEF GivesUp, Sound, TypeOK, ActiveIsAlive, Named, CallNamed, TaskNamed, RequestTypes,
        HolderTypes, SeenTypes, center, disk
<1>2. CASE SyncFails
  BY <1>2, SyncSound
<1>3. CASE AdapterRestarts
  <2>1. holder' \in HolderTypes /\ faults' \in 0 .. MaxFaults
    BY <1>0, <1>3 DEF AdapterRestarts, Fault, TypeOK, HolderTypes
  <2>2. inbox' \in Seq(RequestTypes) /\ adapter' \in AdapterTypes
    BY <1>3, ConstantTypes DEF AdapterRestarts
  <2> QED
    BY <1>3, <2>1, <2>2
    DEF AdapterRestarts, Sound, TypeOK, ActiveIsAlive, Named, CallNamed, TaskNamed, RequestTypes,
        HolderTypes, AdapterTypes, center, disk
<1>4. CASE \E crash \in BOOLEAN : Disconnect(crash)
  <2> PICK crash \in BOOLEAN : Disconnect(crash)
    BY <1>4
  <2>1. inbox' \in Seq(RequestTypes)
    BY <1>0, Forgotten DEF Disconnect
  <2>2. call \in [Calls -> CallTypes] /\ task \in [Calls -> TaskTypes]
    BY <1>0 DEF TypeOK, CallTypes, TaskTypes
  <2>3. call' \in [Calls -> CallTypes]
    <3>1. \A c \in Calls : [call[c] EXCEPT !.pc = "done"] \in CallTypes
      BY <2>2 DEF CallTypes
    <3> QED
      BY <2>2, <3>1 DEF Disconnect
  <2>4. task' \in [Calls -> TaskTypes]
    <3>1. \A c \in Calls : [task[c] EXCEPT !.pc = "idle"] \in TaskTypes
      BY <2>2 DEF TaskTypes
    <3> QED
      BY <3>1 DEF Disconnect
  <2>5. /\ holder' \in HolderTypes /\ sync' \in SyncTypes /\ restore' \in RestoreTypes
        /\ seen' \in SeenTypes /\ faults' \in 0 .. MaxFaults
    <3>1. seen \in SeenTypes
      BY <1>0 DEF TypeOK, SeenTypes
    <3> QED
      BY <1>0, <3>1, ConstantTypes DEF Disconnect, Fault, TypeOK
  <2>6. Named'
    <3>1. \A c \in Calls : call'[c].map = call[c].map /\ task'[c].pc = "idle"
                           /\ (call[c].pc = "idle" => call'[c].pc = "idle")
      BY <2>2 DEF Disconnect, CallTypes, TaskTypes
    <3>2. restore'.pc = "idle"
      BY DEF Disconnect, Idle
    <3> QED
      BY <3>1, <3>2 DEF Sound, Named, CallNamed, TaskNamed
  <2> QED
    BY <2>1, <2>3, <2>4, <2>5, <2>6, ZenonT(60)
    DEF Disconnect, Sound, TypeOK, ActiveIsAlive, CallTypes, TaskTypes, HolderTypes, SyncTypes,
        RestoreTypes, SeenTypes, RequestTypes, disk
<1>5. CASE \E m \in Maps : CacheDecays(m)
  <2> PICK m \in Maps : CacheDecays(m)
    BY <1>5
  <2>1. files' \subseteq Maps /\ faults' \in 0 .. MaxFaults
    BY <1>0 DEF CacheDecays, Fault, TypeOK
  <2> QED
    BY <2>1
    DEF CacheDecays, Sound, TypeOK, ActiveIsAlive, Named, CallNamed, TaskNamed, center, edge, robot
<1>6. CASE Connect
  <2>1. sync' \in SyncTypes /\ gone' \subseteq Maps /\ link' \in BOOLEAN /\ ready' \in BOOLEAN
    BY <1>6, ConstantTypes DEF Connect, Deleted
  <2>2. UNCHANGED <<center, task, restore, holder, seen, disk, robot, faults>>
    BY <1>6 DEF Connect
  <2> QED
    BY <2>1, <2>2
    DEF Sound, TypeOK, ActiveIsAlive, Named, CallNamed, TaskNamed, SyncTypes,
        center, disk, robot
<1>7. CASE MissionResumes \/ MissionEnds
  <2>1. adapter' \in AdapterTypes /\ mission' \in Maps \cup {NoMap}
    <3>1. adapter \in AdapterTypes /\ mission \in Maps \cup {NoMap}
      BY <1>0 DEF TypeOK, AdapterTypes
    <3> QED
      BY <1>7, <3>1 DEF MissionResumes, MissionEnds, AdapterTypes
  <2> QED
    BY <1>7, <2>1
    DEF MissionResumes, MissionEnds, Sound, TypeOK, ActiveIsAlive, Named, CallNamed, TaskNamed,
        AdapterTypes, center, edge, disk
<1> QED
  BY <1>1, <1>2, <1>3, <1>4, <1>5, <1>6, <1>7 DEF Trouble

\* Every step keeps the types.
LEMMA SoundStep ==
  ASSUME Sound, Held, Tombed, [Next]_vars
  PROVE  Sound'
<1>1. CASE CenterStep
  BY <1>1, CenterTypes
<1>2. CASE EdgeStep
  BY <1>2, CommandsSound, RestoreSound, SyncSound DEF EdgeStep, SyncStep
<1>3. CASE Serve
  BY <1>3, ServeSound
<1>4. CASE Trouble \/ Connect \/ MissionResumes \/ MissionEnds
  BY <1>4, TroubleSound
<1>5. CASE UNCHANGED vars
  BY <1>5
  DEF vars, center, edge, disk, robot, Sound, TypeOK, ActiveIsAlive, Named, CallNamed, TaskNamed
<1> QED
  BY <1>1, <1>2, <1>3, <1>4, <1>5 DEF Next

-----------------------------------------------------------------------------
(* What the steps leave alone.                                             *)

\* A tombstone is never removed, and an acknowledged one stays acknowledged.
LEMMA TombsStay ==
  ASSUME Sound, Tombed, [Next]_vars, NEW m \in Maps
  PROVE  /\ tomb[m] # "none" => tomb'[m] # "none"
         /\ tomb[m] = "DELETED" => tomb'[m] = "DELETED"
<1>0. tomb \in [Maps -> {"none", "DELETION_PENDING", "DELETED"}]
  BY DEF Sound, TypeOK
<1>1. ASSUME NEW n, NEW status \in {"DELETION_PENDING", "DELETED"}, RecordTombstone(n, status)
      PROVE  /\ tomb[m] # "none" => tomb'[m] # "none"
             /\ tomb[m] = "DELETED" => tomb'[m] = "DELETED"
  BY <1>0, <1>1 DEF RecordTombstone
<1>2. CASE \E c \in Calls : ResumeCall(c)
  <2>1. (\E n : RecordTombstone(n, "DELETED")) \/ tomb' = tomb
    BY <1>2, Zenon DEF ResumeCall, disk
  <2> QED
    BY <1>1, <2>1
<1>3. CASE \E n \in Maps : SyncTakes(n)
  BY <1>1, <1>3 DEF SyncTakes
<1>4. CASE SyncAcknowledges
  BY <1>0, <1>4 DEF SyncAcknowledges
<1>5. CASE UNCHANGED tomb
  BY <1>5
<1> QED
  BY <1>2, <1>3, <1>4, <1>5, Zenon
  DEF Next, CenterStep, EdgeStep, Trouble, vars, disk, edge, Load, Delete, Start, LoadGoesOn,
      LoadCommits, DeleteCommits, CallEnds, Begin, Downloaded, SubmitCall, SubmitRestore,
      RestoreDownloads, ResumeRestore, Poll, SubmitSync, ResumeSync, SyncStarts, SyncGets,
      SyncPosts, SyncEnds, SyncWakes, Serve, Connect, MissionResumes, MissionEnds, GivesUp,
      SyncFails, AdapterRestarts, Disconnect, CacheDecays

\* Only a task that finds its map alive installs it.
LEMMA FilesGrow ==
  ASSUME Sound, [Next]_vars, NEW m \in Maps, m \in files', m \notin files
  PROVE  tomb[m] = "none" /\ tomb' = tomb
<1>1. CASE \E c \in Calls : Downloaded(c)
  BY <1>1 DEF Downloaded, Installs
<1>2. CASE RestoreDownloads
  BY <1>2 DEF RestoreDownloads, Installs
<1>3. files' \subseteq files \/ RestoreDownloads \/ \E c \in Calls : Downloaded(c)
  <2>1. CASE \E c \in Calls : ResumeCall(c)
    BY <2>1 DEF ResumeCall, disk
  <2>2. CASE ResumeSync \/ (\E n \in Maps : SyncTakes(n)) \/ \E n \in Maps : CacheDecays(n)
    BY <2>2 DEF ResumeSync, SyncTakes, CacheDecays
  <2>3. CASE UNCHANGED files
    BY <2>3
  <2> QED
    BY <2>1, <2>2, <2>3, Zenon
    DEF Next, CenterStep, EdgeStep, Trouble, vars, disk, edge, Load, Delete, Start, LoadGoesOn,
        LoadCommits, DeleteCommits, CallEnds, Begin, SubmitCall, SubmitRestore, ResumeRestore,
        Poll, SubmitSync, SyncStarts, SyncGets, SyncPosts, SyncAcknowledges, SyncEnds, SyncWakes,
        Serve, Connect, MissionResumes, MissionEnds, GivesUp, SyncFails, AdapterRestarts,
        Disconnect
<1> QED
  BY <1>1, <1>2, <1>3

\* Who may change what the synchronisation does.
LEMMA SyncFrame ==
  ASSUME [Next]_vars
  PROVE  \/ SyncStep \/ SyncFails \/ Connect \/ \E crash \in BOOLEAN : Disconnect(crash)
         \/ UNCHANGED <<sync, gone, ready>>
BY ZenonT(30)
DEF Next, CenterStep, EdgeStep, SyncStep, Trouble, vars, disk, edge, Load, Delete, Start,
    LoadGoesOn, LoadCommits, DeleteCommits, CallEnds, Begin, Downloaded, SubmitCall, ResumeCall,
    SubmitRestore, RestoreDownloads, ResumeRestore, Poll, Serve, MissionResumes, MissionEnds,
    GivesUp, AdapterRestarts, CacheDecays

\* Who may change a task or the request it belongs to.
CommandStep(c) ==
  \/ Begin(c) \/ Downloaded(c) \/ SubmitCall(c) \/ ResumeCall(c)

LEMMA TaskFrame ==
  ASSUME [Next]_vars
  PROVE  \/ CenterStep \/ (\E c \in Calls : CommandStep(c))
         \/ \E crash \in BOOLEAN : Disconnect(crash)
         \/ UNCHANGED <<call, task>>
BY Zenon
DEF Next, EdgeStep, CommandStep, Trouble, vars, center, edge, SubmitRestore, RestoreDownloads,
    ResumeRestore, Poll, SubmitSync, ResumeSync, SyncStarts, SyncGets, SyncPosts,
    SyncAcknowledges, SyncEnds, SyncWakes, SyncTakes, Serve, Connect, MissionResumes, MissionEnds,
    GivesUp, SyncFails, AdapterRestarts, CacheDecays

-----------------------------------------------------------------------------
(* Requests and tasks.                                                     *)

\* The other requests and their tasks are left alone.
Others(c) == \A d \in Calls \ {c} : call'[d] = call[d] /\ task'[d] = task[d]

\* A request gets a new task, over an open connection.
Asks(c) ==
  /\ call[c].pc = "idle" \/ (call[c].pc = "accepted" /\ call[c].kind = "load")
  /\ link /\ task'[c].pc = "new" /\ call'[c].map = task'[c].map
  /\ \/ /\ call'[c].kind = "load" /\ call'[c].pc \in {"stopping", "asked"}
        /\ task'[c].op \in {"cancel", "load"}
     \/ /\ call'[c].kind = "delete" /\ call'[c].pc = "asked" /\ task'[c].op = "deactivate"
     \/ /\ call'[c].kind = "start" /\ call'[c].pc = "asked" /\ task'[c].op = "start"
        /\ record[task'[c].map] = "active"

\* A step of the center asks for something, or is done with a request whose task goes on.
LEMMA CenterActs ==
  ASSUME Sound, CenterStep
  PROVE  \E c \in Calls :
           Others(c) /\ (Asks(c) \/ (task' = task /\ call'[c].pc = "done"))
<1>0. call \in [Calls -> CallTypes] /\ task \in [Calls -> TaskTypes]
  BY DEF Sound, TypeOK, CallTypes, TaskTypes
<1>1. ASSUME NEW c \in Calls, NEW kind, NEW m, NEW pc, NEW op, Ask(c, kind, m, pc, op),
             link,
             call[c].pc = "idle" \/ (call[c].pc = "accepted" /\ call[c].kind = "load"),
             \/ kind = "load" /\ pc \in {"stopping", "asked"} /\ op \in {"cancel", "load"}
             \/ kind = "delete" /\ pc = "asked" /\ op = "deactivate"
             \/ kind = "start" /\ pc = "asked" /\ op = "start" /\ record[m] = "active"
      PROVE  Others(c) /\ Asks(c)
  <2>1. /\ call'[c] = [kind |-> kind, map |-> m, pc |-> pc]
        /\ task'[c] = [pc |-> "new", op |-> op, map |-> m]
    BY <1>0, <1>1 DEF Ask
  <2>2. Others(c)
    BY <1>0, <1>1 DEF Ask, Others
  <2> QED
    BY <1>1, <2>1, <2>2 DEF Asks
<1>2. ASSUME NEW c \in Calls, task' = task,
             \/ call' = [call EXCEPT ![c].pc = "done"]
             \/ \E m : call' = [call EXCEPT ![c] = [kind |-> "delete", map |-> m, pc |-> "done"]]
      PROVE  Others(c) /\ call'[c].pc = "done"
  BY <1>0, <1>2 DEF CallTypes, Others
<1>3. CASE \E c \in Calls, m \in Maps : Load(c, m)
  <2> PICK c \in Calls, m \in Maps : Load(c, m)
    BY <1>3
  <2>1. \/ Ask(c, "load", m, "stopping", "cancel") \/ Ask(c, "load", m, "asked", "load")
    BY DEF Load
  <2>2. call[c].pc = "idle" /\ link
    BY DEF Load
  <2>3. Others(c) /\ Asks(c)
    BY <1>1, <2>1, <2>2, Zenon
  <2> QED
    BY <2>3
<1>4. CASE \E c \in Calls, m \in Maps : Start(c, m)
  <2> PICK c \in Calls, m \in Maps : Start(c, m)
    BY <1>4
  <2>1. Ask(c, "start", m, "asked", "start") /\ call[c].pc = "idle" /\ link /\ record[m] = "active"
    BY DEF Start
  <2>2. Others(c) /\ Asks(c)
    BY <1>1, <2>1, Zenon
  <2> QED
    BY <2>2
<1>5. CASE \E c \in Calls, m \in Maps : Delete(c, m)
  <2> PICK c \in Calls, m \in Maps : Delete(c, m)
    BY <1>5
  <2>1. CASE assigned = m /\ link
    <3>1. Ask(c, "delete", m, "asked", "deactivate") /\ call[c].pc = "idle" /\ link
      BY <2>1 DEF Delete
    <3>2. Others(c) /\ Asks(c)
      BY <1>1, <3>1, Zenon
    <3> QED
      BY <3>2
  <2>2. CASE ~(assigned = m /\ link)
    <3>1. /\ task' = task
          /\ call' = [call EXCEPT ![c] = [kind |-> "delete", map |-> m, pc |-> "done"]]
      BY <2>2 DEF Delete
    <3> QED
      BY <1>2, <3>1
  <2> QED
    BY <2>1, <2>2
<1>6. CASE \E c \in Calls : LoadGoesOn(c)
  <2> PICK c \in Calls : LoadGoesOn(c)
    BY <1>6
  <2>1. CASE link
    <3>1. /\ Ask(c, "load", call[c].map, "asked", "load") /\ link
          /\ call[c].pc = "accepted" /\ call[c].kind = "load"
      BY <2>1 DEF LoadGoesOn
    <3>2. Others(c) /\ Asks(c)
      BY <1>1, <3>1
    <3> QED
      BY <3>2
  <2>2. CASE ~link
    BY <1>2, <2>2 DEF LoadGoesOn
  <2> QED
    BY <2>1, <2>2
<1>7. CASE \E c \in Calls : LoadCommits(c) \/ DeleteCommits(c) \/ CallEnds(c)
  <2> PICK c \in Calls : LoadCommits(c) \/ DeleteCommits(c) \/ CallEnds(c)
    BY <1>7
  <2>1. call' = [call EXCEPT ![c].pc = "done"] /\ task' = task
    BY DEF LoadCommits, DeleteCommits, CallEnds, edge
  <2> QED
    BY <1>2, <2>1
<1> QED
  BY <1>3, <1>4, <1>5, <1>6, <1>7 DEF CenterStep

\* A task starts its work, or ends with an answer to a request that still waits for it.
LEMMA CommandActs ==
  ASSUME Sound, NEW c \in Calls, CommandStep(c)
  PROVE  /\ Others(c) /\ task'[c].op = task[c].op /\ task'[c].map = task[c].map
         /\ call'[c].kind = call[c].kind /\ call'[c].map = call[c].map
         /\ \/ call' = call /\ task[c].pc # "idle"
            \/ /\ task'[c].pc = "idle"
               /\ \/ call'[c].pc = call[c].pc /\ call[c].pc \notin {"asked", "stopping"}
                  \/ call[c].pc \in {"asked", "stopping"} /\ call'[c].pc = "refused"
                  \/ /\ call[c].pc \in {"asked", "stopping"} /\ call'[c].pc = "accepted"
                     /\ ResumeCall(c) /\ holder.reply = "ok"
<1>0. call \in [Calls -> CallTypes] /\ task \in [Calls -> TaskTypes]
  BY DEF Sound, TypeOK, CallTypes, TaskTypes
<1>1. ASSUME NEW pc, task' = [task EXCEPT ![c].pc = pc], call' = call
      PROVE  /\ Others(c) /\ task'[c].op = task[c].op /\ task'[c].map = task[c].map
             /\ call'[c].kind = call[c].kind /\ call'[c].map = call[c].map
  BY <1>0, <1>1 DEF Others, TaskTypes
<1>2. ASSUME NEW result, Finish(c, result)
      PROVE  /\ Others(c) /\ task'[c].op = task[c].op /\ task'[c].map = task[c].map
             /\ call'[c].kind = call[c].kind /\ call'[c].map = call[c].map
             /\ task'[c].pc = "idle"
             /\ \/ call'[c].pc = call[c].pc /\ call[c].pc \notin {"asked", "stopping"}
                \/ call[c].pc \in {"asked", "stopping"} /\ call'[c].pc = result
  BY <1>0, <1>2 DEF Finish, Answer, Others, TaskTypes, CallTypes
<1>3. CASE Begin(c)
  <2>1. \/ Finish(c, "refused")
        \/ call' = call /\ task[c].pc = "new" /\ \E pc : task' = [task EXCEPT ![c].pc = pc]
    BY <1>3 DEF Begin
  <2> QED
    BY <1>1, <1>2, <2>1
<1>4. CASE Downloaded(c)
  BY <1>1, <1>2, <1>4 DEF Downloaded
<1>5. CASE SubmitCall(c)
  BY <1>1, <1>5 DEF SubmitCall, center
<1>6. CASE ResumeCall(c)
  <2>1. \/ Finish(c, "refused")
        \/ Finish(c, "accepted") /\ holder.reply = "ok"
    BY <1>6, Zenon DEF ResumeCall
  <2> QED
    BY <1>2, <1>6, <2>1
<1> QED
  BY <1>3, <1>4, <1>5, <1>6 DEF CommandStep

\* A closed connection leaves every task idle, and no request waiting.
LEMMA DisconnectActs ==
  ASSUME Sound, NEW crash \in BOOLEAN, Disconnect(crash), NEW c \in Calls
  PROVE  /\ task'[c].pc = "idle" /\ task'[c].op = task[c].op /\ task'[c].map = task[c].map
         /\ call'[c].kind = call[c].kind /\ call'[c].map = call[c].map
         /\ \/ call'[c].pc = call[c].pc /\ call[c].pc \notin {"asked", "stopping"}
            \/ call'[c].pc = "done"
<1>0. call \in [Calls -> CallTypes] /\ task \in [Calls -> TaskTypes]
  BY DEF Sound, TypeOK, CallTypes, TaskTypes
<1> QED
  BY <1>0 DEF Disconnect, CallTypes, TaskTypes

\* The lock of the backend changes hands through its owner.
LEMMA HolderActs ==
  ASSUME Sound, [Next]_vars
  PROVE  \/ holder'.job \in {holder.job, NoJob}
         \/ \E c \in Calls : SubmitCall(c) /\ holder'.job = c
         \/ SubmitRestore /\ holder'.job = "restore"
         \/ SubmitSync /\ holder'.job = "sync"
<1>0. holder \in HolderTypes
  BY DEF Sound, TypeOK, HolderTypes
<1>1. CASE \E c \in Calls : SubmitCall(c)
  <2> PICK c \in Calls : SubmitCall(c)
    BY <1>1
  <2>1. holder'.job = c
    BY DEF SubmitCall, Hold
  <2> QED
    BY <2>1
<1>2. CASE SubmitRestore
  BY <1>2 DEF SubmitRestore, Hold
<1>3. CASE SubmitSync
  BY <1>3 DEF SubmitSync, Hold
<1>4. CASE (\E c \in Calls : ResumeCall(c)) \/ ResumeRestore \/ ResumeSync
  <2>1. holder' = Unheld
    BY <1>4, Zenon DEF ResumeCall, ResumeRestore, ResumeSync, Released
  <2> QED
    BY <2>1 DEF Unheld
<1>5. CASE Serve
  <2>1. holder' = holder \/ \E answer : holder' = [holder EXCEPT !.reply = answer]
    BY <1>5 DEF Serve, Reply
  <2> QED
    BY <1>0, <2>1 DEF HolderTypes
<1>6. CASE GivesUp \/ AdapterRestarts
  BY <1>0, <1>6 DEF GivesUp, AdapterRestarts, HolderTypes
<1>7. CASE \E crash \in BOOLEAN : Disconnect(crash)
  BY <1>7 DEF Disconnect, Unheld
<1>8. CASE UNCHANGED holder
  BY <1>8
<1> QED
  BY <1>1, <1>2, <1>3, <1>4, <1>5, <1>6, <1>7, <1>8, Zenon
  DEF Next, CenterStep, EdgeStep, Trouble, vars, edge, Load, Delete, Start, LoadGoesOn,
      LoadCommits, DeleteCommits, CallEnds, Begin, Downloaded, RestoreDownloads, Poll, SyncStarts,
      SyncGets, SyncPosts, SyncAcknowledges, SyncEnds, SyncWakes, SyncTakes, Connect,
      MissionResumes, MissionEnds, SyncFails, CacheDecays

\* A task that waits for the adapter waits until it is given its answer, or its connection goes.
LEMMA CallerWaits ==
  ASSUME Sound, Held, [Next]_vars, NEW c \in Calls, task[c].pc = "calling",
         task'[c].pc # "calling"
  PROVE  holder'.job = NoJob \/ holder.job # c
<1>0. /\ call \in [Calls -> CallTypes] /\ task \in [Calls -> TaskTypes]
  BY DEF Sound, TypeOK, CallTypes, TaskTypes
<1>1. CASE CenterStep
  <2>1. PICK d \in Calls : Others(d) /\ (Asks(d) \/ (task' = task /\ call'[d].pc = "done"))
    BY <1>1, CenterActs
  <2>2. d = c /\ Asks(c)
    BY <2>1 DEF Others
  <2> QED
    BY <2>2 DEF Asks, Held
<1>2. CASE \E d \in Calls : CommandStep(d)
  <2>1. PICK d \in Calls : CommandStep(d)
    BY <1>2
  <2>2. d = c
    BY <2>1, CommandActs DEF Others
  <2>3. ResumeCall(c)
    BY <2>1, <2>2 DEF CommandStep, Begin, Downloaded, SubmitCall
  <2> QED
    BY <2>3 DEF ResumeCall, Released, Unheld
<1>3. CASE \E crash \in BOOLEAN : Disconnect(crash)
  BY <1>3 DEF Disconnect, Unheld
<1> QED
  BY <1>1, <1>2, <1>3, TaskFrame

\* Whoever holds the lock keeps waiting.
LEMMA HeldStep ==
  ASSUME Sound, Held, Offline, [Next]_vars
  PROVE  Held'
<1>0. /\ call \in [Calls -> CallTypes] /\ task \in [Calls -> TaskTypes]
      /\ restore \in RestoreTypes /\ sync \in SyncTypes
  BY DEF Sound, TypeOK, CallTypes, TaskTypes, RestoreTypes, SyncTypes
<1>1. ASSUME NEW c \in Calls
      PROVE  task'[c].pc # "idle" => call'[c].pc \in {"asked", "stopping", "done"}
  <2>1. CASE CenterStep
    <3>1. PICK d \in Calls : Others(d) /\ (Asks(d) \/ (task' = task /\ call'[d].pc = "done"))
      BY <2>1, CenterActs
    <3>2. CASE d = c
      BY <3>1, <3>2 DEF Asks
    <3>3. CASE d # c
      BY <3>1, <3>3 DEF Others, Held
    <3> QED
      BY <3>2, <3>3
  <2>2. CASE \E d \in Calls : CommandStep(d)
    <3>1. PICK d \in Calls : CommandStep(d)
      BY <2>2
    <3>2. Others(d) /\ ((call' = call /\ task[d].pc # "idle") \/ task'[d].pc = "idle")
      BY <3>1, CommandActs
    <3> QED
      BY <3>2 DEF Others, Held
  <2>3. CASE \E crash \in BOOLEAN : Disconnect(crash)
    BY <2>3, DisconnectActs
  <2>4. CASE UNCHANGED <<call, task>>
    BY <2>4 DEF Held
  <2> QED
    BY <2>1, <2>2, <2>3, <2>4, TaskFrame
<1>2. ASSUME NEW c \in Calls, holder'.job = c
      PROVE  task'[c].pc = "calling"
  <2>1. c # NoJob /\ c # "sync" /\ c # "restore"
    OBVIOUS
  <2>2. CASE holder.job = c
    BY <1>2, <2>1, <2>2, CallerWaits DEF Held
  <2>3. CASE SubmitCall(c)
    BY <1>0, <2>3 DEF SubmitCall
  <2> QED
    BY <1>2, <2>1, <2>2, <2>3, HolderActs
<1>3. ASSUME holder'.job = "restore"
      PROVE  restore'.pc = "calling"
  <2>1. "restore" # NoJob /\ "restore" \notin Calls
    OBVIOUS
  <2>2. CASE SubmitRestore
    BY <1>0, <2>2 DEF SubmitRestore, RestoreTypes
  <2>3. CASE holder.job = "restore"
    <3>1. restore.pc = "calling"
      BY <2>3 DEF Held
    <3>2. CASE ResumeRestore \/ \E crash \in BOOLEAN : Disconnect(crash)
      <4>1. holder' = Unheld
        BY <3>2, Zenon DEF ResumeRestore, Released, Disconnect
      <4> QED
        BY <1>3, <2>1, <4>1 DEF Unheld
    <3>3. CASE UNCHANGED restore
      BY <3>1, <3>3
    <3>4. CASE SubmitRestore \/ RestoreDownloads \/ Poll
      BY <3>1, <3>4 DEF SubmitRestore, RestoreDownloads, Poll
    <3> QED
      BY <3>2, <3>3, <3>4, Zenon
      DEF Next, CenterStep, EdgeStep, Trouble, vars, edge, Load, Delete, Start, LoadGoesOn,
          LoadCommits, DeleteCommits, CallEnds, Begin, Downloaded, SubmitCall, ResumeCall,
          SubmitSync, ResumeSync, SyncStarts, SyncGets, SyncPosts, SyncAcknowledges, SyncEnds,
          SyncWakes, SyncTakes, Serve, Connect, MissionResumes, MissionEnds, GivesUp, SyncFails,
          AdapterRestarts, CacheDecays
  <2> QED
    BY <1>3, <2>1, <2>2, <2>3, HolderActs
<1>4. ASSUME holder'.job = "sync"
      PROVE  sync'.pc = "calling"
  <2>1. "sync" # NoJob /\ "sync" \notin Calls
    OBVIOUS
  <2>2. CASE SubmitSync
    BY <1>0, <2>2 DEF SubmitSync, SyncTypes
  <2>3. CASE holder.job = "sync"
    <3>1. sync.pc = "calling"
      BY <2>3 DEF Held
    <3>2. CASE SyncStep
      <4>1. ResumeSync
        BY <3>1, <3>2
        DEF SyncStep, SubmitSync, SyncStarts, SyncGets, SyncPosts, SyncAcknowledges, SyncEnds,
            SyncWakes, SyncTakes
      <4> QED
        BY <1>4, <2>1, <4>1 DEF ResumeSync, Released, Unheld
    <3>3. CASE SyncFails
      BY <3>1, <3>3 DEF SyncFails
    <3>4. CASE Connect
      BY <1>4, <2>1, <2>3, <3>4 DEF Connect, Offline, Unheld
    <3>5. CASE \E crash \in BOOLEAN : Disconnect(crash)
      BY <1>4, <2>1, <3>5 DEF Disconnect, Unheld
    <3>6. CASE UNCHANGED sync
      BY <3>1, <3>6
    <3> QED
      BY <3>2, <3>3, <3>4, <3>5, <3>6, SyncFrame
  <2> QED
    BY <1>4, <2>1, <2>2, <2>3, HolderActs
<1> QED
  BY <1>1, <1>2, <1>3, <1>4 DEF Held

\* The tombstone comes first, and stays.
LEMMA TombedStep ==
  ASSUME Sound, Held, Tombed, [Next]_vars
  PROVE  Tombed'
<1>0. /\ sync \in SyncTypes /\ NoMap \notin Maps
      /\ \A m \in Maps : tomb[m] # "none" => tomb'[m] # "none"
  BY TombsStay DEF Sound, TypeOK, SyncTypes
<1>1. CASE SyncStep
  <2>1. CASE \E m \in Maps : SyncTakes(m)
    <3> PICK m \in Maps : SyncTakes(m)
      BY <2>1
    <3>1. tomb'[m] # "none" /\ sync'.map = m
      BY <1>0, TombstoneTypes DEF SyncTakes, SyncTypes
    <3>2. sync'.pc # "quiesce"
      BY <1>0 DEF SyncTakes, SyncTypes
    <3> QED
      BY <3>1, <3>2 DEF Tombed
  <2>2. CASE SubmitSync \/ ResumeSync \/ SyncPosts
    <3>1. sync'.map = sync.map /\ sync'.pc # "quiesce"
      BY <1>0, <2>2 DEF SubmitSync, ResumeSync, SyncPosts, SyncTypes
    <3>2. CASE SubmitSync
      BY <1>0, <3>1, <3>2 DEF SubmitSync, Tombed
    <3>3. CASE ResumeSync
      <4>1. sync.pc = "calling"
        BY <3>3 DEF ResumeSync, Released, Held
      <4> QED
        BY <1>0, <3>1, <3>3, <4>1 DEF ResumeSync, SyncTypes, Tombed
    <3>4. CASE SyncPosts
      BY <1>0, <3>1, <3>4 DEF SyncPosts, Tombed
    <3> QED
      BY <2>2, <3>2, <3>3, <3>4
  <2>3. CASE SyncStarts \/ SyncGets \/ SyncAcknowledges \/ SyncEnds \/ SyncWakes
    BY <1>0, <2>3
    DEF SyncStarts, SyncGets, SyncAcknowledges, SyncEnds, SyncWakes, SyncTypes, Tombed
  <2> QED
    BY <1>1, <2>1, <2>2, <2>3 DEF SyncStep
<1>2. CASE SyncFails
  BY <1>0, <1>2 DEF SyncFails, SyncTypes, Tombed
<1>3. CASE Connect \/ \E crash \in BOOLEAN : Disconnect(crash)
  BY <1>3 DEF Connect, Disconnect, Off, Tombed
<1>4. CASE UNCHANGED <<sync, gone, ready>>
  BY <1>0, <1>4 DEF Tombed
<1> QED
  BY <1>1, <1>2, <1>3, <1>4, SyncFrame

\* A closed connection is quiet.
LEMMA OfflineStep ==
  ASSUME Sound, Held, Offline, [Next]_vars
  PROVE  Offline'
<1>0. TypeOK /\ inbox \in Seq(RequestTypes)
  BY DEF Sound, TypeOK, RequestTypes
<1>1. CASE \E crash \in BOOLEAN : Disconnect(crash)
  <2> PICK crash \in BOOLEAN : Disconnect(crash)
    BY <1>1
  <2>1. \A i \in DOMAIN inbox' : inbox'[i].job = NoJob
    BY <1>0, Forgotten DEF Disconnect
  <2>2. \A c \in Calls : task'[c].pc = "idle"
    BY DisconnectActs
  <2> QED
    BY <2>1, <2>2 DEF Disconnect, Offline, Off, Idle
<1>2. CASE link'
  BY <1>2 DEF Offline
<1>3. ASSUME ~link, ~link', ~\E crash \in BOOLEAN : Disconnect(crash)
      PROVE  Offline'
  <2>1. /\ holder = Unheld /\ sync.pc = "off" /\ restore.pc = "idle"
        /\ \A c \in Calls : task[c].pc = "idle"
        /\ \A i \in DOMAIN inbox : inbox[i].job = NoJob
    BY <1>3 DEF Offline
  <2>2. \A c \in Calls : ~CommandStep(c)
    <3> SUFFICES ASSUME NEW c \in Calls, CommandStep(c)
                 PROVE  FALSE
      OBVIOUS
    <3>1. task[c].pc # "idle"
      BY <2>1 DEF CommandStep, Begin, Downloaded, SubmitCall, ResumeCall, Released, Unheld
    <3> QED
      BY <2>1, <3>1
  <2>3. ~(SubmitRestore \/ RestoreDownloads \/ ResumeRestore \/ Poll)
    BY <1>3, <2>1
    DEF SubmitRestore, RestoreDownloads, ResumeRestore, Poll, Released, Unheld
  <2>4. ~(SyncStep \/ SyncFails \/ GivesUp \/ Connect)
    BY <1>3, <2>1
    DEF SyncStep, SubmitSync, ResumeSync, SyncStarts, SyncGets, SyncPosts, SyncAcknowledges,
        SyncEnds, SyncWakes, SyncTakes, SyncFails, GivesUp, Connect, Released, Unheld
  <2>5. \A c \in Calls : task'[c].pc = "idle"
    <3>1. CASE CenterStep
      <4>1. PICK c \in Calls : Others(c) /\ (Asks(c) \/ (task' = task /\ call'[c].pc = "done"))
        BY <3>1, CenterActs
      <4> QED
        BY <1>3, <2>1, <4>1 DEF Asks
    <3> QED
      BY <1>3, <2>1, <2>2, <3>1, TaskFrame
  <2>6. CASE Serve
    <3>1. inbox # <<>> /\ Head(inbox).job = NoJob
      BY <1>0, <2>1, <2>6 DEF Serve
    <3>2. holder' = holder
      BY <2>6, <3>1, Zenon DEF Serve, Reply
    <3>3. inbox' = Tail(inbox)
      BY <2>6 DEF Serve
    <3>4. \A i \in DOMAIN inbox' : inbox'[i].job = NoJob
      BY <1>0, <2>1, <3>1, <3>3
    <3> QED
      BY <2>1, <2>5, <2>6, <3>2, <3>4 DEF Serve, Offline
  <2>7. CASE AdapterRestarts
    <3>1. holder' = holder
      BY <2>1, <2>7 DEF AdapterRestarts, Unheld
    <3>2. DOMAIN inbox' = {}
      BY <2>7 DEF AdapterRestarts
    <3> QED
      BY <2>1, <2>5, <2>7, <3>1, <3>2 DEF AdapterRestarts, Offline
  <2>8. CASE UNCHANGED <<holder, sync, restore, inbox>>
    BY <2>1, <2>5, <2>8 DEF Offline
  <2> QED
    BY <1>3, <2>2, <2>3, <2>4, <2>6, <2>7, <2>8, Zenon
    DEF Next, CenterStep, EdgeStep, CommandStep, SyncStep, Trouble, vars, edge, robot, Load,
        Delete, Start, LoadGoesOn, LoadCommits, DeleteCommits, CallEnds, MissionResumes,
        MissionEnds, CacheDecays
<1>4. link => link' \/ \E crash \in BOOLEAN : Disconnect(crash)
  BY Zenon
  DEF Next, CenterStep, EdgeStep, Trouble, vars, Load, Delete, Start, LoadGoesOn, LoadCommits,
      DeleteCommits, CallEnds, Begin, Downloaded, SubmitCall, ResumeCall, SubmitRestore,
      RestoreDownloads, ResumeRestore, Poll, SubmitSync, ResumeSync, SyncStarts, SyncGets,
      SyncPosts, SyncAcknowledges, SyncEnds, SyncWakes, SyncTakes, Serve, Connect, MissionResumes,
      MissionEnds, GivesUp, SyncFails, AdapterRestarts, CacheDecays
<1> QED
  BY <1>1, <1>2, <1>3, <1>4

-----------------------------------------------------------------------------

Working == Sound /\ Held /\ Tombed /\ Offline

LEMMA WorkingInvariant == Spec => []Working
<1>1. Init => Working
  <2> SUFFICES ASSUME Init
               PROVE  Working
    OBVIOUS
  <2>1. TypeOK
    <3>1. Unheld \in HolderTypes /\ Unknown \in SeenTypes /\ Off \in SyncTypes
          /\ Idle \in TaskTypes /\ Idle \in RestoreTypes /\ Fresh \in AdapterTypes
      BY ConstantTypes
    <3>2. <<>> \in Seq(RequestTypes)
      OBVIOUS
    <3>3. /\ call \in [Calls -> CallTypes] /\ task \in [Calls -> TaskTypes]
          /\ restore \in RestoreTypes /\ sync \in SyncTypes /\ holder \in HolderTypes
          /\ seen \in SeenTypes /\ inbox \in Seq(RequestTypes) /\ adapter \in AdapterTypes
      BY <3>1, <3>2 DEF Init, CallTypes
    <3>4. /\ record \in [Maps -> {"active", "deleted"}]
          /\ deletion \in [Maps -> {"none", "DELETION_PENDING", "DELETED"}]
          /\ rows \in [Maps -> {"none", "SYNCED", "DELETION_PENDING", "DELETED"}]
          /\ tomb \in [Maps -> {"none", "DELETION_PENDING", "DELETED"}]
      BY DEF Init
    <3>5. /\ assigned \in Maps \cup {NoMap} /\ active \in Maps \cup {NoMap}
          /\ mission \in Maps \cup {NoMap} /\ link \in BOOLEAN /\ ready \in BOOLEAN
          /\ gone \subseteq Maps /\ files \subseteq Maps
      BY Zenon DEF Init
    <3>6. faults \in 0 .. MaxFaults
      BY DEF Init
    <3> QED
      BY <3>3, <3>4, <3>5, <3>6
      DEF TypeOK, CallTypes, HolderTypes, SeenTypes, SyncTypes, TaskTypes, RestoreTypes, AdapterTypes,
          RequestTypes
  <2>2. Sound
    BY <2>1 DEF Init, Sound, ActiveIsAlive, Named, CallNamed, TaskNamed, Idle
  <2>3. Held /\ Tombed /\ Offline
    BY DEF Init, Held, Tombed, Offline, Unheld, Off, Idle
  <2> QED
    BY <2>2, <2>3 DEF Working
<1>2. Working /\ [Next]_vars => Working'
  BY SoundStep, HeldStep, TombedStep, OfflineStep DEF Working
<1> QED
  BY <1>1, <1>2, PTL DEF Spec

\* Every variable keeps its type: requests, tasks, the queue of the adapter's socket, the
\* registry on the disk and the status the edge last saw.
THEOREM TypeCorrect == Spec => []TypeOK
<1>1. Working => TypeOK
  BY DEF Working, Sound
<1> QED
  BY <1>1, WorkingInvariant, PTL

-----------------------------------------------------------------------------
(* A deletion that is booked is done.                                      *)

\* An accepted deletion has its tombstone.
LEMMA PromisedStep ==
  ASSUME Working, Promised, [Next]_vars
  PROVE  Promised'
<1> SUFFICES ASSUME NEW c \in Calls, call'[c].kind = "delete"
             PROVE  /\ call'[c].pc = "asked" =>
                         task'[c].op = "deactivate" /\ task'[c].map = call'[c].map
                    /\ call'[c].pc = "accepted" => tomb'[call'[c].map] = "DELETED"
                    /\ call'[c].pc # "stopping"
  BY DEF Promised
<1>0. Sound /\ Tombed /\ tomb \in [Maps -> {"none", "DELETION_PENDING", "DELETED"}]
  BY DEF Working, Sound, TypeOK
<1>1. ASSUME call[c].kind = "delete", call[c].pc = "accepted"
      PROVE  tomb'[call[c].map] = "DELETED"
  <2>1. call[c].map \in Maps /\ tomb[call[c].map] = "DELETED"
    BY <1>0, <1>1 DEF Sound, Named, CallNamed, Promised
  <2> QED
    BY <1>0, <2>1, TombsStay
<1>2. CASE CenterStep
  <2>1. PICK d \in Calls : Others(d) /\ (Asks(d) \/ (task' = task /\ call'[d].pc = "done"))
    BY <1>0, <1>2, CenterActs
  <2>2. CASE d = c
    BY <2>1, <2>2 DEF Asks
  <2>3. CASE d # c
    BY <1>1, <2>1, <2>3 DEF Others, Promised
  <2> QED
    BY <2>2, <2>3
<1>3. CASE \E d \in Calls : CommandStep(d)
  <2>1. PICK d \in Calls : CommandStep(d)
    BY <1>3
  <2>2. CASE d # c
    <3>1. Others(d)
      BY <1>0, <2>1, CommandActs
    <3> QED
      BY <1>1, <2>2, <3>1 DEF Others, Promised
  <2>3. CASE d = c /\ call' = call
    <3>1. task'[c].op = task[c].op /\ task'[c].map = task[c].map
      BY <1>0, <2>1, <2>3, CommandActs
    <3> QED
      BY <1>1, <2>3, <3>1 DEF Promised
  <2>4. CASE d = c /\ call' # call
    <3>1. /\ call'[c].kind = call[c].kind /\ call'[c].map = call[c].map
          /\ \/ call'[c].pc = call[c].pc /\ call[c].pc \notin {"asked", "stopping"}
             \/ call'[c].pc = "refused"
             \/ /\ call[c].pc \in {"asked", "stopping"} /\ call'[c].pc = "accepted"
                /\ ResumeCall(c) /\ holder.reply = "ok"
      BY <1>0, <2>1, <2>4, CommandActs
    <3>2. CASE ResumeCall(c) /\ holder.reply = "ok" /\ call[c].pc \in {"asked", "stopping"}
               /\ call'[c].pc = "accepted"
      <4>1. task[c].op = "deactivate" /\ task[c].map = call[c].map /\ task[c].map \in Maps
        BY <1>0, <3>1, <3>2 DEF Promised, Sound, Named, CallNamed
      <4>2. RecordTombstone(task[c].map, "DELETED")
        BY <3>2, <4>1 DEF ResumeCall
      <4>3. tomb'[task[c].map] = "DELETED"
        BY <1>0, <4>1, <4>2 DEF RecordTombstone
      <4> QED
        BY <3>1, <3>2, <4>1, <4>3
    <3> QED
      BY <1>1, <3>1, <3>2 DEF Promised
  <2> QED
    BY <2>2, <2>3, <2>4
<1>4. CASE \E crash \in BOOLEAN : Disconnect(crash)
  <2>1. /\ call'[c].kind = call[c].kind /\ call'[c].map = call[c].map
        /\ \/ call'[c].pc = call[c].pc /\ call[c].pc \notin {"asked", "stopping"}
           \/ call'[c].pc = "done"
    BY <1>0, <1>4, DisconnectActs
  <2> QED
    BY <1>1, <2>1
<1>5. CASE UNCHANGED <<call, task>>
  BY <1>1, <1>5 DEF Promised
<1> QED
  BY <1>2, <1>3, <1>4, <1>5, TaskFrame

\* What the synchronisation is about to acknowledge has been removed, and is not installed again.
LEMMA PurgedStep ==
  ASSUME Working, Purged, [Next]_vars
  PROVE  Purged'
<1>0. Sound /\ Held /\ Tombed /\ sync \in SyncTypes /\ files \subseteq Maps
  BY DEF Working, Sound, TypeOK, SyncTypes
<1>1. ASSUME sync.pc \in {"post", "posted"}
      PROVE  sync.map \notin files'
  <2>1. sync.map \in Maps /\ tomb[sync.map] # "none" /\ sync.map \notin files
    BY <1>0, <1>1 DEF Tombed, Purged
  <2> QED
    BY <1>0, <2>1, FilesGrow
<1>2. CASE SyncStep
  <2>1. CASE \E m \in Maps : SyncTakes(m)
    <3> PICK m \in Maps : SyncTakes(m)
      BY <2>1
    <3>1. sync'.map = m /\ (sync'.pc = "post" => m \notin files') /\ sync'.pc # "posted"
      BY <1>0 DEF SyncTakes, SyncTypes
    <3> QED
      BY <3>1 DEF Purged
  <2>2. CASE ResumeSync
    <3>1. sync'.map = sync.map /\ sync'.pc # "posted"
          /\ (sync'.pc = "post" => files' = files \ {sync.map})
      BY <1>0, <2>2 DEF ResumeSync, SyncTypes
    <3> QED
      BY <3>1 DEF Purged
  <2>3. CASE SyncPosts
    BY <1>0, <1>1, <2>3 DEF SyncPosts, SyncTypes, Purged
  <2>4. CASE SubmitSync \/ SyncStarts \/ SyncGets \/ SyncAcknowledges \/ SyncEnds \/ SyncWakes
    <3>1. sync'.pc \notin {"post", "posted"}
      BY <1>0, <2>4
      DEF SubmitSync, SyncStarts, SyncGets, SyncAcknowledges, SyncEnds, SyncWakes, SyncTypes
    <3> QED
      BY <3>1 DEF Purged
  <2> QED
    BY <1>2, <2>1, <2>2, <2>3, <2>4 DEF SyncStep
<1>3. CASE SyncFails
  BY <1>0, <1>3 DEF SyncFails, SyncTypes, Purged
<1>4. CASE Connect \/ \E crash \in BOOLEAN : Disconnect(crash)
  BY <1>4 DEF Connect, Disconnect, Off, Purged
<1>5. CASE UNCHANGED <<sync, gone, ready>>
  BY <1>1, <1>5 DEF Purged
<1> QED
  BY <1>2, <1>3, <1>4, <1>5, SyncFrame

\* Whatever books a deletion books one that is done.
LEMMA Books ==
  ASSUME Working, Promised, Purged, DeletionIsTrue, [Next]_vars, NEW m \in Maps,
         \/ rows[m] # "DELETED" /\ rows'[m] = "DELETED"
         \/ tomb[m] # "DELETED" /\ tomb'[m] = "DELETED"
  PROVE  m \notin files' /\ tomb'[m] # "none"
<1>0. /\ Sound /\ Tombed
      /\ tomb \in [Maps -> {"none", "DELETION_PENDING", "DELETED"}]
      /\ rows \in [Maps -> {"none", "SYNCED", "DELETION_PENDING", "DELETED"}]
  BY DEF Working, Sound, TypeOK
<1>1. ASSUME tomb[m] # "none", m \notin files
      PROVE  m \notin files' /\ tomb'[m] # "none"
  BY <1>0, <1>1, TombsStay, FilesGrow
<1>2. CASE \E c \in Calls : ResumeCall(c)
  <2> PICK c \in Calls : ResumeCall(c)
    BY <1>2
  <2>1. rows' = rows
    BY DEF ResumeCall
  <2>2. \/ RecordTombstone(task[c].map, "DELETED") /\ files' = files \ {task[c].map}
        \/ tomb' = tomb
    BY Zenon DEF ResumeCall, disk
  <2> QED
    BY <1>0, <2>1, <2>2 DEF RecordTombstone
<1>3. CASE \E n \in Maps : SyncTakes(n)
  BY <1>0, <1>3 DEF SyncTakes, RecordTombstone, center
<1>4. CASE SyncPosts
  <2>1. m = sync.map /\ sync.pc = "post"
    BY <1>0, <1>4 DEF SyncPosts, disk
  <2> QED
    BY <1>0, <1>1, <2>1 DEF Purged, Tombed
<1>5. CASE SyncAcknowledges
  <2>1. m = sync.map /\ sync.pc = "posted"
    BY <1>0, <1>5 DEF SyncAcknowledges, center
  <2> QED
    BY <1>0, <1>1, <2>1 DEF Purged, Tombed
<1>6. CASE \E c \in Calls : DeleteCommits(c)
  <2> PICK c \in Calls : DeleteCommits(c)
    BY <1>6
  <2>1. tomb' = tomb /\ rows'[m] = "DELETED" /\ rows[m] # "DELETED"
    BY DEF DeleteCommits, disk
  <2>2. m = call[c].map /\ call[c].pc = "accepted" /\ call[c].kind = "delete"
    BY <1>0, <2>1 DEF DeleteCommits, Tombstoned
  <2>3. tomb[m] = "DELETED"
    BY <2>2 DEF Promised
  <2> QED
    BY <1>1, <2>3 DEF DeletionIsTrue
<1>7. CASE (\E c \in Calls, n \in Maps : Delete(c, n)) \/ \E c \in Calls : LoadCommits(c)
  BY <1>0, <1>7 DEF Delete, Tombstoned, LoadCommits, disk
<1>8. CASE UNCHANGED <<rows, tomb>>
  BY <1>8
<1> QED
  BY <1>2, <1>3, <1>4, <1>5, <1>6, <1>7, <1>8, Zenon
  DEF Next, CenterStep, EdgeStep, Trouble, vars, center, disk, edge, Load, Start, LoadGoesOn,
      CallEnds, Begin, Downloaded, SubmitCall, SubmitRestore, RestoreDownloads, ResumeRestore,
      Poll, SubmitSync, ResumeSync, SyncStarts, SyncGets, SyncEnds, SyncWakes, Serve, Connect,
      MissionResumes, MissionEnds, GivesUp, SyncFails, AdapterRestarts, Disconnect, CacheDecays

Deleting == Working /\ Promised /\ Purged /\ DeletionIsTrue

\* A deletion that the center books as done for the robot, or the edge as acknowledged, is done:
\* the map is off the disk, is not active and has a tombstone, whatever download, load or restore
\* of it was under way and wherever a connection, a call or an acknowledgement was lost.
THEOREM DeletionIsDone == Spec => []DeletionIsTrue
<1>1. Init => Promised /\ Purged /\ DeletionIsTrue
  BY DEF Init, Promised, Purged, DeletionIsTrue, Off
<1>2. Deleting /\ Working' /\ [Next]_vars => Deleting'
  <2> SUFFICES ASSUME Deleting, Working', [Next]_vars
               PROVE  Deleting'
    OBVIOUS
  <2>1. Promised' /\ Purged'
    BY PromisedStep, PurgedStep DEF Deleting
  <2>2. ASSUME NEW m \in Maps, rows'[m] = "DELETED" \/ tomb'[m] = "DELETED"
        PROVE  m \notin files' /\ active' # m /\ tomb'[m] # "none"
    <3>1. m \notin files' /\ tomb'[m] # "none"
      <4>1. CASE rows[m] = "DELETED" \/ tomb[m] = "DELETED"
        <5>1. m \notin files /\ tomb[m] # "none" /\ Sound /\ Tombed
          BY <4>1 DEF Deleting, DeletionIsTrue, Working
        <5> QED
          BY <5>1, TombsStay, FilesGrow
      <4>2. CASE ~(rows[m] = "DELETED" \/ tomb[m] = "DELETED")
        BY <2>2, <4>2, Books DEF Deleting
      <4> QED
        BY <4>1, <4>2
    <3>2. active' # m
      BY <3>1 DEF Working, Sound, ActiveIsAlive
    <3> QED
      BY <3>1, <3>2
  <2> QED
    BY <2>1, <2>2 DEF Deleting, DeletionIsTrue
<1>3. Deleting => DeletionIsTrue
  BY DEF Deleting
<1>4. Working /\ Promised /\ Purged /\ DeletionIsTrue => Deleting
  BY DEF Deleting
<1> QED
  BY <1>1, <1>2, <1>3, <1>4, WorkingInvariant, PTL DEF Spec

-----------------------------------------------------------------------------
(* The reconnect barrier.                                                  *)

\* A deleted map stays deleted, and what was gone is fixed when the connection is opened.
LEMMA DeletedStays ==
  ASSUME Sound, [Next]_vars
  PROVE  /\ Deleted \subseteq Deleted'
         /\ gone' = gone \/ (Connect /\ gone' = Deleted')
<1>0. record \in [Maps -> {"active", "deleted"}]
  BY DEF Sound, TypeOK
<1>1. ASSUME NEW m, NEW affected, NEW acked, Tombstoned(m, affected, acked)
      PROVE  Deleted \subseteq Deleted'
  BY <1>0, <1>1 DEF Tombstoned, Deleted
<1>2. Deleted \subseteq Deleted'
  <2>1. CASE UNCHANGED record
    BY <2>1 DEF Deleted
  <2>2. CASE \E c \in Calls : DeleteCommits(c)
    BY <1>1, <2>2 DEF DeleteCommits
  <2>3. CASE \E c \in Calls, m \in Maps : Delete(c, m)
    <3>1. UNCHANGED record \/ \E m, affected : Tombstoned(m, affected, FALSE)
      BY <2>3, Zenon DEF Delete
    <3> QED
      BY <1>1, <2>1, <3>1
  <2> QED
    BY <2>1, <2>2, <2>3, Zenon
    DEF Next, CenterStep, EdgeStep, Trouble, vars, center, disk, edge, Load, Start, LoadGoesOn,
        LoadCommits, CallEnds, Begin, Downloaded, SubmitCall, ResumeCall, SubmitRestore,
        RestoreDownloads, ResumeRestore, Poll, SubmitSync, ResumeSync, SyncStarts, SyncGets,
        SyncPosts, SyncAcknowledges, SyncTakes, SyncEnds, SyncWakes, Serve, Connect,
        MissionResumes, MissionEnds, GivesUp, SyncFails, AdapterRestarts, Disconnect, CacheDecays
<1>3. gone' = gone \/ Connect
  BY Zenon
  DEF Next, CenterStep, EdgeStep, Trouble, vars, disk, edge, Load, Delete, Start, LoadGoesOn,
      LoadCommits, DeleteCommits, CallEnds, Begin, Downloaded, SubmitCall, ResumeCall,
      SubmitRestore, RestoreDownloads, ResumeRestore, Poll, SubmitSync, ResumeSync, SyncStarts,
      SyncGets, SyncPosts, SyncAcknowledges, SyncTakes, SyncEnds, SyncWakes, Serve,
      MissionResumes, MissionEnds, GivesUp, SyncFails, AdapterRestarts, Disconnect, CacheDecays
<1>4. Connect => gone' = Deleted'
  BY DEF Connect, Deleted, center
<1> QED
  BY <1>2, <1>3, <1>4

\* A round of the synchronisation takes every map that was gone before it opens the barrier.
LEMMA BarrierStep ==
  ASSUME Working, Barrier, [Next]_vars
  PROVE  Barrier'
<1>0. /\ Sound /\ Held /\ Tombed /\ sync \in SyncTypes /\ gone \subseteq Maps
      /\ NoMap \notin Maps
  BY DEF Working, Sound, TypeOK, SyncTypes
<1>1. \A m \in gone : tomb[m] # "none" => tomb'[m] # "none"
  BY <1>0, TombsStay
<1>2. gone' \subseteq Deleted'
  BY <1>0, DeletedStays DEF Barrier
<1>3. CASE SyncStep
  <2>0. gone' = gone
    BY <1>0, <1>3, DeletedStays
    DEF SyncStep, Connect, SubmitSync, ResumeSync, SyncStarts, SyncGets, SyncPosts,
        SyncAcknowledges, SyncEnds, SyncWakes, SyncTakes
  <2>1. CASE \E m \in Maps : SyncTakes(m)
    <3> PICK m \in Maps : SyncTakes(m)
      BY <2>1
    <3>1. tomb'[m] # "none"
      BY <1>0, TombstoneTypes DEF SyncTakes
    <3>2. sync'.todo = sync.todo \ {m} /\ sync.pc = "items" /\ ready' = ready
      BY <1>0 DEF SyncTakes, SyncTypes
    <3>3. \A n \in gone : n \in sync'.todo \/ tomb'[n] # "none"
      BY <1>1, <3>1, <3>2 DEF Barrier
    <3> QED
      BY <1>1, <1>2, <2>0, <3>2, <3>3 DEF Barrier
  <2>2. CASE SubmitSync \/ ResumeSync \/ SyncPosts \/ SyncAcknowledges
    <3>1. sync'.todo = sync.todo /\ ready' = ready
      BY <1>0, <2>2 DEF SubmitSync, ResumeSync, SyncPosts, SyncAcknowledges, SyncTypes
    <3>2. CASE SubmitSync
      <4>1. sync'.map = sync.map /\ (sync.map # NoMap => sync.pc = "deactivate")
            /\ sync'.pc = "calling"
        BY <1>0, <3>2 DEF SubmitSync, Tombed, SyncTypes
      <4> QED
        BY <1>1, <1>2, <2>0, <3>1, <4>1 DEF Barrier
    <3>3. CASE ResumeSync
      <4>1. sync.pc = "calling"
        BY <1>0, <3>3 DEF ResumeSync, Released, Held
      <4>2. sync.map = NoMap => sync'.pc \in {"get", "rest"}
        BY <1>0, <3>3 DEF ResumeSync, SyncTypes
      <4>3. sync'.pc # "calling"
        BY <1>0, <3>3 DEF ResumeSync, SyncTypes
      <4> QED
        BY <1>1, <1>2, <2>0, <3>1, <4>1, <4>2, <4>3 DEF Barrier
    <3>4. CASE SyncPosts \/ SyncAcknowledges
      <4>1. sync.pc \in {"post", "posted"}
        BY <3>4 DEF SyncPosts, SyncAcknowledges
      <4> QED
        BY <1>1, <1>2, <2>0, <3>1, <4>1 DEF Barrier
    <3> QED
      BY <2>2, <3>2, <3>3, <3>4
  <2>3. CASE SyncGets
    <3>1. sync'.todo = Deleted /\ ready' = ready
      BY <1>0, <2>3 DEF SyncGets, SyncTypes, Deleted
    <3> QED
      BY <1>1, <1>2, <2>0, <3>1 DEF Barrier
  <2>4. CASE SyncEnds
    <3>1. sync'.pc = "rest" /\ sync.pc = "items" /\ sync.todo = {}
      BY <1>0, <2>4 DEF SyncEnds, SyncTypes
    <3> QED
      BY <1>1, <1>2, <2>0, <3>1 DEF Barrier
  <2>5. CASE SyncStarts \/ SyncWakes
    <3>1. sync'.pc \in {"quiesce", "get", "start"} /\ ready' = ready
      BY <1>0, <2>5 DEF SyncStarts, SyncWakes, SyncTypes
    <3> QED
      BY <1>1, <1>2, <2>0, <3>1 DEF Barrier
  <2> QED
    BY <1>3, <2>1, <2>2, <2>3, <2>4, <2>5 DEF SyncStep
<1>4. CASE SyncFails
  <2>1. /\ gone' = gone /\ ready' = ready /\ sync'.todo = sync.todo
        /\ sync'.pc \in {"rest", "items"} /\ (sync'.pc = "items" => sync.pc \in {"post", "posted"})
    BY <1>0, <1>4 DEF SyncFails, SyncTypes
  <2> QED
    BY <1>1, <1>2, <2>1 DEF Barrier
<1>5. CASE Connect
  <2>1. ready' = FALSE /\ sync'.pc = "start"
    BY <1>5 DEF Connect, Off
  <2> QED
    BY <1>2, <2>1 DEF Barrier
<1>6. CASE \E crash \in BOOLEAN : Disconnect(crash)
  <2>1. gone' = gone /\ ready' = ready /\ sync'.pc = "off"
    BY <1>6 DEF Disconnect, Off
  <2> QED
    BY <1>1, <1>2, <2>1 DEF Barrier
<1>7. CASE UNCHANGED <<sync, gone, ready>>
  BY <1>1, <1>2, <1>7 DEF Barrier
<1> QED
  BY <1>3, <1>4, <1>5, <1>6, <1>7, SyncFrame

\* No task of a connection carries a map on that was gone when it was opened.
LEMMA CurrentStep ==
  ASSUME Working, Barrier, Current, [Next]_vars
  PROVE  Current'
<1>0. /\ Sound /\ Held /\ Offline /\ gone \subseteq Maps /\ restore \in RestoreTypes
      /\ task \in [Calls -> TaskTypes] /\ NoMap \notin Maps
  BY DEF Working, Sound, TypeOK, RestoreTypes, TaskTypes
<1>1. CASE Connect
  <2>1. restore.pc = "idle" /\ \A c \in Calls : task[c].pc = "idle"
    BY <1>0, <1>1 DEF Connect, Offline
  <2> QED
    BY <1>1, <2>1 DEF Connect, Current
<1>2. CASE gone' = gone
  <2>1. ASSUME NEW c \in Calls, task'[c].map \in gone
        PROVE  /\ task'[c].op = "start" => task'[c].pc = "idle"
               /\ task'[c].op = "load" => task'[c].pc \in {"idle", "new"}
    <3>1. CASE CenterStep
      <4>1. PICK d \in Calls : Others(d) /\ (Asks(d) \/ (task' = task /\ call'[d].pc = "done"))
        BY <1>0, <3>1, CenterActs
      <4>2. CASE d = c /\ Asks(c)
        BY <2>1, <4>2 DEF Asks, Barrier, Deleted
      <4>3. CASE task'[c] = task[c]
        BY <2>1, <4>3 DEF Current
      <4> QED
        BY <4>1, <4>2, <4>3 DEF Others
    <3>2. CASE \E d \in Calls : CommandStep(d)
      <4>1. PICK d \in Calls : CommandStep(d)
        BY <3>2
      <4>2. CASE d # c
        <5>1. task'[c] = task[c]
          BY <1>0, <4>1, <4>2, CommandActs DEF Others
        <5> QED
          BY <2>1, <5>1 DEF Current
      <4>3. CASE d = c
        <5>1. task'[c].op = task[c].op /\ task'[c].map = task[c].map
          BY <1>0, <4>1, <4>3, CommandActs
        <5>2. /\ task[c].op = "start" => task[c].pc = "idle"
              /\ task[c].op = "load" => task[c].pc \in {"idle", "new"}
          BY <2>1, <5>1 DEF Current
        <5>3. CASE task[c].op \in {"load", "start"}
          <6>1. task[c].pc # "idle"
            BY <1>0, <4>1, <4>3
            DEF CommandStep, Begin, Downloaded, SubmitCall, ResumeCall, Released, Held
          <6>2. task[c].op = "load" /\ Begin(c)
            BY <1>0, <4>1, <4>3, <5>2, <5>3, <6>1
            DEF CommandStep, Downloaded, SubmitCall, ResumeCall, Released, Held
          <6>3. ~(Permitted(task[c].op) /\ Ensured(task[c].map) # "error")
            BY <2>1, <5>1, <6>2 DEF Permitted, Ensured, Barrier
          <6>4. task' = [task EXCEPT ![c].pc = "idle"]
            BY <6>2, <6>3 DEF Begin, Finish
          <6> QED
            BY <1>0, <6>4
        <5> QED
          BY <5>1, <5>3
      <4> QED
        BY <4>2, <4>3
    <3>3. CASE \E crash \in BOOLEAN : Disconnect(crash)
      BY <1>0, <3>3, DisconnectActs
    <3>4. CASE UNCHANGED <<call, task>>
      BY <2>1, <3>4 DEF Current
    <3> QED
      BY <3>1, <3>2, <3>3, <3>4, TaskFrame
  <2>2. ASSUME restore'.map \in gone
        PROVE  restore'.pc = "idle"
    <3>1. CASE UNCHANGED restore
      BY <2>2, <3>1 DEF Current
    <3>2. CASE Poll
      <4>1. CASE /\ active # NoMap /\ ready
                 /\ restore' = [pc |-> Ensured(active), op |-> "load", map |-> active]
        <5>1. active \in Maps /\ tomb[active] = "none"
          BY <1>0, <4>1 DEF Sound, TypeOK, ActiveIsAlive
        <5> QED
          BY <2>2, <4>1, <5>1 DEF Barrier
      <4> QED
        BY <3>1, <3>2, <4>1 DEF Poll
    <3>3. CASE SubmitRestore \/ RestoreDownloads
      <4>1. restore' = Idle \/ (restore'.map = restore.map /\ restore.pc # "idle")
        BY <1>0, <3>3 DEF SubmitRestore, RestoreDownloads, RestoreTypes
      <4> QED
        BY <2>2, <4>1 DEF Idle, Current
    <3>4. CASE ResumeRestore \/ \E crash \in BOOLEAN : Disconnect(crash)
      <4>1. restore' = Idle
        BY <3>4, Zenon DEF ResumeRestore, Disconnect
      <4> QED
        BY <4>1 DEF Idle
    <3> QED
      BY <3>1, <3>2, <3>3, <3>4, Zenon
      DEF Next, CenterStep, EdgeStep, Trouble, vars, edge, Load, Delete, Start, LoadGoesOn,
          LoadCommits, DeleteCommits, CallEnds, Begin, Downloaded, SubmitCall, ResumeCall,
          SubmitSync, ResumeSync, SyncStarts, SyncGets, SyncPosts, SyncAcknowledges, SyncTakes,
          SyncEnds, SyncWakes, Serve, Connect, MissionResumes, MissionEnds, GivesUp, SyncFails,
          AdapterRestarts, CacheDecays
  <2> QED
    BY <1>2, <2>1, <2>2 DEF Current
<1> QED
  BY <1>0, <1>1, <1>2, DeletedStays

\* What reaches the socket of the adapter is the map of a task that is current.
LEMMA ServedStep ==
  ASSUME Working, Current, GoneIsNotServed, [Next]_vars
  PROVE  GoneIsNotServed'
<1>0. /\ Sound /\ Offline /\ inbox \in Seq(RequestTypes) /\ restore \in RestoreTypes
      /\ task \in [Calls -> TaskTypes] /\ TypeOK
  BY DEF Working, Sound, TypeOK, RestoreTypes, TaskTypes, RequestTypes
<1>1. CASE Connect
  <2>1. inbox' = inbox /\ \A i \in DOMAIN inbox : inbox[i].job = NoJob
    BY <1>0, <1>1 DEF Connect, Offline, robot
  <2> QED
    BY <2>1 DEF GoneIsNotServed
<1>2. CASE gone' = gone
  <2>1. ASSUME NEW j \in Jobs, NEW op, NEW m, Hold(j, op, m),
               op \in {"load", "start"} => m \notin gone
        PROVE  GoneIsNotServed'
    <3> DEFINE q == Request(op, m, j)
    <3>1. q.op = op /\ q.map = m
      BY DEF Request
    <3> HIDE DEF q
    <3>2. inbox' = Append(inbox, q)
      BY <2>1 DEF Hold, q
    <3>3. \A i \in DOMAIN inbox' : (i \in DOMAIN inbox /\ inbox'[i] = inbox[i]) \/ inbox'[i] = q
      BY <1>0, <3>2
    <3> QED
      BY <1>2, <2>1, <3>1, <3>3 DEF GoneIsNotServed
  <2>2. CASE \E c \in Calls : SubmitCall(c)
    <3> PICK c \in Calls : SubmitCall(c)
      BY <2>2
    <3>1. Hold(c, task[c].op, task[c].map) /\ c \in Jobs /\ task[c].pc = "exec"
      BY DEF SubmitCall, Jobs
    <3>2. task[c].op \in {"load", "start"} => task[c].map \notin gone
      BY <3>1 DEF Current
    <3> QED
      BY <2>1, <3>1, <3>2
  <2>3. CASE SubmitRestore
    <3>1. Hold("restore", "load", restore.map) /\ "restore" \in Jobs /\ restore.map \notin gone
      BY <2>3 DEF SubmitRestore, Jobs, Current
    <3> QED
      BY <2>1, <3>1
  <2>4. CASE SubmitSync
    <3>1. PICK op \in {"cancel", "deactivate"} : Hold("sync", op, sync.map)
      BY <2>4, Zenon DEF SubmitSync
    <3>2. "sync" \in Jobs /\ op \notin {"load", "start"}
      BY DEF Jobs
    <3> QED
      BY <2>1, <3>1, <3>2
  <2>5. CASE Serve
    <3>1. inbox' = Tail(inbox) /\ inbox # <<>>
      BY <2>5 DEF Serve
    <3>2. \A i \in DOMAIN inbox' : i + 1 \in DOMAIN inbox /\ inbox'[i] = inbox[i + 1]
      BY <1>0, <3>1
    <3> QED
      BY <1>2, <3>2 DEF GoneIsNotServed
  <2>6. CASE GivesUp \/ \E crash \in BOOLEAN : Disconnect(crash)
    <3>1. \A i \in DOMAIN inbox' : inbox'[i].job = NoJob
      BY <1>0, <2>6, Forgotten DEF GivesUp, Disconnect
    <3> QED
      BY <3>1 DEF GoneIsNotServed
  <2>7. CASE AdapterRestarts
    <3>1. DOMAIN inbox' = {}
      BY <2>7 DEF AdapterRestarts
    <3> QED
      BY <3>1 DEF GoneIsNotServed
  <2>8. CASE UNCHANGED inbox
    BY <1>2, <2>8 DEF GoneIsNotServed
  <2> QED
    BY <1>1, <2>2, <2>3, <2>4, <2>5, <2>6, <2>7, <2>8, Zenon
    DEF Next, CenterStep, EdgeStep, Trouble, vars, robot, Load, Delete, Start, LoadGoesOn,
        LoadCommits, DeleteCommits, CallEnds, Begin, Downloaded, ResumeCall, RestoreDownloads,
        ResumeRestore, Poll, ResumeSync, SyncStarts, SyncGets, SyncPosts, SyncAcknowledges,
        SyncTakes, SyncEnds, SyncWakes, MissionResumes, MissionEnds, SyncFails, CacheDecays
<1> QED
  BY <1>0, <1>1, <1>2, DeletedStays

Serving == Working /\ Barrier /\ Current /\ GoneIsNotServed

\* The reconnect barrier holds for every number of maps, requests and lost connections: no task
\* of a connection asks the stack to load, or to drive on, a map that was deleted before the
\* connection was opened.
THEOREM GoneStaysAway == Spec => []GoneIsNotServed
<1>1. Init => Barrier /\ Current /\ GoneIsNotServed
  BY DEF Init, Barrier, Current, GoneIsNotServed, Off, Idle
<1>2. Serving /\ Working' /\ [Next]_vars => Serving'
  BY BarrierStep, CurrentStep, ServedStep DEF Serving
<1>3. Serving => GoneIsNotServed
  BY DEF Serving
<1>4. Working /\ Barrier /\ Current /\ GoneIsNotServed => Serving
  BY DEF Serving
<1> QED
  BY <1>1, <1>2, <1>3, <1>4, WorkingInvariant, PTL DEF Spec

=============================================================================
