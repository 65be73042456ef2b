----------------------- MODULE MappingAndSafetyProofs -----------------------
(***************************************************************************)
(* Theorems about two components that share no state: a mapping session    *)
(* (Mapping), for every number of sessions, requests and faults, and the   *)
(* safety stop of the vehicle (MotionSafety), for every set of directions, *)
(* sources and commands and for every value of the limits.                 *)
(*                                                                         *)
(* Of Mapping: that the stacks do not overlap is inductive together with   *)
(* what the supervisor has stopped before it starts a stack.  That SLAM    *)
(* follows the adapter's state needs to know from which states a command   *)
(* arrives, which job holds the operation lock and how the autosave left   *)
(* SLAM.  That an acknowledged save is not lost needs every answer traced  *)
(* to the job that earned it.                                              *)
(***************************************************************************)
EXTENDS Mapping, MotionSafety, FiniteSetTheorems, TLAPS

-----------------------------------------------------------------------------
(* Mapping: types.                                                         *)

Modes == {"MAPPING", "NAVIGATION"}
Names == Ops \cup {"none", "start", "load", "pause"}
Numbers == Sessions \cup {0}
Callers == Calls \cup {NoCall}
Statuses == {"none", "IDLE", "READY", "STARTING", "LOCALIZING", "RUNNING", "SAVING", "STOPPED",
             "PAUSED", "FINISHED", "CANCELED", "ERROR", "FAULT", "RESET"}
Contents == {"none", "survey", "blank", "invalid"}
Records == {"none", "new", "saved", "deleted"}
AskTypes == [op : Names, s : Numbers, pc : {"idle", "asked", "answered", "left", "done"},
             ok : BOOLEAN, st : Statuses]
TaskTypes == [pc : {"idle", "new", "again", "saved", "queue"}, op : Names, exp : Statuses]
HoldTypes == [c : Callers, pc : {"none", "ensure", "wait", "calling", "replied"}, ok : BOOLEAN,
              st : Statuses, id : 0 .. 5]
JobTypes == [op : Names, s : Numbers, c : Callers, exp : Statuses, begun : BOOLEAN]
StackTypes == [mode : Modes \cup {"none"}, reach : BOOLEAN, st : Statuses, own : Numbers,
               graph : SUBSET Numbers, paused : BOOLEAN, doubt : BOOLEAN, job : JobTypes]

MapTypeOK ==
  /\ row \in [Sessions -> Statuses] /\ record \in [Sessions -> Records]
  /\ stored \in [Sessions -> Contents]
  /\ ask \in [Calls -> AskTypes] /\ task \in [Calls -> TaskTypes]
  /\ hold \in HoldTypes /\ seen \in [mode : Modes \cup {"none"}, st : Statuses]
  /\ request \in [mode : Modes, id : 1 .. 5]
  /\ status \in [id : 0 .. 5, res : {"READY", "SWITCHING", "FAULT"}]
  /\ sup \in [pc : {"idle", "check", "stop", "up", "await"}, id : 0 .. 5, mode : Modes]
  /\ running \subseteq Modes
  /\ rt \in StackTypes
  /\ autosave \in {"idle", "paused", "frozen"}
  /\ gen \subseteq Numbers /\ bundle \in [Sessions -> Contents] /\ marker \subseteq Numbers
  /\ faults \in Nat

\* What is there at the start, and after something has ended.
LEMMA ConstantTypes ==
  /\ NoAsk \in AskTypes /\ Served \in AskTypes /\ NoTask \in TaskTypes
  /\ NoJob \in JobTypes /\ Free \in HoldTypes
  /\ NoStack \in StackTypes /\ \A m \in Modes : Fresh(m) \in StackTypes
<1>1. NoAsk \in AskTypes /\ Served \in AskTypes /\ NoTask \in TaskTypes
  BY DEF NoAsk, Served, NoTask, AskTypes, TaskTypes, Names, Numbers, Statuses
<1>2. NoJob \in JobTypes /\ Free \in HoldTypes
  BY DEF NoJob, Free, JobTypes, HoldTypes, Names, Numbers, Statuses, Callers
<1>3. NoStack \in StackTypes
  BY <1>2 DEF NoStack, StackTypes, Statuses, Numbers, Modes
<1>4. ASSUME NEW m \in Modes PROVE Fresh(m) \in StackTypes
  BY <1>3, <1>4 DEF Fresh, StackTypes, Statuses, Modes
<1> QED
  BY <1>1, <1>2, <1>3, <1>4

\* Four ids are in use at most, so that a fifth is free.
LEMMA IdTypes == ASSUME MapTypeOK PROVE NewId \in 1 .. 5
<1>1. request.id \in 0 .. 5 /\ status.id \in 0 .. 5 /\ sup.id \in 0 .. 5 /\ hold.id \in 0 .. 5
  BY DEF MapTypeOK, HoldTypes
<1>2. \E i \in 1 .. 5 : i \notin {request.id, status.id, sup.id, hold.id}
  BY <1>1
<1> QED
  BY <1>2 DEF NewId

LEMMA InitTypes == Init => MapTypeOK
  BY ConstantTypes DEF Init, MapTypeOK, Sessions, Modes, Statuses, Contents, Records

\* Records with some fields replaced.
LEMMA HoldWaits ==
  ASSUME NEW h \in HoldTypes, NEW pc \in {"wait", "calling"}, NEW id \in 0 .. 5
  PROVE  [h EXCEPT !.pc = pc, !.id = id] \in HoldTypes
BY DEF HoldTypes

LEMMA HoldReplies ==
  ASSUME NEW h \in HoldTypes, NEW ok \in BOOLEAN, NEW st \in Statuses
  PROVE  [h EXCEPT !.pc = "replied", !.ok = ok, !.st = st] \in HoldTypes
BY DEF HoldTypes

LEMMA TaskAgain ==
  ASSUME NEW t \in TaskTypes
  PROVE  [t EXCEPT !.pc = "again", !.exp = "RUNNING"] \in TaskTypes
BY DEF TaskTypes, Statuses

LEMMA StackEnds ==
  ASSUME NEW r \in StackTypes, NEW st \in Statuses, NEW j \in JobTypes
  PROVE  /\ [r EXCEPT !.st = st, !.job = j] \in StackTypes
         /\ \A g \in SUBSET Numbers : [r EXCEPT !.st = st, !.job = j, !.graph = g] \in StackTypes
         /\ \A p, d \in BOOLEAN :
              [r EXCEPT !.st = st, !.paused = p, !.job = j, !.doubt = d] \in StackTypes
BY DEF StackTypes

LEMMA StackDoubts ==
  ASSUME NEW r \in StackTypes, NEW j \in JobTypes, NEW d \in BOOLEAN
  PROVE  /\ [r EXCEPT !.job = j, !.doubt = d] \in StackTypes
         /\ [r EXCEPT !.doubt = d, !.job = j] \in StackTypes
         /\ \A p \in BOOLEAN : [r EXCEPT !.paused = p, !.doubt = d, !.job = j] \in StackTypes
BY DEF StackTypes

LEMMA FaultTypes == ASSUME MapTypeOK, Fault PROVE faults' \in Nat
BY DEF MapTypeOK, Fault

LEMMA AskStep ==
  ASSUME MapTypeOK, NEW c \in Calls, NEW op \in Names, NEW s \in Numbers, NEW exp \in Statuses,
         Ask(c, op, s, exp)
  PROVE  ask' \in [Calls -> AskTypes] /\ task' \in [Calls -> TaskTypes]
<1>1. [op |-> op, s |-> s, pc |-> "asked", ok |-> FALSE, st |-> "none"] \in AskTypes
  BY DEF AskTypes, Statuses
<1>2. [pc |-> "new", op |-> op, exp |-> exp] \in TaskTypes
  BY DEF TaskTypes
<1> QED
  BY <1>1, <1>2 DEF Ask, MapTypeOK

LEMMA RespondStep ==
  ASSUME MapTypeOK, NEW c \in Calls, NEW ok \in BOOLEAN, NEW st \in Statuses, Respond(c, ok,
         st)
  PROVE  ask' \in [Calls -> AskTypes] /\ task' \in [Calls -> TaskTypes]
<1>1. [ask[c] EXCEPT !.pc = "answered", !.ok = ok, !.st = st] \in AskTypes
  <2>1. ask[c] \in AskTypes
    BY DEF MapTypeOK
  <2> QED
    BY <2>1 DEF AskTypes
<1> QED
  BY <1>1, ConstantTypes DEF Respond, MapTypeOK

LEMMA CenterTypes == ASSUME MapTypeOK, NEW c \in Calls, CenterStep(c) PROVE MapTypeOK'
<1>1. ASSUME Start(c) PROVE MapTypeOK'
  <2>1. PICK s \in Sessions :
          /\ row' = [row EXCEPT ![s] = "STARTING"] /\ Ask(c, "start", s, "IDLE")
          /\ \E map \in {"new", "saved"} : record' = [record EXCEPT ![s] = map]
    BY <1>1 DEF Start
  <2>2. ask' \in [Calls -> AskTypes] /\ task' \in [Calls -> TaskTypes]
    BY <2>1, AskStep DEF Names, Numbers, Statuses
  <2>3. row' \in [Sessions -> Statuses] /\ record' \in [Sessions -> Records]
    BY <2>1 DEF MapTypeOK, Statuses, Records
  <2> QED
    BY <1>1, <2>2, <2>3 DEF Start, MapTypeOK, host, disk
<1>2. ASSUME LoadMap(c) PROVE MapTypeOK'
  <2>1. ask' \in [Calls -> AskTypes] /\ task' \in [Calls -> TaskTypes]
    <3>1. Ask(c, "load", 0, "none") /\ "load" \in Names /\ 0 \in Numbers /\ "none" \in Statuses
      BY <1>2 DEF LoadMap, Names, Numbers, Statuses
    <3> QED
      BY <3>1, AskStep
  <2> QED
    BY <1>2, <2>1 DEF LoadMap, MapTypeOK, host, disk
<1>3. ASSUME NEW s \in Sessions, NEW op \in Ops, Act(c, s, op) PROVE MapTypeOK'
  <2>1. row[s] \in Statuses
    BY DEF MapTypeOK
  <2>2. ask' \in [Calls -> AskTypes] /\ task' \in [Calls -> TaskTypes]
    BY <1>3, <2>1, AskStep DEF Act, Names, Numbers, Statuses
  <2> QED
    BY <1>3, <2>2 DEF Act, MapTypeOK, host, disk
<1>4. ASSUME Commit(c) PROVE MapTypeOK'
  <2>1. Target(ask[c].op) \in Statuses /\ ask[c].st \in Statuses /\ ask[c].op \in Names
    BY DEF Target, Statuses, MapTypeOK, AskTypes
  <2>2. row' \in [Sessions -> Statuses]
    BY <1>4, <2>1 DEF Commit, MapTypeOK, Statuses
  <2>3. ask' \in [Calls -> AskTypes]
    BY <1>4, ConstantTypes DEF Commit, MapTypeOK
  <2>4. record' \in [Sessions -> Records]
    BY <1>4 DEF Commit, MapTypeOK, Records
  <2> QED
    BY <1>4, <2>2, <2>3, <2>4 DEF Commit, MapTypeOK, edge, host, disk
<1>5. ASSUME AskTimesOut(c) PROVE MapTypeOK'
  <2>1. row' \in [Sessions -> Statuses]
    BY <1>5 DEF AskTimesOut, RowsAfterFailure, MapTypeOK, Statuses
  <2>2. ask' \in [Calls -> AskTypes]
    BY <1>5 DEF AskTimesOut, MapTypeOK, AskTypes
  <2> QED
    BY <1>5, <2>1, <2>2, FaultTypes DEF AskTimesOut, MapTypeOK, edge, host, disk
<1> QED
  BY <1>1, <1>2, <1>3, <1>4, <1>5 DEF CenterStep

LEMMA SubmitStep ==
  ASSUME MapTypeOK, NEW c \in Calls, NEW exp \in Statuses, Submit(c, exp), hold.c = c
  PROVE  /\ rt' \in StackTypes /\ hold' \in HoldTypes
         /\ seen' \in [mode : Modes \cup {"none"}, st : Statuses]
<1>1. Sent(c) \in Names /\ ask[c].s \in Numbers
  BY DEF Sent, MapTypeOK, TaskTypes, AskTypes, Names
<1>2. [op |-> Sent(c), s |-> ask[c].s, c |-> c, exp |-> exp, begun |-> FALSE] \in JobTypes
  BY <1>1 DEF JobTypes, Callers
<1>3. rt' \in StackTypes
  <2>1. rt \in StackTypes /\ (rt.doubt \/ (hold.pc = "wait" /\ rt.st \notin {"IDLE", "READY"})) \in BOOLEAN
    BY DEF MapTypeOK, StackTypes
  <2> QED
    BY <1>2, <2>1, StackDoubts DEF Submit
<1>4. hold' \in HoldTypes
  <2>1. hold \in HoldTypes /\ "calling" \in {"wait", "calling"} /\ 0 \in 0 .. 5
    BY DEF MapTypeOK
  <2> QED
    BY <2>1, HoldWaits DEF Submit
<1> QED
  BY <1>3, <1>4 DEF Submit, MapTypeOK, StackTypes

LEMMA RepliedStep ==
  ASSUME MapTypeOK, NEW ok \in BOOLEAN, NEW st \in Statuses, Replied(ok, st)
  PROVE  hold' \in HoldTypes
BY HoldReplies DEF Replied, MapTypeOK

LEMMA EdgeTypes == ASSUME MapTypeOK, NEW c \in Calls, EdgeStep(c) PROVE MapTypeOK'
<1>1. ASSUME Unserved(c) PROVE MapTypeOK'
  <2>1. ask' \in [Calls -> AskTypes] /\ task' \in [Calls -> TaskTypes]
    BY <1>1, RespondStep DEF Unserved, Statuses
  <2> QED
    BY <1>1, <2>1 DEF Unserved, MapTypeOK, host, disk
<1>2. ASSUME Acquire(c) PROVE MapTypeOK'
  <2>1. hold' \in HoldTypes
    BY <1>2, ConstantTypes DEF Acquire, HoldTypes, Callers
  <2> QED
    BY <1>2, <2>1 DEF Acquire, MapTypeOK, center, host, disk
<1>3. ASSUME Ensure(c) PROVE MapTypeOK'
  <2>1. CASE Submit(c, task[c].exp) /\ UNCHANGED request
    <3>1. task[c].exp \in Statuses
      BY DEF MapTypeOK, TaskTypes
    <3>2. /\ rt' \in StackTypes /\ hold' \in HoldTypes
          /\ seen' \in [mode : Modes \cup {"none"}, st : Statuses]
      BY <1>3, <2>1, <3>1, SubmitStep DEF Ensure
    <3> QED
      BY <1>3, <2>1, <3>2 DEF Ensure, MapTypeOK, center, disk
  <2>2. CASE /\ WriteRequest(Mode(task[c].op))
             /\ hold' = [hold EXCEPT !.pc = "wait", !.id = NewId]
             /\ UNCHANGED <<rt, seen>>
    <3>1. request' \in [mode : Modes, id : 1 .. 5] /\ hold' \in HoldTypes
      <4>1. hold \in HoldTypes /\ NewId \in 0 .. 5
        BY IdTypes DEF MapTypeOK
      <4>2. hold' \in HoldTypes
        BY <2>2, <4>1, HoldWaits
      <4> QED
        BY <2>2, <4>2, IdTypes DEF WriteRequest, Mode, Modes
    <3> QED
      BY <1>3, <2>2, <3>1 DEF Ensure, MapTypeOK, center, disk
  <2> QED
    BY <1>3, <2>1, <2>2 DEF Ensure
<1>4. ASSUME Switched(c) PROVE MapTypeOK'
  <2>1. rt.st \in Statuses
    BY DEF MapTypeOK, StackTypes
  <2>2. /\ rt' \in StackTypes /\ hold' \in HoldTypes
        /\ seen' \in [mode : Modes \cup {"none"}, st : Statuses]
    BY <1>4, <2>1, SubmitStep DEF Switched
  <2> QED
    BY <1>4, <2>2 DEF Switched, MapTypeOK, center, host, disk
<1>5. ASSUME SwitchFails(c) PROVE MapTypeOK'
  <2>1. hold' \in HoldTypes
    BY <1>5, RepliedStep DEF SwitchFails, MapTypeOK, Statuses
  <2>2. seen' \in [mode : Modes \cup {"none"}, st : Statuses] /\ faults' \in Nat
    BY <1>5, FaultTypes DEF SwitchFails, MapTypeOK, Statuses
  <2> QED
    BY <1>5, <2>1, <2>2 DEF SwitchFails, MapTypeOK, center, host, disk
<1>6. ASSUME CallFails(c) PROVE MapTypeOK'
  <2>1. hold' \in HoldTypes
    BY <1>6, RepliedStep DEF CallFails, Statuses
  <2>2. seen' \in [mode : Modes \cup {"none"}, st : Statuses] /\ faults' \in Nat
    BY <1>6, FaultTypes DEF CallFails, MapTypeOK, Statuses
  <2>3. rt' \in StackTypes
    BY <1>6 DEF CallFails, MapTypeOK, StackTypes, JobTypes, Callers
  <2> QED
    BY <1>6, <2>1, <2>2, <2>3 DEF CallFails, MapTypeOK, center, host, disk
<1>7. ASSUME Release(c) PROVE MapTypeOK'
  <2>1. hold' \in HoldTypes
    BY <1>7, ConstantTypes DEF Release
  <2>2. hold.st \in Statuses
    BY DEF MapTypeOK, HoldTypes
  <2>3. ask' \in [Calls -> AskTypes] /\ task' \in [Calls -> TaskTypes]
    <3>1. CASE \E ok \in BOOLEAN : Respond(c, ok, hold.st)
      BY <3>1, <2>2, RespondStep
    <3>2. CASE task' = [task EXCEPT ![c].pc = "saved"] /\ UNCHANGED ask
      BY <3>2 DEF MapTypeOK, TaskTypes
    <3>3. CASE task' = [task EXCEPT ![c].pc = "again", ![c].exp = "RUNNING"] /\ UNCHANGED ask
      <4>1. [task[c] EXCEPT !.pc = "again", !.exp = "RUNNING"] \in TaskTypes
        BY TaskAgain DEF MapTypeOK
      <4>2. task' = [task EXCEPT ![c] = [task[c] EXCEPT !.pc = "again", !.exp = "RUNNING"]]
        BY <3>3 DEF MapTypeOK, TaskTypes
      <4> QED
        BY <3>3, <4>1, <4>2 DEF MapTypeOK
    <3> QED
      BY <1>7, <3>1, <3>2, <3>3 DEF Release
  <2> QED
    BY <1>7, <2>1, <2>3 DEF Release, MapTypeOK, host, disk
<1>8. ASSUME ToNavigation(c) PROVE MapTypeOK'
  <2>1. request' \in [mode : Modes, id : 1 .. 5]
    BY <1>8, IdTypes DEF ToNavigation, WriteRequest, Modes
  <2>2. task' \in [Calls -> TaskTypes]
    BY <1>8 DEF ToNavigation, MapTypeOK, TaskTypes
  <2> QED
    BY <1>8, <2>1, <2>2 DEF ToNavigation, MapTypeOK, center, disk
<1>9. ASSUME Queue(c) PROVE MapTypeOK'
  <2>1. ask' \in [Calls -> AskTypes] /\ task' \in [Calls -> TaskTypes]
    <3>1. Respond(c, TRUE, "FINISHED") /\ "FINISHED" \in Statuses
      BY <1>9 DEF Queue, Statuses
    <3> QED
      BY <3>1, RespondStep
  <2>2. marker' \subseteq Numbers
    BY <1>9 DEF Queue, MapTypeOK, AskTypes
  <2> QED
    BY <1>9, <2>1, <2>2 DEF Queue, MapTypeOK, host
<1> QED
  BY <1>1, <1>2, <1>3, <1>4, <1>5, <1>6, <1>7, <1>8, <1>9 DEF EdgeStep

LEMMA SupervisorTypes ==
  ASSUME MapTypeOK, Supervisor \/ SupFails \/ SupCrash \/ Boot \/ StackCrash
  PROVE  MapTypeOK'
<1>1. ASSUME SupTakes PROVE MapTypeOK'
  BY <1>1 DEF SupTakes, MapTypeOK, center, edge, disk
<1>2. ASSUME SupChecks PROVE MapTypeOK'
  BY <1>2 DEF SupChecks, SupEnds, MapTypeOK, center, edge, disk
<1>3. ASSUME SupStops PROVE MapTypeOK'
  <2>1. rt' \in StackTypes
    BY <1>3, ConstantTypes DEF SupStops, MapTypeOK, StackTypes
  <2> QED
    BY <1>3, <2>1 DEF SupStops, StoppedFirst, MapTypeOK, center, edge, disk
<1>4. ASSUME SupStarts PROVE MapTypeOK'
  BY <1>4, ConstantTypes DEF SupStarts, MapTypeOK, center, edge, disk
<1>5. ASSUME SupAwaits PROVE MapTypeOK'
  BY <1>5 DEF SupAwaits, Await, SupEnds, MapTypeOK, center, edge, disk
<1>6. ASSUME SupFails PROVE MapTypeOK'
  BY <1>6, FaultTypes DEF SupFails, SupEnds, MapTypeOK, center, edge, disk
<1>7. ASSUME SupCrash PROVE MapTypeOK'
  BY <1>7, FaultTypes, 0 \in 0 .. 5 DEF SupCrash, MapTypeOK, center, edge, disk
<1>8. ASSUME Boot PROVE MapTypeOK'
  <2>1. rt' \in StackTypes
    BY <1>8, ConstantTypes DEF Boot, MapTypeOK
  <2> QED
    BY <1>8, <2>1 DEF Boot, MapTypeOK, center, edge, host, disk
<1>9. ASSUME StackCrash PROVE MapTypeOK'
  BY <1>9, ConstantTypes, FaultTypes
     DEF StackCrash, MapTypeOK, center, edge, host, disk
<1> QED
  BY <1>1, <1>2, <1>3, <1>4, <1>5, <1>6, <1>7, <1>8, <1>9 DEF Supervisor

LEMMA EndsStep ==
  ASSUME MapTypeOK, NEW ok \in BOOLEAN, rt' \in StackTypes, Ends(ok)
  PROVE  hold' \in HoldTypes /\ seen' \in [mode : Modes \cup {"none"}, st : Statuses]
<1>1. rt'.st \in Statuses /\ rt.mode \in Modes \cup {"none"}
  BY DEF MapTypeOK, StackTypes
<1> QED
  <2>1. CASE rt.job.c = NoCall
    BY <2>1 DEF Ends, MapTypeOK
  <2>2. CASE rt.job.c # NoCall
    <3>1. hold \in HoldTypes
      BY DEF MapTypeOK
    <3>2. hold' = [hold EXCEPT !.pc = "replied", !.ok = ok, !.st = rt'.st]
      BY <2>2 DEF Ends
    <3>3. hold' \in HoldTypes
      BY <1>1, <3>1, <3>2, HoldReplies
    <3> QED
      BY <1>1, <2>2, <3>3 DEF Ends
  <2> QED
    BY <2>1, <2>2

LEMMA AdapterTypes == ASSUME MapTypeOK, AdapterStep PROVE MapTypeOK'
<1>1. ASSUME Refuses PROVE MapTypeOK'
  <2>1. rt' \in StackTypes /\ faults' \in Nat
    BY <1>1, ConstantTypes, FaultTypes DEF Refuses, MapTypeOK, StackTypes
  <2> QED
    BY <1>1, <2>1, EndsStep DEF Refuses, MapTypeOK, center, host, disk
<1>2. ASSUME StartsMapping PROVE MapTypeOK'
  <2> DEFINE graph == IF rt.st \in Restartable THEN {} ELSE rt.graph
             paused == IF rt.st \in Restartable THEN FALSE ELSE rt.paused
             begun == [rt EXCEPT !.own = rt.job.s, !.graph = graph, !.paused = paused]
  <2>1. graph \in SUBSET Numbers /\ paused \in BOOLEAN /\ rt.job.s \in Numbers
    BY DEF MapTypeOK, StackTypes, JobTypes
  <2>2. begun \in StackTypes
    BY <2>1 DEF MapTypeOK, StackTypes
  <2> HIDE DEF graph, paused, begun
  <2>3. CASE /\ rt' = [begun EXCEPT !.st = "RUNNING", !.graph = graph \cup {rt.job.s}, !.job = NoJob]
             /\ Ends(TRUE)
    <3>1. rt' \in StackTypes
      BY <2>1, <2>2, <2>3, ConstantTypes DEF StackTypes, Statuses
    <3> QED
      BY <1>2, <2>3, <3>1, EndsStep DEF StartsMapping, MapTypeOK, center, host, disk
  <2>4. CASE /\ rt' = [begun EXCEPT !.st = "LOCALIZING", !.job.begun = TRUE]
             /\ UNCHANGED <<hold, seen>>
    <3>1. rt' \in StackTypes
      BY <2>2, <2>4 DEF StackTypes, JobTypes, Statuses
    <3> QED
      BY <1>2, <2>4, <3>1 DEF StartsMapping, MapTypeOK, center, host, disk
  <2> QED
    BY <1>2, <2>3, <2>4 DEF StartsMapping, graph, paused, begun
<1>3. ASSUME Locates PROVE MapTypeOK'
  <2>1. PICK ok \in BOOLEAN :
          /\ rt' = [rt EXCEPT !.st = IF ok THEN "RUNNING" ELSE "ERROR", !.job = NoJob,
                              !.graph = IF ok THEN @ \cup {rt.job.s} ELSE @]
          /\ Ends(ok)
    BY <1>3 DEF Locates
  <2>2. rt' \in StackTypes
    <3>1. /\ (IF ok THEN "RUNNING" ELSE "ERROR") \in Statuses
          /\ (IF ok THEN rt.graph \cup {rt.job.s} ELSE rt.graph) \in SUBSET Numbers
      BY DEF MapTypeOK, StackTypes, JobTypes, Statuses
    <3> QED
      <4>1. rt \in StackTypes /\ NoJob \in JobTypes
        BY ConstantTypes DEF MapTypeOK
      <4> QED
        BY <2>1, <3>1, <4>1, StackEnds
  <2> QED
    BY <1>3, <2>1, <2>2, EndsStep DEF Locates, MapTypeOK, center, host, disk
<1>4. ASSUME Toggles PROVE MapTypeOK'
  <2>1. Target(rt.job.op) \in Statuses
    BY DEF Target, Statuses
  <2>2. rt' \in StackTypes /\ faults' \in Nat
    <3>1. /\ rt \in StackTypes /\ (~rt.paused) \in BOOLEAN
          /\ (rt.doubt \/ rt.st = Target(rt.job.op)) \in BOOLEAN
      BY DEF MapTypeOK, StackTypes
    <3> QED
      <4>1. NoJob \in JobTypes /\ TRUE \in BOOLEAN
        BY ConstantTypes
      <4>2. rt' \in StackTypes
        <5>1. CASE rt' = [rt EXCEPT !.st = Target(rt.job.op), !.paused = ~@, !.job = NoJob,
                                    !.doubt = @ \/ rt.st = Target(rt.job.op)]
          BY <2>1, <3>1, <4>1, <5>1, StackEnds, Zenon
        <5>2. CASE rt' = [rt EXCEPT !.paused = ~@, !.doubt = TRUE, !.job = NoJob]
          BY <3>1, <4>1, <5>2, StackDoubts, Zenon
        <5> QED
          BY <1>4, <5>1, <5>2 DEF Toggles
      <4> QED
        BY <1>4, <4>2, FaultTypes DEF Toggles, MapTypeOK
  <2> QED
    BY <1>4, <2>2, EndsStep DEF Toggles, MapTypeOK, center, host, disk
<1>5. ASSUME Discards PROVE MapTypeOK'
  <2>1. rt' \in StackTypes
    BY <1>5, ConstantTypes DEF Discards, MapTypeOK, StackTypes, Statuses
  <2> QED
    BY <1>5, <2>1, EndsStep DEF Discards, MapTypeOK, center, host, disk
<1>6. ASSUME StartsSaving PROVE MapTypeOK'
  <2>1. rt' \in StackTypes
    BY <1>6 DEF StartsSaving, MapTypeOK, StackTypes, JobTypes, Statuses
  <2> QED
    BY <1>6, <2>1 DEF StartsSaving, MapTypeOK, center, edge, host, disk
<1>7. ASSUME Saves PROVE MapTypeOK'
  <2>1. rt' \in StackTypes /\ faults' \in Nat
    <3>1. rt \in StackTypes /\ "FINISHED" \in Statuses
      BY DEF MapTypeOK, Statuses
    <3> QED
      <4>1. NoJob \in JobTypes /\ TRUE \in BOOLEAN
        BY ConstantTypes
      <4>2. rt' \in StackTypes
        <5>1. CASE rt' = [rt EXCEPT !.st = "FINISHED", !.job = NoJob]
          BY <3>1, <4>1, <5>1, StackEnds, Zenon
        <5>2. CASE rt' = [rt EXCEPT !.job = NoJob, !.doubt = TRUE]
          BY <3>1, <4>1, <5>2, StackDoubts, Zenon
        <5> QED
          BY <1>7, <5>1, <5>2 DEF Saves
      <4> QED
        BY <1>7, <4>2, FaultTypes DEF Saves, MapTypeOK
  <2>2. bundle' \in [Sessions -> Contents]
    BY <1>7 DEF Saves, MapTypeOK, Contents
  <2> QED
    BY <1>7, <2>1, <2>2, EndsStep DEF Saves, MapTypeOK, center, host
<1>8. ASSUME LoadsMap PROVE MapTypeOK'
  <2>1. rt' \in StackTypes
    BY <1>8, ConstantTypes DEF LoadsMap, MapTypeOK, StackTypes
  <2> QED
    BY <1>8, <2>1, EndsStep DEF LoadsMap, MapTypeOK, center, host, disk
<1>9. ASSUME AutosaveBegins PROVE MapTypeOK'
  <2>1. rt' \in StackTypes
    BY <1>9 DEF AutosaveBegins, MapTypeOK, StackTypes
  <2> QED
    BY <1>9, <2>1 DEF AutosaveBegins, MapTypeOK, center, edge, host, disk
<1>10. ASSUME AutosaveFails PROVE MapTypeOK'
  <2>1. rt' \in StackTypes
    BY <1>10 DEF AutosaveFails, MapTypeOK, StackTypes
  <2> QED
    BY <1>10, <2>1, FaultTypes DEF AutosaveFails, MapTypeOK, center, edge, host, disk
<1>11. ASSUME AutosaveEnds PROVE MapTypeOK'
  <2>1. rt' \in StackTypes /\ faults' \in Nat
    <3>1. rt \in StackTypes
      BY DEF MapTypeOK
    <3>2. CASE rt' = [rt EXCEPT !.paused = IF autosave = "frozen" THEN ~@ ELSE @] /\ UNCHANGED faults
      <4>1. rt' \in StackTypes
        BY <3>1, <3>2 DEF StackTypes
      <4> QED
        BY <3>2, <4>1 DEF MapTypeOK
    <3>3. CASE rt' = [rt EXCEPT !.st = "ERROR"] /\ Fault
      <4>1. rt' \in StackTypes
        BY <3>1, <3>3 DEF StackTypes, Statuses
      <4> QED
        BY <3>3, <4>1, FaultTypes
    <3> QED
      BY <1>11, <3>2, <3>3 DEF AutosaveEnds
  <2>2. gen' \subseteq Numbers
    BY <1>11 DEF AutosaveEnds, MapTypeOK, StackTypes
  <2> QED
    BY <1>11, <2>1, <2>2 DEF AutosaveEnds, MapTypeOK, center, edge, host
<1> QED
  BY <1>1, <1>2, <1>3, <1>4, <1>5, <1>6, <1>7, <1>8, <1>9, <1>10,
     <1>11 DEF AdapterStep

LEMMA OtherTypes ==
  ASSUME MapTypeOK,
         \/ Health \/ Poll \/ EdgeCrash
         \/ \E s \in Sessions : Upload(s) \/ Uploaded(s) \/ Resync(s)
  PROVE  MapTypeOK'
<1>1. ASSUME Health PROVE MapTypeOK'
  <2>1. seen.st \in Statuses /\ "RESET" \in Statuses
    BY DEF MapTypeOK, Statuses
  <2> DEFINE newest == Max(Open)
  <2>2. row' = [row EXCEPT ![newest] = IF seen.st = "IDLE" THEN "RESET" ELSE seen.st]
    BY <1>1 DEF Health
  <2> HIDE DEF newest
  <2>3. row' \in [Sessions -> Statuses]
    BY <2>1, <2>2 DEF MapTypeOK
  <2> QED
    BY <1>1, <2>3 DEF Health, MapTypeOK, edge, host, disk
<1>2. ASSUME Poll PROVE MapTypeOK'
  BY <1>2 DEF Poll, MapTypeOK, StackTypes, center, host, disk
<1>3. ASSUME EdgeCrash PROVE MapTypeOK'
  <2>1. row' \in [Sessions -> Statuses]
    BY <1>3 DEF EdgeCrash, RowsAfterFailure, MapTypeOK, Statuses
  <2>2. ask' \in [Calls -> AskTypes] /\ task' \in [Calls -> TaskTypes]
    BY <1>3, ConstantTypes DEF EdgeCrash, MapTypeOK
  <2>3. rt' \in StackTypes
    BY <1>3 DEF EdgeCrash, MapTypeOK, StackTypes, JobTypes, Callers
  <2> QED
    BY <1>3, <2>1, <2>2, <2>3, ConstantTypes, FaultTypes
       DEF EdgeCrash, MapTypeOK, Statuses, host, disk
<1>4. ASSUME NEW s \in Sessions, Upload(s) PROVE MapTypeOK'
  BY <1>4 DEF Upload, MapTypeOK, edge, host, disk
<1>5. ASSUME NEW s \in Sessions, Uploaded(s) PROVE MapTypeOK'
  BY <1>5 DEF Uploaded, MapTypeOK, center, edge, host
<1>6. ASSUME NEW s \in Sessions, Resync(s) PROVE MapTypeOK'
  BY <1>6 DEF Resync, MapTypeOK, Numbers, center, edge, host
<1> QED
  BY <1>1, <1>2, <1>3, <1>4, <1>5, <1>6

\* Rows, requests, the edge, the supervisor and the adapter keep their types, whatever fails.
THEOREM MapTypeCorrect == Spec => []MapTypeOK
<1>1. MapTypeOK /\ [Next]_vars => MapTypeOK'
  <2>1. ASSUME MapTypeOK, Next PROVE MapTypeOK'
    BY <2>1, CenterTypes, EdgeTypes, SupervisorTypes, AdapterTypes, OtherTypes DEF Next
  <2>2. ASSUME MapTypeOK, UNCHANGED vars PROVE MapTypeOK'
    BY <2>2 DEF MapTypeOK, vars, center, edge, host, disk
  <2> QED
    BY <2>1, <2>2
<1> QED
  BY <1>1, InitTypes, PTL DEF Spec

-----------------------------------------------------------------------------
(* The invariant of the two stacks.                                        *)

OneStack ==
  /\ \E m \in Modes : running \subseteq {m}
  /\ sup.pc = "up" => running \subseteq {sup.mode}

-----------------------------------------------------------------------------
(* The invariant of SLAM and the adapter's state.                          *)

\* The states of the session in which the operator is offered what toggles SLAM or starts it.
From(op) == CASE op = "start" -> {"IDLE"}
              [] op \in {"stop", "pause", "resume"} -> Before(op)
              [] OTHER -> Statuses

\* A request expects such a state, and its job too, unless it is the one found after a switch of
\* the mode.
Asking == \A c \in Calls : task[c].pc # "idle" => task[c].exp \in From(Sent(c))
Expecting == ~rt.doubt => rt.job.exp \in From(rt.job.op) \cup {"IDLE", "READY"}

\* The job that holds the operation lock shows in the state.
Working ==
  /\ rt.st = "LOCALIZING" <=> rt.job.begun /\ rt.job.op = "start"
  /\ rt.job.begun /\ rt.job.op # "start" => rt.st = "SAVING" /\ rt.job.op \in {"save", "finish"}
  /\ rt.st = "SAVING" /\ ~rt.doubt => rt.job.begun
  /\ rt.st \in {"none", "IDLE", "READY"} => rt.own = 0
  /\ rt.st # "STARTING"

\* The autosave holds SLAM as it found it.
Autosaving ==
  /\ autosave = "frozen" => rt.st = "RUNNING" /\ rt.own # 0
  /\ autosave = "paused" => rt.st = "PAUSED" /\ rt.own # 0
  /\ autosave # "idle" => ~rt.job.begun

Measuring ==
  ~rt.doubt =>
    /\ rt.st \in {"none", "IDLE", "READY", "LOCALIZING"} => ~rt.paused
    /\ rt.st = "RUNNING" /\ rt.own # 0 => (rt.paused <=> autosave = "frozen")
    /\ rt.st \in {"PAUSED", "STOPPED"} /\ rt.own # 0 => rt.paused

SlamInv == Asking /\ Expecting /\ Working /\ Autosaving /\ Measuring

-----------------------------------------------------------------------------
(* The invariant of the requests and of an acknowledged save.              *)

\* A task belongs to a request that is not answered yet.
Owned == \A c \in Calls : task[c].pc # "idle" =>
  ask[c].pc \in {"asked", "left"} /\ task[c].op = ask[c].op

\* Operations other than the load are about a session.
About == \A c \in Calls : ask[c].op \notin {"none", "load"} => ask[c].s \in Sessions

\* The job of a caller that still waits is what the caller asked for.
Called ==
  /\ hold.c # NoCall => task[hold.c].pc \in {"new", "again"}
  /\ hold.c = NoCall => hold.pc = "none"
  /\ rt.job.c # NoCall => /\ hold.c = rt.job.c /\ hold.pc = "calling"
                          /\ rt.job.op = Sent(rt.job.c) /\ rt.job.s = ask[rt.job.c].s

Saving(c) == ask[c].op \in {"save", "finish"}

\* A bundle is there before anything is told of it, and the marker before the answer.
Bundled ==
  /\ hold.pc = "replied" /\ hold.ok /\ Saving(hold.c) => bundle[ask[hold.c].s] # "none"
  /\ \A c \in Calls : task[c].pc \in {"saved", "queue"} =>
       Saving(c) /\ bundle[ask[c].s] # "none"
  /\ \A s \in marker : s \in Sessions /\ bundle[s] # "none"

\* A save that the robot acknowledged is stored by the center, or marked for its upload on the
\* robot's disk.
SaveIsKept == \A s \in Sessions : Acknowledged(s) => s \in marker \/ stored[s] # "none"

-----------------------------------------------------------------------------
(* The supervisor's steps.                                                 *)

\* Only the stop and the start change what runs.
LEMMA StackStep == ASSUME MapTypeOK, OneStack, [Next]_vars PROVE OneStack'
<1>1. CASE SupStops
  BY <1>1 DEF SupStops, StoppedFirst, OneStack, MapTypeOK
<1>2. CASE SupStarts
  BY <1>2 DEF SupStarts, OneStack, MapTypeOK
<1>3. CASE UNCHANGED running /\ (sup' = sup \/ sup'.pc # "up")
  BY <1>3 DEF OneStack
<1>4. ASSUME NEW c \in Calls, CenterStep(c) PROVE UNCHANGED <<running, sup>>
  BY <1>4 DEF CenterStep, Start, LoadMap, Commit, AskTimesOut, Act, host
<1>5. ASSUME NEW c \in Calls, EdgeStep(c) PROVE UNCHANGED <<running, sup>>
  BY <1>5
     DEF EdgeStep, Unserved, Acquire, Ensure, Switched, SwitchFails,
         CallFails, Release,
              ToNavigation, Queue, host
<1>6. ASSUME NEW s \in Sessions, Upload(s) \/ Uploaded(s) \/ Resync(s)
      PROVE  UNCHANGED <<running, sup>>
  BY <1>6 DEF Upload, Uploaded, Resync, host
<1>7. CASE Health \/ Poll \/ EdgeCrash \/ Boot \/ StackCrash
  BY <1>3, <1>7 DEF Health, Poll, EdgeCrash, Boot, StackCrash, host
<1>8. CASE AdapterStep
  BY <1>3, <1>8
     DEF AdapterStep, Refuses, StartsMapping, Locates, Toggles, Discards,
         StartsSaving,
                    Saves, LoadsMap, AutosaveBegins, AutosaveFails, AutosaveEnds, host
<1>9. CASE SupTakes \/ SupChecks \/ SupAwaits \/ SupFails \/ SupCrash
  <2>1. CASE SupTakes
    BY <1>3, <2>1 DEF SupTakes
  <2>2. ASSUME NEW res, SupEnds(res) PROVE sup'.pc = "idle"
    BY <2>2 DEF SupEnds, MapTypeOK
  <2>3. CASE SupChecks
    BY <1>3, <2>2, <2>3 DEF SupChecks, MapTypeOK
  <2>4. CASE SupAwaits
    BY <1>3, <2>2, <2>4 DEF SupAwaits, Await
  <2>5. CASE SupFails
    BY <1>3, <2>2, <2>5 DEF SupFails
  <2>6. CASE SupCrash
    BY <1>3, <2>6 DEF SupCrash, MapTypeOK
  <2> QED
    BY <1>9, <2>1, <2>3, <2>4, <2>5, <2>6
<1>10. CASE UNCHANGED vars
  BY <1>3, <1>10 DEF vars, host
<1> QED
  BY <1>1, <1>2, <1>3, <1>4, <1>5, <1>6, <1>7, <1>8, <1>9, <1>10 DEF Next, Supervisor

\* The two ROS stacks never run together: the supervisor starts one only when it has stopped
\* the other, and neither a failed command nor its own restart lets it skip the stop
\* (mode_supervisor.py switch_mode).
THEOREM OneStackAtATime == Spec => []StacksNeverOverlap
<1>1. Init => OneStack
  BY DEF Init, OneStack, Modes
<1>2. OneStack => StacksNeverOverlap
  <2>1. ASSUME OneStack PROVE StacksNeverOverlap
    <3>1. PICK m \in Modes : running \subseteq {m}
      BY <2>1 DEF OneStack
    <3>2. IsFiniteSet({m}) /\ Cardinality({m}) = 1
      BY FS_Singleton
    <3>3. Cardinality(running) <= Cardinality({m})
      BY <3>1, <3>2, FS_Subset
    <3> QED
      BY <3>2, <3>3 DEF StacksNeverOverlap
  <2> QED
    BY <2>1
<1> QED
  BY <1>1, <1>2, StackStep, MapTypeCorrect, PTL DEF Spec

-----------------------------------------------------------------------------
(* A request, its task, the lock of the edge and the adapter's job.        *)

CallInv == Owned /\ About /\ Called

\* Nobody is not a request.
LEMMA Callee == 0 \notin Calls
BY DEF Calls

LEMMA AskCalls ==
  ASSUME MapTypeOK, CallInv, NEW c \in Calls, NEW op \in Names, NEW s \in Numbers,
         NEW exp \in Statuses, Ask(c, op, s, exp), op \notin {"none", "load"} => s \in Sessions,
         UNCHANGED <<hold, rt>>
  PROVE  CallInv'
<1>1. /\ ask' = [ask EXCEPT ![c] = [op |-> op, s |-> s, pc |-> "asked", ok |-> FALSE, st |-> "none"]]
      /\ task' = [task EXCEPT ![c] = [pc |-> "new", op |-> op, exp |-> exp]]
      /\ ask[c].pc = "idle"
  BY DEF Ask
<1>2. task[c].pc = "idle" /\ hold.c # c
  BY <1>1, Callee DEF CallInv, Owned, Called, NoCall
<1>3. Owned'
  BY <1>1 DEF CallInv, Owned, MapTypeOK
<1>4. About'
  BY <1>1 DEF CallInv, About, MapTypeOK
<1>5. \A d \in Calls \ {c} : task'[d] = task[d] /\ ask'[d] = ask[d] /\ Sent(d)' = Sent(d)
  BY <1>1 DEF Sent, MapTypeOK
<1>6. hold.c # NoCall => hold.c \in Calls \ {c}
  BY <1>2 DEF MapTypeOK, HoldTypes, Callers
<1>7. Called'
  BY <1>5, <1>6 DEF CallInv, Called
<1> QED
  BY <1>3, <1>4, <1>7 DEF CallInv

LEMMA RespondCalls ==
  ASSUME MapTypeOK, CallInv, NEW c \in Calls, NEW ok, NEW st, Respond(c, ok, st),
         UNCHANGED rt,
         \/ UNCHANGED hold /\ hold.c # c
         \/ hold' = Free /\ hold.c = c /\ hold.pc = "replied"
  PROVE  CallInv'
<1>1. /\ task' = [task EXCEPT ![c] = NoTask]
      /\ \A d \in Calls \ {c} : task'[d] = task[d] /\ ask'[d] = ask[d] /\ Sent(d)' = Sent(d)
      /\ task'[c].pc = "idle"
      /\ ask'[c].op \in {ask[c].op, "none"} /\ (ask'[c].op # "none" => ask'[c].s = ask[c].s)
  BY DEF Respond, Sent, NoTask, Served, NoAsk, MapTypeOK, AskTypes
<1>2. Owned'
  BY <1>1 DEF CallInv, Owned
<1>3. About'
  BY <1>1 DEF CallInv, About
<1>4. CASE UNCHANGED hold /\ hold.c # c
  <2>1. hold.c # NoCall => hold.c \in Calls \ {c}
    BY <1>4 DEF MapTypeOK, HoldTypes, Callers
  <2> QED
    BY <1>1, <1>2, <1>3, <1>4, <2>1 DEF CallInv, Called
<1>5. CASE hold' = Free /\ hold.c = c /\ hold.pc = "replied"
  BY <1>2, <1>3, <1>5 DEF CallInv, Called, Free
<1> QED
  BY <1>4, <1>5

\* What leaves a task and its caller alone keeps the invariant, if no job has a caller that
\* it had not.
LEMMA SameCalls ==
  ASSUME CallInv, UNCHANGED <<task, ask>>, hold'.c = hold.c,
         hold'.c = NoCall => hold'.pc = "none",
         \/ rt'.job.c = NoCall
         \/ hold'.pc = hold.pc /\ rt'.job.c = rt.job.c /\ rt'.job.op = rt.job.op /\ rt'.job.s = rt.job.s
  PROVE  CallInv'
<1>1. \A d : Sent(d)' = Sent(d)
  BY DEF Sent
<1> QED
  BY <1>1 DEF CallInv, Owned, About, Called

LEMMA CenterCalls == ASSUME MapTypeOK, CallInv, NEW c \in Calls, CenterStep(c) PROVE CallInv'
<1>1. ASSUME Start(c) PROVE CallInv'
  <2>1. PICK s \in Sessions : Ask(c, "start", s, "IDLE")
    BY <1>1 DEF Start
  <2> QED
    BY <1>1, <2>1, AskCalls DEF Start, Names, Numbers, Statuses
<1>2. ASSUME LoadMap(c) PROVE CallInv'
  <2>1. Ask(c, "load", 0, "none") /\ "load" \in Names /\ 0 \in Numbers /\ "none" \in Statuses
    BY <1>2 DEF LoadMap, Names, Numbers, Statuses
  <2> QED
    BY <1>2, <2>1, AskCalls DEF LoadMap
<1>3. ASSUME NEW s \in Sessions, NEW op \in Ops, Act(c, s, op) PROVE CallInv'
  <2>1. row[s] \in Statuses /\ "IDLE" \in Statuses /\ op \in Names /\ s \in Numbers
    BY DEF MapTypeOK, Statuses, Names, Numbers
  <2> QED
    BY <1>3, <2>1, AskCalls DEF Act
<1>4. ASSUME Commit(c) PROVE CallInv'
  <2>1. ask' = [ask EXCEPT ![c] = Served] /\ ask[c].pc = "answered" /\ UNCHANGED <<task, hold, rt>>
    BY <1>4 DEF Commit, edge
  <2>2. task[c].pc = "idle" /\ hold.c # c
    BY <2>1, Callee DEF CallInv, Owned, Called, NoCall
  <2>3. Served.op = "none" /\ \A d : Sent(d)' = Sent(d)
    BY <2>1 DEF Served, NoAsk, Sent
  <2>4. hold.c # NoCall => hold.c \in Calls \ {c}
    BY <2>2 DEF MapTypeOK, HoldTypes, Callers
  <2>5. Owned' /\ About'
    BY <2>1, <2>2, <2>3 DEF CallInv, Owned, About, MapTypeOK
  <2>6. Called'
    BY <2>1, <2>3, <2>4 DEF CallInv, Called, MapTypeOK
  <2> QED
    BY <2>5, <2>6 DEF CallInv
<1>5. ASSUME AskTimesOut(c) PROVE CallInv'
  <2>1. ask' = [ask EXCEPT ![c] = [ask[c] EXCEPT !.pc = "left"]] /\ UNCHANGED <<task, hold, rt>>
    BY <1>5 DEF AskTimesOut, edge
  <2>2. \A d \in Calls : /\ ask'[d].op = ask[d].op /\ ask'[d].s = ask[d].s
                         /\ ask'[d].pc \in {ask[d].pc, "left"}
    BY <2>1 DEF MapTypeOK, AskTypes
  <2>3. \A d : Sent(d)' = Sent(d)
    BY <2>1 DEF Sent
  <2>4. hold.c # NoCall => hold.c \in Calls
    BY DEF MapTypeOK, HoldTypes, Callers
  <2> QED
    BY <2>1, <2>2, <2>3, <2>4 DEF CallInv, Owned, About, Called
<1> QED
  BY <1>1, <1>2, <1>3, <1>4, <1>5 DEF CenterStep

LEMMA SubmitCalls ==
  ASSUME MapTypeOK, CallInv, NEW c \in Calls, NEW exp, Submit(c, exp), hold.c = c,
         UNCHANGED <<task, ask>>
  PROVE  CallInv'
<1>1. /\ rt'.job = [op |-> Sent(c), s |-> ask[c].s, c |-> c, exp |-> exp, begun |-> FALSE]
      /\ hold'.c = hold.c /\ hold'.pc = "calling"
  BY DEF Submit, MapTypeOK, HoldTypes, StackTypes
<1>2. \A d : Sent(d)' = Sent(d)
  BY DEF Sent
<1>3. hold'.c # NoCall
  BY <1>1, Callee DEF NoCall
<1> QED
  BY <1>1, <1>2, <1>3 DEF CallInv, Owned, About, Called

LEMMA EdgeCalls == ASSUME MapTypeOK, CallInv, NEW c \in Calls, EdgeStep(c) PROVE CallInv'
<1>1. ASSUME Unserved(c) PROVE CallInv'
  BY <1>1, RespondCalls DEF Unserved
<1>2. ASSUME Acquire(c) PROVE CallInv'
  <2>1. /\ hold'.c = c /\ hold' = [Free EXCEPT !.c = c, !.pc = "ensure"] /\ hold = Free
        /\ UNCHANGED <<task, ask, rt>> /\ task[c].pc \in {"new", "again"}
    BY <1>2 DEF Acquire, Free, center
  <2>2. \A d : Sent(d)' = Sent(d)
    BY <2>1 DEF Sent
  <2>3. rt.job.c = NoCall
    BY <2>1 DEF CallInv, Called, Free
  <2>4. c # NoCall
    BY Callee DEF NoCall
  <2> QED
    BY <2>1, <2>2, <2>3, <2>4 DEF CallInv, Owned, About, Called
<1>3. ASSUME Ensure(c) PROVE CallInv'
  <2>1. CASE Submit(c, task[c].exp)
    BY <1>3, <2>1, SubmitCalls DEF Ensure, center
  <2>2. CASE hold' = [hold EXCEPT !.pc = "wait", !.id = NewId] /\ UNCHANGED rt
    <3>1. hold'.c = hold.c /\ hold.c # NoCall /\ rt.job.c = NoCall
      BY <1>3, <2>2, Callee DEF Ensure, MapTypeOK, HoldTypes, CallInv, Called, NoCall
    <3> QED
      BY <1>3, <2>2, <3>1, SameCalls DEF Ensure, center
  <2> QED
    BY <1>3, <2>1, <2>2 DEF Ensure
<1>4. ASSUME Switched(c) PROVE CallInv'
  BY <1>4, SubmitCalls DEF Switched, center
<1>5. ASSUME SwitchFails(c) PROVE CallInv'
  <2>1. hold'.c = hold.c /\ hold.c # NoCall /\ rt.job.c = NoCall
    BY <1>5, Callee
       DEF SwitchFails, Replied, MapTypeOK, HoldTypes, CallInv, Called, NoCall
  <2> QED
    BY <1>5, <2>1, SameCalls DEF SwitchFails, center
<1>6. ASSUME CallFails(c) PROVE CallInv'
  <2>1. hold'.c = hold.c /\ hold.c # NoCall
    BY <1>6, Callee DEF CallFails, Replied, MapTypeOK, HoldTypes, NoCall
  <2>2. rt'.job.c = NoCall
    BY <1>6, <2>1 DEF CallFails, CallInv, Called, MapTypeOK, StackTypes, JobTypes
  <2> QED
    BY <1>6, <2>1, <2>2, SameCalls DEF CallFails, center
<1>7. ASSUME Release(c) PROVE CallInv'
  <2>1. CASE \E ok, st : Respond(c, ok, st)
    BY <1>7, <2>1, RespondCalls DEF Release
  <2>2. CASE /\ \/ task' = [task EXCEPT ![c].pc = "saved"]
                \/ task' = [task EXCEPT ![c].pc = "again", ![c].exp = "RUNNING"]
             /\ UNCHANGED ask /\ task[c].pc # "idle"
    <3>1. \A d \in Calls : task'[d].op = task[d].op /\ (task'[d].pc # "idle" => task[d].pc # "idle")
      <4>1. \A d \in Calls \ {c} : task'[d] = task[d]
        BY <2>2 DEF MapTypeOK
      <4>2. task \in [Calls -> TaskTypes]
        BY DEF MapTypeOK
      <4>3. task'[c].op = task[c].op
        BY <2>2, <4>2 DEF TaskTypes
      <4> QED
        BY <2>2, <4>1, <4>3
    <3>2. rt.job.c = NoCall /\ hold' = Free /\ UNCHANGED rt
      BY <1>7 DEF Release, CallInv, Called
    <3> QED
      BY <2>2, <3>1, <3>2 DEF CallInv, Owned, About, Called, Free
  <2>3. task[c].pc # "idle"
    BY <1>7, Callee DEF Release, CallInv, Called, NoCall
  <2> QED
    BY <1>7, <2>1, <2>2, <2>3 DEF Release
<1>8. ASSUME ToNavigation(c) PROVE CallInv'
  <2>1. task' = [task EXCEPT ![c].pc = "queue"] /\ task[c].pc = "saved" /\ UNCHANGED <<ask, hold, rt>>
    BY <1>8 DEF ToNavigation, center
  <2>2. \A d \in Calls : /\ task'[d].op = task[d].op /\ (task'[d].pc # "idle" => task[d].pc # "idle")
                         /\ d # c => task'[d] = task[d] /\ Sent(d)' = Sent(d)
    BY <2>1 DEF MapTypeOK, TaskTypes, Sent
  <2>3. hold.c # NoCall => hold.c \in Calls \ {c}
    BY <2>1 DEF MapTypeOK, HoldTypes, Callers, CallInv, Called
  <2> QED
    BY <2>1, <2>2, <2>3 DEF CallInv, Owned, About, Called
<1>9. ASSUME Queue(c) PROVE CallInv'
  <2>1. hold.c # c
    BY <1>9, Callee DEF Queue, CallInv, Called, NoCall
  <2> QED
    BY <1>9, <2>1, RespondCalls DEF Queue
<1> QED
  BY <1>1, <1>2, <1>3, <1>4, <1>5, <1>6, <1>7, <1>8, <1>9 DEF EdgeStep

LEMMA EndsCalls ==
  ASSUME MapTypeOK, CallInv, NEW ok, Ends(ok), rt'.job = NoJob, UNCHANGED <<task, ask>>
  PROVE  CallInv'
<1>1. hold'.c = hold.c /\ (hold'.c = NoCall => hold'.pc = "none")
  <2>1. hold \in HoldTypes
    BY DEF MapTypeOK
  <2>2. rt.job.c # NoCall => hold.c # NoCall
    BY DEF CallInv, Called
  <2>3. hold.c = NoCall => hold.pc = "none"
    BY DEF CallInv, Called
  <2>4. hold' = hold \/ (rt.job.c # NoCall /\ hold'.c = hold.c)
    BY <2>1 DEF Ends, HoldTypes
  <2> QED
    BY <2>2, <2>3, <2>4
<1>2. rt'.job.c = NoCall
  BY DEF NoJob
<1> QED
  BY <1>1, <1>2, SameCalls

LEMMA AdapterCalls == ASSUME MapTypeOK, CallInv, AdapterStep PROVE CallInv'
<1>1. UNCHANGED <<task, ask>>
  BY
     DEF AdapterStep, Refuses, StartsMapping, Locates, Toggles, Discards,
         StartsSaving, Saves,
         LoadsMap, AutosaveBegins, AutosaveFails, AutosaveEnds, center, edge
<1>2. CASE rt'.job = NoJob /\ \E ok : Ends(ok)
  BY <1>1, <1>2, EndsCalls
<1>3. CASE UNCHANGED hold /\ rt'.job.c = rt.job.c /\ rt'.job.op = rt.job.op /\ rt'.job.s = rt.job.s
  BY <1>1, <1>3, SameCalls DEF CallInv, Called
<1>4. CASE Refuses \/ Locates \/ Toggles \/ Discards \/ Saves \/ LoadsMap
  <2>1. rt'.job = NoJob /\ \E ok : Ends(ok)
    BY <1>4
       DEF Refuses, Locates, Toggles, Discards, Saves, LoadsMap, MapTypeOK,
           StackTypes
  <2> QED
    BY <1>2, <2>1
<1>5. CASE StartsMapping
  <2> DEFINE graph == IF rt.st \in Restartable THEN {} ELSE rt.graph
             paused == IF rt.st \in Restartable THEN FALSE ELSE rt.paused
             begun == [rt EXCEPT !.own = rt.job.s, !.graph = graph, !.paused = paused]
  <2>1. begun.job = rt.job /\ begun \in StackTypes
    <3>1. graph \in SUBSET Numbers /\ paused \in BOOLEAN /\ rt.job.s \in Numbers
      BY DEF MapTypeOK, StackTypes, JobTypes
    <3> QED
      BY <3>1 DEF MapTypeOK, StackTypes
  <2> HIDE DEF graph, paused, begun
  <2>2. \/ /\ rt' = [begun EXCEPT !.st = "RUNNING", !.graph = graph \cup {rt.job.s}, !.job = NoJob]
           /\ Ends(TRUE)
        \/ /\ rt' = [begun EXCEPT !.st = "LOCALIZING", !.job.begun = TRUE]
           /\ UNCHANGED <<hold, seen>>
    BY <1>5 DEF StartsMapping, graph, paused, begun
  <2>3. CASE /\ rt' = [begun EXCEPT !.st = "RUNNING", !.graph = graph \cup {rt.job.s}, !.job = NoJob]
             /\ Ends(TRUE)
    <3>1. rt'.job = NoJob
      BY <2>1, <2>3 DEF StackTypes
    <3> QED
      BY <1>2, <2>3, <3>1
  <2>4. CASE rt' = [begun EXCEPT !.st = "LOCALIZING", !.job.begun = TRUE] /\ UNCHANGED <<hold, seen>>
    <3>1. rt'.job.c = begun.job.c /\ rt'.job.op = begun.job.op /\ rt'.job.s = begun.job.s
      BY <2>1, <2>4 DEF StackTypes, JobTypes
    <3> QED
      BY <1>3, <2>1, <2>4, <3>1
  <2> QED
    BY <2>2, <2>3, <2>4
<1>6. CASE StartsSaving
  BY <1>3, <1>6 DEF StartsSaving, edge, MapTypeOK, StackTypes, JobTypes
<1>7. CASE AutosaveBegins \/ AutosaveFails \/ AutosaveEnds
  BY <1>3, <1>7 DEF AutosaveBegins, AutosaveFails, AutosaveEnds, edge, MapTypeOK, StackTypes
<1> QED
  BY <1>4, <1>5, <1>6, <1>7 DEF AdapterStep

LEMMA OtherCalls ==
  ASSUME MapTypeOK, CallInv,
         \/ Health \/ Poll \/ EdgeCrash
         \/ \E s \in Sessions : Upload(s) \/ Uploaded(s) \/ Resync(s)
         \/ Supervisor \/ SupFails \/ SupCrash \/ Boot \/ StackCrash
  PROVE  CallInv'
<1>1. CASE UNCHANGED <<task, ask, hold>> /\ (UNCHANGED rt \/ rt'.job = NoJob)
  BY <1>1, SameCalls DEF CallInv, Called, NoJob
<1>2. CASE EdgeCrash
  <2>1. \A c \in Calls : task'[c].pc = "idle"
    BY <1>2 DEF EdgeCrash, NoTask
  <2>2. \A c \in Calls : ask'[c] = ask[c] \/ ask'[c].op = "none"
    BY <1>2 DEF EdgeCrash, Served, NoAsk
  <2>3. hold' = Free /\ rt'.job.c = NoCall
    BY <1>2 DEF EdgeCrash, MapTypeOK, StackTypes, JobTypes
  <2> QED
    BY <2>1, <2>2, <2>3 DEF CallInv, Owned, About, Called, Free
<1>3. CASE Health \/ Poll \/ \E s \in Sessions : Upload(s) \/ Uploaded(s)
           \/ Resync(s)
  BY <1>1, <1>3 DEF Health, Poll, Upload, Uploaded, Resync, center, edge
<1>4. CASE SupTakes \/ SupChecks \/ SupAwaits \/ SupFails \/ SupCrash
  BY <1>1, <1>4
     DEF SupTakes, SupChecks, SupAwaits, SupFails, SupCrash, center, edge
<1>5. CASE SupStops
  <2>1. rt' = NoStack \/ rt' = [rt EXCEPT !.reach = FALSE]
    BY <1>5 DEF SupStops
  <2>2. rt'.job = NoJob \/ rt'.job = rt.job
    BY <2>1 DEF NoStack, MapTypeOK, StackTypes
  <2> QED
    BY <1>5, <2>2, SameCalls DEF SupStops, center, edge, CallInv, Called, NoJob
<1>6. CASE SupStarts \/ Boot \/ StackCrash
  <2>1. rt' = NoStack \/ \E mode : rt' = Fresh(mode)
    BY <1>6 DEF SupStarts, Boot, StackCrash
  <2>2. NoStack.job = NoJob
    BY DEF NoStack
  <2>3. \A mode : Fresh(mode).job = NoStack.job
    BY ConstantTypes DEF Fresh, StackTypes
  <2>4. rt'.job = NoJob
    BY <2>1, <2>2, <2>3
  <2> QED
    BY <1>1, <1>6, <2>4 DEF SupStarts, Boot, StackCrash, center, edge
<1> QED
  BY <1>2, <1>3, <1>4, <1>5, <1>6 DEF Supervisor

\* The requests, the tasks, the holder of the lock and the adapter's job belong together.
LEMMA CallsInvariant == Spec => []CallInv
<1>1. Init => CallInv
  BY
     DEF Init, CallInv, Owned, About, Called, NoTask, NoAsk, Free, Fresh,
         NoStack, NoJob
<1>2. MapTypeOK /\ CallInv /\ [Next]_vars => CallInv'
  <2>1. ASSUME MapTypeOK, CallInv, Next PROVE CallInv'
    BY <2>1, CenterCalls, EdgeCalls, AdapterCalls, OtherCalls DEF Next
  <2>2. ASSUME MapTypeOK, CallInv, UNCHANGED vars PROVE CallInv'
    BY <2>2, SameCalls DEF vars, center, edge, CallInv, Called
  <2> QED
    BY <2>1, <2>2
<1> QED
  BY <1>1, <1>2, MapTypeCorrect, PTL DEF Spec
-----------------------------------------------------------------------------
(* What a request expects.                                                 *)

\* A request that is asked expects what the panel shows.
LEMMA AskAsks ==
  ASSUME MapTypeOK, Asking, NEW c \in Calls, NEW op, NEW s, NEW exp, Ask(c, op, s, exp),
         exp \in From(IF op = "recover" THEN "start" ELSE op)
  PROVE  Asking'
<1>1. /\ \A d \in Calls \ {c} : task'[d] = task[d]
      /\ task'[c] = [pc |-> "new", op |-> op, exp |-> exp]
  BY DEF Ask, MapTypeOK
<1>2. Sent(c)' = (IF op = "recover" THEN "start" ELSE op)
  BY <1>1 DEF Sent
<1>3. \A d \in Calls \ {c} : Sent(d)' = Sent(d)
  BY <1>1 DEF Sent
<1> QED
  BY <1>1, <1>2, <1>3 DEF Asking

LEMMA RespondAsks ==
  ASSUME MapTypeOK, Asking, NEW c \in Calls, NEW ok, NEW st, Respond(c, ok, st)
  PROVE  Asking'
<1>1. task'[c].pc = "idle" /\ \A d \in Calls \ {c} : task'[d] = task[d]
  BY DEF Respond, NoTask, MapTypeOK
<1>2. \A d \in Calls \ {c} : Sent(d)' = Sent(d)
  BY <1>1 DEF Sent
<1> QED
  BY <1>1, <1>2 DEF Asking

LEMMA SameAsks == ASSUME Asking, UNCHANGED task PROVE Asking'
<1>1. \A d : Sent(d)' = Sent(d)
  BY DEF Sent
<1> QED
  BY <1>1 DEF Asking

LEMMA CenterAsks == ASSUME MapTypeOK, Asking, NEW c \in Calls, CenterStep(c) PROVE Asking'
<1>1. CASE Start(c)
  <2>1. PICK s \in Sessions : Ask(c, "start", s, "IDLE")
    BY <1>1 DEF Start
  <2>2. "IDLE" \in From("start")
    BY DEF From
  <2> QED
    BY <2>1, <2>2, AskAsks
<1>2. CASE LoadMap(c)
  <2>1. "none" \in From("load")
    BY DEF From, Statuses
  <2> QED
    BY <1>2, <2>1, AskAsks DEF LoadMap
<1>3. ASSUME NEW s \in Sessions, NEW op \in Ops, Act(c, s, op) PROVE Asking'
  <2>1. CASE op = "recover"
    <3>1. "IDLE" \in From("start")
      BY DEF From
    <3> QED
      BY <1>3, <2>1, <3>1, AskAsks DEF Act
  <2>2. CASE op # "recover"
    <3>1. row[s] \in From(op)
      BY <1>3 DEF Act, From, MapTypeOK
    <3>2. Ask(c, op, s, row[s])
      BY <1>3, <2>2 DEF Act
    <3> QED
      BY <2>2, <3>1, <3>2, AskAsks
  <2> QED
    BY <2>1, <2>2
<1>4. CASE Commit(c) \/ AskTimesOut(c)
  BY <1>4, SameAsks DEF Commit, AskTimesOut, edge
<1> QED
  BY <1>1, <1>2, <1>3, <1>4 DEF CenterStep

LEMMA EdgeAsks ==
  ASSUME MapTypeOK, Asking, CallInv, NEW c \in Calls, EdgeStep(c)
  PROVE  Asking'
<1>1. CASE Unserved(c)
  BY <1>1, RespondAsks DEF Unserved
<1>2. CASE Acquire(c) \/ Ensure(c) \/ Switched(c) \/ SwitchFails(c)
           \/ CallFails(c)
  BY <1>2, SameAsks DEF Acquire, Ensure, Switched, SwitchFails, CallFails
<1>3. CASE Queue(c)
  BY <1>3, RespondAsks DEF Queue
<1>4. CASE ToNavigation(c)
  <2>1. /\ \A d \in Calls \ {c} : task'[d] = task[d]
        /\ task[c].pc = "saved" /\ task'[c].pc = "queue"
        /\ task'[c].op = task[c].op /\ task'[c].exp = task[c].exp
    BY <1>4 DEF ToNavigation, MapTypeOK, TaskTypes
  <2>2. \A d \in Calls : Sent(d)' = Sent(d)
    BY <2>1 DEF Sent
  <2> QED
    BY <2>1, <2>2 DEF Asking
<1>5. CASE Release(c)
  <2>1. CASE \E ok, st : Respond(c, ok, st)
    BY <2>1, RespondAsks
  <2>2. CASE Sent(c) \in {"save", "finish"} /\ task' = [task EXCEPT ![c].pc = "saved"]
    <3>1. /\ \A d \in Calls \ {c} : task'[d] = task[d]
          /\ task'[c].pc = "saved" /\ task'[c].op = task[c].op /\ task'[c].exp = task[c].exp
      BY <2>2 DEF MapTypeOK, TaskTypes
    <3>2. task[c].op # "recover"
      BY <2>2 DEF Sent
    <3>3. \A d \in Calls : Sent(d)' = Sent(d)
      BY <3>1, <3>2 DEF Sent
    <3>4. task[c].pc # "idle"
      BY <1>5, Callee DEF Release, CallInv, Called, NoCall
    <3> QED
      BY <3>1, <3>3, <3>4 DEF Asking
  <2>3. CASE /\ task[c].op = "recover"
             /\ task' = [task EXCEPT ![c].pc = "again", ![c].exp = "RUNNING"]
    <3>1. /\ \A d \in Calls \ {c} : task'[d] = task[d]
          /\ task'[c].pc = "again" /\ task'[c].op = "recover" /\ task'[c].exp = "RUNNING"
      BY <2>3 DEF MapTypeOK, TaskTypes
    <3>2. Sent(c)' = "pause" /\ \A d \in Calls \ {c} : Sent(d)' = Sent(d)
      BY <3>1 DEF Sent
    <3>3. "RUNNING" \in From("pause")
      BY DEF From, Before
    <3> QED
      BY <3>1, <3>2, <3>3 DEF Asking
  <2> QED
    BY <1>5, <2>1, <2>2, <2>3 DEF Release
<1> QED
  BY <1>1, <1>2, <1>3, <1>4, <1>5 DEF EdgeStep

LEMMA AsksStep == ASSUME MapTypeOK, Asking, CallInv, [Next]_vars PROVE Asking'
<1>1. CASE UNCHANGED task
  BY <1>1, SameAsks
<1>2. CASE EdgeCrash
  <2>1. \A c \in Calls : task'[c].pc = "idle"
    BY <1>2 DEF EdgeCrash, NoTask
  <2> QED
    BY <2>1 DEF Asking
<1>3. ASSUME NEW s \in Sessions, Upload(s) \/ Uploaded(s) \/ Resync(s)
      PROVE UNCHANGED task
  BY <1>3 DEF Upload, Uploaded, Resync, edge
<1>4. CASE Health \/ Poll \/ Supervisor \/ SupFails \/ SupCrash \/ Boot
           \/ StackCrash
  BY <1>1, <1>4
     DEF Health, Poll, Supervisor, SupTakes, SupChecks, SupStops,
         SupStarts, SupAwaits,
                    SupFails, SupCrash, Boot, StackCrash, edge
<1>5. CASE AdapterStep
  BY <1>1, <1>5
     DEF AdapterStep, Refuses, StartsMapping, Locates, Toggles, Discards,
         StartsSaving,
                    Saves, LoadsMap, AutosaveBegins, AutosaveFails, AutosaveEnds, edge
<1>6. CASE UNCHANGED vars
  BY <1>1, <1>6 DEF vars, edge
<1> QED
  BY <1>1, <1>2, <1>3, <1>4, <1>5, <1>6, CenterAsks, EdgeAsks DEF Next
-----------------------------------------------------------------------------
(* What the adapter says and what SLAM does.                               *)

SlamState == Expecting /\ Working /\ Autosaving /\ Measuring

\* What touches neither SLAM nor the job.
LEMMA SameSlam ==
  ASSUME SlamState, UNCHANGED autosave, UNCHANGED <<rt.st, rt.own, rt.paused, rt.doubt>>,
         UNCHANGED <<rt.job.op, rt.job.exp, rt.job.begun>>
  PROVE  SlamState'
BY DEF SlamState, Expecting, Working, Autosaving, Measuring

\* A job that ends, or was not there, and has changed nothing but the doubt.
LEMMA SlamWithoutJob ==
  ASSUME SlamState, UNCHANGED autosave, UNCHANGED <<rt.st, rt.own, rt.paused>>,
         rt'.job = NoJob, ~rt.job.begun, rt.doubt => rt'.doubt
  PROVE  SlamState'
<1>1. ~rt'.job.begun /\ rt'.job.op = "none" /\ rt'.job.exp \in From("none")
  BY DEF NoJob, From, Statuses
<1> QED
  BY <1>1 DEF SlamState, Expecting, Working, Autosaving, Measuring

LEMMA FreshSlam ==
  ASSUME rt'.st \in {"none", "IDLE", "READY"}, rt'.own = 0, rt'.paused = FALSE, rt'.job = NoJob,
         autosave' = "idle"
  PROVE  SlamState'
<1>1. ~rt'.job.begun /\ rt'.job.op = "none" /\ rt'.job.exp \in From("none")
  BY DEF NoJob, From, Statuses
<1> QED
  BY <1>1 DEF SlamState, Expecting, Working, Autosaving, Measuring

\* A stack as it comes up.
LEMMA FreshStack ==
  /\ NoStack.st = "none" /\ NoStack.own = 0
  /\ NoStack.paused = FALSE /\ NoStack.job = NoJob
  /\ \A mode : /\ Fresh(mode).st \in {"IDLE", "READY"} /\ Fresh(mode).own = 0
               /\ Fresh(mode).paused = FALSE /\ Fresh(mode).job = NoJob
<1>1. /\ NoStack.st = "none" /\ NoStack.own = 0
      /\ NoStack.paused = FALSE /\ NoStack.job = NoJob
  BY DEF NoStack
<1>2. ASSUME NEW mode
      PROVE  /\ Fresh(mode).st \in {"IDLE", "READY"} /\ Fresh(mode).own = NoStack.own
             /\ Fresh(mode).paused = NoStack.paused /\ Fresh(mode).job = NoStack.job
  BY ConstantTypes DEF Fresh, StackTypes
<1> QED
  BY <1>1, <1>2

\* A job is submitted to an adapter that has none.
LEMMA SubmitSlam ==
  ASSUME MapTypeOK, SlamState, NEW c \in Calls, NEW exp \in Statuses, Submit(c, exp),
         rt.job = NoJob,
         UNCHANGED autosave,
         \/ exp \in From(Sent(c))
         \/ hold.pc = "wait" /\ exp = rt.st
  PROVE  SlamState'
<1>1. /\ UNCHANGED <<rt.st, rt.own, rt.paused>>
      /\ rt'.job = [op |-> Sent(c), s |-> ask[c].s, c |-> c, exp |-> exp, begun |-> FALSE]
      /\ rt'.doubt = (rt.doubt \/ (hold.pc = "wait" /\ rt.st \notin {"IDLE", "READY"}))
  BY DEF Submit, MapTypeOK, StackTypes
<1>2. rt'.job.op = Sent(c) /\ rt'.job.exp = exp /\ rt'.job.begun = FALSE /\ rt.job.begun = FALSE
  BY <1>1 DEF NoJob
<1>3. rt.doubt => rt'.doubt
  BY <1>1
<1>4. Expecting'
  BY <1>1, <1>2 DEF Expecting
<1>5. Working'
  BY <1>1, <1>2, <1>3 DEF SlamState, Working
<1>6. Autosaving' /\ Measuring'
  BY <1>1, <1>2, <1>3 DEF SlamState, Autosaving, Measuring
<1> QED
  BY <1>4, <1>5, <1>6 DEF SlamState

LEMMA EdgeSlam ==
  ASSUME MapTypeOK, Asking, CallInv, SlamState, NEW c \in Calls, EdgeStep(c)
  PROVE  SlamState'
<1>1. CASE UNCHANGED <<rt, autosave>>
  BY <1>1, SameSlam
<1>2. CASE Unserved(c) \/ Acquire(c) \/ SwitchFails(c) \/ Release(c)
           \/ ToNavigation(c) \/ Queue(c)
  BY <1>1, <1>2
     DEF Unserved, Acquire, SwitchFails, Release, ToNavigation, Queue
<1>3. CASE Ensure(c)
  <2>1. CASE Answers(Mode(task[c].op)) /\ Submit(c, task[c].exp)
    <3>1. task[c].exp \in Statuses
      BY DEF MapTypeOK, TaskTypes
    <3>2. task[c].pc # "idle"
      BY <1>3, Callee DEF Ensure, CallInv, Called, NoCall
    <3>3. task[c].exp \in From(Sent(c))
      BY <3>2 DEF Asking
    <3> QED
      BY <1>3, <2>1, <3>1, <3>3, SubmitSlam DEF Ensure, Answers
  <2> QED
    BY <1>1, <1>3, <2>1 DEF Ensure
<1>4. CASE Switched(c)
  <2>1. rt.st \in Statuses
    BY DEF MapTypeOK, StackTypes
  <2> QED
    BY <1>4, <2>1, SubmitSlam DEF Switched, Answers
<1>5. CASE CallFails(c)
  <2>1. rt' = rt \/ rt' = [rt EXCEPT !.job.c = NoCall]
    BY <1>5 DEF CallFails
  <2>2. /\ UNCHANGED <<rt.st, rt.own, rt.paused, rt.doubt>>
        /\ UNCHANGED <<rt.job.op, rt.job.exp, rt.job.begun>>
    BY <2>1 DEF MapTypeOK, StackTypes, JobTypes
  <2> QED
    BY <1>5, <2>2, SameSlam DEF CallFails
<1> QED
  BY <1>2, <1>3, <1>4, <1>5 DEF EdgeStep

\* What a job that may begin finds.
LEMMA ReadySlam ==
  ASSUME MapTypeOK, SlamState, NEW op, Ready(op)
  PROVE  /\ rt.job.op = op /\ ~rt.job.begun /\ autosave = "idle"
         /\ rt.st # "LOCALIZING" /\ (rt.st = "SAVING" => rt.doubt)
         /\ op \in {"stop", "pause", "resume"} /\ ~rt.doubt =>
              rt.st \in Before(op) \cup {"IDLE", "READY"}
         /\ op = "start" /\ ~rt.doubt => rt.st \in {"IDLE", "READY"} \cup Restartable
<1>1. rt.job.op = op /\ ~rt.job.begun /\ autosave = "idle" /\ Expected
  BY DEF Ready, LockFree
<1>2. rt.st # "LOCALIZING" /\ (rt.st = "SAVING" => rt.doubt)
  BY <1>1 DEF SlamState, Working
<1>3. ASSUME op \in {"stop", "pause", "resume"}, ~rt.doubt
      PROVE  rt.st \in Before(op) \cup {"IDLE", "READY"}
  <2>1. rt.job.exp \in Before(op) \cup {"IDLE", "READY"}
    BY <1>1, <1>3 DEF SlamState, Expecting, From
  <2>2. "none" \notin Before(op) \cup {"IDLE", "READY"}
    BY <1>3 DEF Before
  <2>3. rt.job.exp \in {"none", rt.st}
    BY <1>1, <1>3 DEF Expected
  <2> QED
    BY <2>1, <2>2, <2>3
<1>4. ASSUME op = "start", ~rt.doubt PROVE rt.st \in {"IDLE", "READY"} \cup Restartable
  <2>1. rt.job.exp \in {"IDLE", "READY"}
    BY <1>1, <1>4 DEF SlamState, Expecting, From
  <2> QED
    BY <1>1, <2>1 DEF Expected
<1> QED
  BY <1>1, <1>2, <1>3, <1>4
\* A toggle that succeeds from another state inverts what was right before.
LEMMA TogglesSlam == ASSUME MapTypeOK, SlamState, Toggles PROVE SlamState'
<1>1. PICK op \in {"stop", "pause", "resume"} : Ready(op) /\ rt.job.op = op
  BY DEF Toggles
<1>2. /\ ~rt.job.begun /\ autosave = "idle" /\ rt.st # "LOCALIZING"
      /\ (rt.st = "SAVING" => rt.doubt)
      /\ ~rt.doubt => rt.st \in Before(op) \cup {"IDLE", "READY"}
  BY <1>1, ReadySlam
<1>3. autosave' = "idle"
  BY <1>2 DEF Toggles
<1>4. NoJob.op = "none" /\ NoJob.begun = FALSE /\ NoJob.exp \in From(NoJob.op)
  BY DEF NoJob, From, Statuses
<1>5. CASE rt' = [rt EXCEPT !.paused = ~@, !.doubt = TRUE, !.job = NoJob]
  <2>1. rt'.st = rt.st /\ rt'.own = rt.own /\ rt'.doubt = TRUE /\ rt'.job = NoJob
    BY <1>5 DEF MapTypeOK, StackTypes
  <2> QED
    BY <1>2, <1>3, <1>4, <2>1 DEF SlamState, Expecting, Working, Autosaving, Measuring
<1>6. CASE rt' = [rt EXCEPT !.st = Target(rt.job.op), !.paused = ~@, !.job = NoJob,
                            !.doubt = @ \/ rt.st = Target(rt.job.op)]
  <2>1. /\ rt'.st = Target(op) /\ rt'.own = rt.own /\ rt'.job = NoJob
        /\ rt'.paused = (~rt.paused) /\ rt'.doubt = (rt.doubt \/ rt.st = Target(op))
    BY <1>1, <1>6 DEF MapTypeOK, StackTypes
  <2>2. Target(op) = (IF op = "stop" THEN "STOPPED" ELSE IF op = "pause" THEN "PAUSED" ELSE "RUNNING")
    BY <1>1 DEF Target
  <2>3. Expecting' /\ Working' /\ Autosaving'
    BY <1>2, <1>3, <1>4, <2>1, <2>2 DEF SlamState, Expecting, Working, Autosaving
  <2>4. ASSUME ~rt'.doubt, rt'.own # 0 PROVE rt'.paused <=> op # "resume"
    <3>1. /\ ~rt.doubt /\ rt.own # 0 /\ rt.st # Target(op)
          /\ rt.st \in Before(op) \cup {"IDLE", "READY"}
      BY <1>2, <2>1, <2>4
    <3>2. rt.st \notin {"none", "IDLE", "READY", "STARTING", "LOCALIZING", "SAVING"}
      BY <1>2, <3>1 DEF SlamState, Working
    <3>3. IF op = "resume" THEN rt.st \in {"STOPPED", "PAUSED"} ELSE rt.st = "RUNNING"
      BY <1>1, <2>2, <3>1, <3>2 DEF Before
    <3>4. rt.paused <=> op = "resume"
      BY <1>2, <3>1, <3>3 DEF SlamState, Measuring
    <3> QED
      BY <2>1, <3>4
  <2>5. Measuring'
    BY <1>1, <1>3, <2>1, <2>2, <2>4 DEF Measuring
  <2> QED
    BY <2>3, <2>5 DEF SlamState
<1> QED
  BY <1>5, <1>6 DEF Toggles

LEMMA StartsSlam == ASSUME MapTypeOK, SlamState, StartsMapping PROVE SlamState'
<1> DEFINE graph == IF rt.st \in Restartable THEN {} ELSE rt.graph
           paused == IF rt.st \in Restartable THEN FALSE ELSE rt.paused
           begun == [rt EXCEPT !.own = rt.job.s, !.graph = graph, !.paused = paused]
<1>1. /\ ~rt.job.begun /\ autosave = "idle" /\ rt.job.op = "start"
      /\ ~rt.doubt => rt.st \in {"IDLE", "READY"} \cup Restartable
  BY ReadySlam DEF StartsMapping
<1>2. autosave' = "idle" /\ (~rt.doubt => paused = FALSE)
  BY <1>1 DEF StartsMapping, SlamState, Measuring
<1>3. begun.job = rt.job /\ begun.doubt = rt.doubt /\ begun.paused = paused /\ begun \in StackTypes
  <2>1. graph \in SUBSET Numbers /\ paused \in BOOLEAN /\ rt.job.s \in Numbers
    BY DEF MapTypeOK, StackTypes, JobTypes
  <2> QED
    BY <2>1 DEF MapTypeOK, StackTypes
<1>4. NoJob.op = "none" /\ NoJob.begun = FALSE /\ NoJob.exp \in From(NoJob.op)
  BY DEF NoJob, From, Statuses
<1>5. \/ rt' = [begun EXCEPT !.st = "RUNNING", !.graph = graph \cup {rt.job.s}, !.job = NoJob]
      \/ rt' = [begun EXCEPT !.st = "LOCALIZING", !.job.begun = TRUE]
  BY DEF StartsMapping
<1> HIDE DEF graph, paused, begun
<1>6. CASE rt' = [begun EXCEPT !.st = "RUNNING", !.graph = graph \cup {rt.job.s}, !.job = NoJob]
  <2>1. rt'.st = "RUNNING" /\ rt'.job = NoJob /\ rt'.doubt = rt.doubt /\ rt'.paused = paused
    BY <1>3, <1>6 DEF StackTypes
  <2> QED
    BY <1>2, <1>4, <2>1 DEF SlamState, Expecting, Working, Autosaving, Measuring
<1>7. CASE rt' = [begun EXCEPT !.st = "LOCALIZING", !.job.begun = TRUE]
  <2>1. /\ rt'.st = "LOCALIZING" /\ rt'.doubt = rt.doubt /\ rt'.paused = paused
        /\ rt'.job.begun = TRUE /\ rt'.job.op = rt.job.op /\ rt'.job.exp = rt.job.exp
    BY <1>3, <1>7 DEF StackTypes, JobTypes
  <2> QED
    BY <1>1, <1>2, <2>1 DEF SlamState, Expecting, Working, Autosaving, Measuring
<1> QED
  BY <1>5, <1>6, <1>7

\* What ends a job in a state in which SLAM is not looked at.
LEMMA SettledSlam ==
  ASSUME rt'.st \in Restartable, rt'.job = NoJob, autosave' = "idle"
  PROVE  SlamState'
<1>1. rt'.job.op = "none" /\ rt'.job.begun = FALSE /\ rt'.job.exp \in From("none")
  BY DEF NoJob, From, Statuses
<1> QED
  BY <1>1 DEF SlamState, Expecting, Working, Autosaving, Measuring, Restartable

LEMMA AdapterSlam == ASSUME MapTypeOK, SlamState, AdapterStep PROVE SlamState'
<1>1. CASE Refuses
  <2>1. rt' = [rt EXCEPT !.job = NoJob] /\ ~rt.job.begun /\ UNCHANGED autosave
    BY <1>1 DEF Refuses
  <2>2. UNCHANGED <<rt.st, rt.own, rt.paused, rt.doubt>> /\ rt'.job = NoJob
    BY <2>1 DEF MapTypeOK, StackTypes
  <2> QED
    BY <2>1, <2>2, SlamWithoutJob
<1>2. CASE Locates
  <2>1. /\ rt.job.begun /\ rt.st = "LOCALIZING" /\ autosave = "idle" /\ autosave' = "idle"
        /\ ~rt.doubt => ~rt.paused
    BY <1>2 DEF Locates, SlamState, Working, Autosaving, Measuring
  <2>2. PICK ok \in BOOLEAN :
          rt' = [rt EXCEPT !.st = IF ok THEN "RUNNING" ELSE "ERROR", !.job = NoJob,
                           !.graph = IF ok THEN @ \cup {rt.job.s} ELSE @]
    BY <1>2 DEF Locates
  <2>3. rt'.st \in {"RUNNING", "ERROR"} /\ rt'.job = NoJob /\ UNCHANGED <<rt.doubt, rt.paused>>
    BY <2>2 DEF MapTypeOK, StackTypes
  <2>4. rt'.job.op = "none" /\ rt'.job.begun = FALSE /\ rt'.job.exp \in From("none")
    BY <2>3 DEF NoJob, From, Statuses
  <2> QED
    BY <2>1, <2>3, <2>4 DEF SlamState, Expecting, Working, Autosaving, Measuring
<1>3. CASE Discards
  <2>1. rt' = [rt EXCEPT !.st = "CANCELED", !.job = NoJob] /\ UNCHANGED autosave /\ autosave = "idle"
    BY <1>3, ReadySlam DEF Discards
  <2>2. rt'.st = "CANCELED" /\ rt'.job = NoJob
    BY <2>1 DEF MapTypeOK, StackTypes
  <2> QED
    BY <2>1, <2>2, SettledSlam DEF Restartable
<1>4. CASE StartsSaving
  <2>1. /\ rt' = [rt EXCEPT !.st = "SAVING", !.job.begun = TRUE] /\ UNCHANGED autosave
        /\ autosave = "idle" /\ rt.job.op \in {"save", "finish"}
    BY <1>4, ReadySlam DEF StartsSaving
  <2>2. /\ rt'.st = "SAVING" /\ rt'.job.begun = TRUE /\ rt'.job.op = rt.job.op
        /\ rt'.job.exp = rt.job.exp /\ rt'.doubt = rt.doubt
    BY <2>1 DEF MapTypeOK, StackTypes, JobTypes
  <2> QED
    BY <2>1, <2>2 DEF SlamState, Expecting, Working, Autosaving, Measuring
<1>5. CASE Saves
  <2>1. /\ rt.job.begun /\ rt.st = "SAVING" /\ autosave = "idle" /\ autosave' = "idle"
    BY <1>5 DEF Saves, SlamState, Working, Autosaving
  <2>2. CASE rt' = [rt EXCEPT !.st = "FINISHED", !.job = NoJob]
    <3>1. rt'.st = "FINISHED" /\ rt'.job = NoJob
      BY <2>2 DEF MapTypeOK, StackTypes
    <3> QED
      BY <2>1, <3>1, SettledSlam DEF Restartable
  <2>3. CASE rt' = [rt EXCEPT !.job = NoJob, !.doubt = TRUE]
    <3>1. rt'.st = "SAVING" /\ rt'.job = NoJob /\ rt'.doubt = TRUE
      BY <2>1, <2>3 DEF MapTypeOK, StackTypes
    <3>2. rt'.job.op = "none" /\ rt'.job.begun = FALSE
      BY <3>1 DEF NoJob
    <3> QED
      BY <2>1, <3>1, <3>2 DEF SlamState, Expecting, Working, Autosaving, Measuring
  <2> QED
    BY <1>5, <2>2, <2>3 DEF Saves
<1>6. CASE LoadsMap
  <2>1. rt' = [rt EXCEPT !.job = NoJob] /\ ~rt.job.begun /\ UNCHANGED autosave
    BY <1>6, ReadySlam DEF LoadsMap
  <2>2. UNCHANGED <<rt.st, rt.own, rt.paused, rt.doubt>> /\ rt'.job = NoJob
    BY <2>1 DEF MapTypeOK, StackTypes
  <2> QED
    BY <2>1, <2>2, SlamWithoutJob
<1>7. CASE AutosaveBegins
  <2>1. /\ autosave = "idle" /\ ~rt.job.begun /\ rt.own # 0 /\ rt.st \in {"RUNNING", "PAUSED"}
        /\ autosave' = (IF rt.st = "RUNNING" THEN "frozen" ELSE "paused")
        /\ rt' = (IF rt.st = "RUNNING" THEN [rt EXCEPT !.paused = ~@] ELSE rt)
    BY <1>7 DEF AutosaveBegins, LockFree
  <2>2. /\ UNCHANGED <<rt.st, rt.own, rt.doubt, rt.job>>
        /\ rt.st = "RUNNING" => rt'.paused = (~rt.paused)
        /\ rt.st = "PAUSED" => rt'.paused = rt.paused
    BY <2>1 DEF MapTypeOK, StackTypes
  <2> QED
    BY <2>1, <2>2 DEF SlamState, Expecting, Working, Autosaving, Measuring
<1>8. CASE AutosaveFails
  <2>1. /\ autosave = "idle" /\ ~rt.job.begun /\ rt.own # 0 /\ rt.st = "RUNNING"
        /\ UNCHANGED autosave /\ rt' = [rt EXCEPT !.paused = ~@, !.doubt = TRUE]
    BY <1>8 DEF AutosaveFails, LockFree
  <2>2. UNCHANGED <<rt.st, rt.own, rt.job>> /\ rt'.doubt = TRUE
    BY <2>1 DEF MapTypeOK, StackTypes
  <2> QED
    BY <2>1, <2>2 DEF SlamState, Expecting, Working, Autosaving, Measuring
<1>9. CASE AutosaveEnds
  <2>1. autosave # "idle" /\ autosave' = "idle" /\ ~rt.job.begun
    BY <1>9 DEF AutosaveEnds, SlamState, Autosaving
  <2>2. CASE autosave = "frozen" /\ rt' = [rt EXCEPT !.st = "ERROR"]
    <3>1. rt'.st = "ERROR" /\ UNCHANGED <<rt.own, rt.doubt, rt.job>>
      BY <2>2 DEF MapTypeOK, StackTypes
    <3> QED
      BY <2>1, <3>1 DEF SlamState, Expecting, Working, Autosaving, Measuring
  <2>3. CASE rt' = [rt EXCEPT !.paused = IF autosave = "frozen" THEN ~@ ELSE @]
    <3>1. /\ UNCHANGED <<rt.st, rt.own, rt.doubt, rt.job>>
          /\ rt'.paused = (IF autosave = "frozen" THEN ~rt.paused ELSE rt.paused)
      BY <2>3 DEF MapTypeOK, StackTypes
    <3>2. /\ autosave = "frozen" => rt.st = "RUNNING" /\ rt.own # 0
          /\ autosave = "paused" => rt.st = "PAUSED" /\ rt.own # 0
          /\ autosave = "frozen" \/ autosave = "paused"
      BY <2>1 DEF SlamState, Autosaving, MapTypeOK
    <3> QED
      BY <2>1, <3>1, <3>2 DEF SlamState, Expecting, Working, Autosaving, Measuring
  <2> QED
    BY <1>9, <2>2, <2>3 DEF AutosaveEnds
<1> QED
  BY <1>1, <1>2, <1>3, <1>4, <1>5, <1>6, <1>7, <1>8, <1>9, TogglesSlam,
     StartsSlam DEF AdapterStep

LEMMA SlamStep == ASSUME MapTypeOK, Asking, CallInv, SlamState, [Next]_vars PROVE SlamState'
<1>1. CASE UNCHANGED <<rt, autosave>>
  BY <1>1, SameSlam
<1>2. ASSUME NEW c \in Calls, CenterStep(c) PROVE UNCHANGED <<rt, autosave>>
  BY <1>2 DEF CenterStep, Start, LoadMap, Commit, AskTimesOut, Act, edge
<1>3. ASSUME NEW s \in Sessions, Upload(s) \/ Uploaded(s) \/ Resync(s)
      PROVE  UNCHANGED <<rt, autosave>>
  BY <1>3 DEF Upload, Uploaded, Resync
<1>4. CASE Health \/ Poll \/ SupTakes \/ SupChecks \/ SupAwaits
           \/ SupFails \/ SupCrash
  BY <1>1, <1>4
     DEF Health, Poll, SupTakes, SupChecks, SupAwaits, SupFails, SupCrash
<1>5. CASE EdgeCrash
  <2>1. rt' = [rt EXCEPT !.job.c = NoCall] /\ UNCHANGED autosave
    BY <1>5 DEF EdgeCrash
  <2>2. /\ UNCHANGED <<rt.st, rt.own, rt.paused, rt.doubt>>
        /\ UNCHANGED <<rt.job.op, rt.job.exp, rt.job.begun>>
    BY <2>1 DEF MapTypeOK, StackTypes, JobTypes
  <2> QED
    BY <2>1, <2>2, SameSlam
<1>6. CASE SupStarts \/ StackCrash
  BY <1>6, FreshStack, FreshSlam DEF SupStarts, StackCrash
<1>7. CASE SupStops
  <2>1. CASE rt' = [rt EXCEPT !.reach = FALSE] /\ UNCHANGED autosave
    <3>1. /\ UNCHANGED <<rt.st, rt.own, rt.paused, rt.doubt>>
          /\ UNCHANGED <<rt.job.op, rt.job.exp, rt.job.begun>>
      BY <2>1 DEF MapTypeOK, StackTypes
    <3> QED
      BY <2>1, <3>1, SameSlam
  <2> QED
    BY <1>7, <2>1, FreshStack, FreshSlam DEF SupStops
<1>8. CASE Boot
  <2>1. PICK mode : rt' = Fresh(mode)
    BY <1>8 DEF Boot
  <2>2. rt.own = 0 /\ UNCHANGED autosave
    BY <1>8, FreshStack DEF Boot
  <2>3. autosave' = "idle"
    BY <2>2 DEF SlamState, Autosaving, MapTypeOK
  <2> QED
    BY <2>1, <2>3, FreshStack, FreshSlam
<1>9. CASE UNCHANGED vars
  BY <1>1, <1>9 DEF vars
<1> QED
  BY <1>1, <1>2, <1>3, <1>4, <1>5, <1>6, <1>7, <1>8, <1>9, EdgeSlam, AdapterSlam
     DEF Next, Supervisor

\* SLAM measures while the adapter says that it maps, and does not while it says that it does
\* not, although both commands and the autosave toggle it, as long as none of the toggles that
\* doubt stands for went wrong (_mapping_command_locked, _autosave_posegraph).
THEOREM SlamFollows == Spec => []SlamFollowsState
<1>1. Init => Asking /\ SlamState
  <2>1. Init => Asking
    BY DEF Init, Asking, NoTask
  <2>2. Init => SlamState
    <3>1. ASSUME Init PROVE SlamState
      <4>1. rt.st \in {"IDLE", "READY"} /\ rt.own = 0 /\ rt.paused = FALSE /\ rt.job = NoJob
        BY <3>1, FreshStack DEF Init
      <4>2. rt.job.begun = FALSE /\ rt.job.op = "none" /\ rt.job.exp \in From("none")
        BY <4>1 DEF NoJob, From, Statuses
      <4> QED
        BY <3>1, <4>1, <4>2 DEF Init, SlamState, Expecting, Working, Autosaving, Measuring
    <3> QED
      BY <3>1
  <2> QED
    BY <2>1, <2>2
<1>2. MapTypeOK /\ CallInv /\ Asking /\ SlamState /\ [Next]_vars => Asking' /\ SlamState'
  BY AsksStep, SlamStep
<1>3. SlamState => SlamFollowsState
  BY DEF SlamState, Measuring, SlamFollowsState, Follows, LockFree
<1> QED
  BY <1>1, <1>2, <1>3, MapTypeCorrect, CallsInvariant, PTL DEF Spec
-----------------------------------------------------------------------------
(* Saves, bundles and markers.                                             *)

\* The job of a save is a save, and it is about a session.
LEMMA SavesSent ==
  ASSUME MapTypeOK, CallInv, NEW c \in Calls
  PROVE  /\ task[c].pc # "idle" => (Saving(c) <=> Sent(c) \in {"save", "finish"})
         /\ Saving(c) => ask[c].s \in Sessions
BY DEF CallInv, Owned, About, Saving, Sent

\* Requests and markers as they were, and no bundle lost: an answer that is new is no save's.
LEMMA SameSaves ==
  ASSUME MapTypeOK, CallInv, Bundled, SaveIsKept, UNCHANGED <<ask, marker, stored>>,
         \A c \in Calls : task'[c].pc \in {"saved", "queue"} => task[c].pc \in {"saved", "queue"},
         \A s \in Sessions : bundle[s] # "none" => bundle'[s] # "none",
         hold'.pc = "replied" /\ hold'.ok => UNCHANGED hold \/ ~Saving(hold'.c)
  PROVE  Bundled' /\ SaveIsKept'
<1>1. hold.pc = "replied" => hold.c \in Calls
  BY DEF CallInv, Called, MapTypeOK, HoldTypes, Callers
<1>2. hold'.pc = "replied" /\ hold'.ok /\ Saving(hold'.c) => bundle'[ask[hold'.c].s] # "none"
  BY <1>1, SavesSent DEF Bundled
<1>3. \A c \in Calls : task'[c].pc \in {"saved", "queue"} =>
        Saving(c) /\ bundle'[ask[c].s] # "none"
  BY SavesSent DEF Bundled
<1>4. Bundled'
  BY <1>2, <1>3 DEF Bundled, Saving
<1> QED
  BY <1>4 DEF SaveIsKept, Acknowledged

\* One request moves on, which is not the one that holds the lock.
LEMMA OneAsk ==
  ASSUME MapTypeOK, CallInv, Bundled, SaveIsKept, NEW c \in Calls,
         \A d \in Calls \ {c} : ask'[d] = ask[d] /\ task'[d] = task[d],
         hold.c # c \/ hold'.pc # "replied", hold' = hold \/ hold'.pc # "replied",
         task'[c].pc \notin {"saved", "queue"},
         UNCHANGED <<stored, bundle>>, marker' = marker \/ marker' = marker \cup {ask[c].s},
         marker' # marker => Saving(c) /\ bundle[ask[c].s] # "none",
         ask'[c].pc = "answered" /\ ask'[c].ok =>
           \/ ask'[c].op \notin {"save", "finish"}
           \/ ask'[c].s = ask[c].s /\ ask[c].s \in marker'
  PROVE  Bundled' /\ SaveIsKept'
<1>1. hold.pc = "replied" => hold.c \in Calls
  BY DEF CallInv, Called, MapTypeOK, HoldTypes, Callers
<1>2. (hold.pc = "replied" /\ hold.ok /\ Saving(hold.c) => bundle[ask[hold.c].s] # "none")'
  <2>1. CASE hold'.pc # "replied"
    BY <2>1
  <2>2. CASE hold'.pc = "replied"
    <3>1. hold' = hold /\ hold.c \in Calls \ {c}
      BY <1>1, <2>2
    <3>2. ask'[hold.c] = ask[hold.c]
      BY <3>1
    <3> QED
      BY <3>1, <3>2 DEF Bundled, Saving
  <2> QED
    BY <2>1, <2>2
<1>3. \A d \in Calls : task'[d].pc \in {"saved", "queue"} =>
        Saving(d)' /\ bundle'[ask'[d].s] # "none"
  BY DEF Bundled, Saving
<1>4. \A s \in marker' : s \in Sessions /\ bundle'[s] # "none"
  BY SavesSent DEF Bundled
<1>5. Bundled'
  BY <1>2, <1>3, <1>4 DEF Bundled
<1>6. SaveIsKept'
  <2>1. ASSUME NEW s \in Sessions, NEW d \in Calls, ask'[d].pc = "answered", ask'[d].ok,
               ask'[d].s = s, ask'[d].op \in {"save", "finish"}
        PROVE  s \in marker' \/ stored'[s] # "none"
    <3>1. CASE d = c
      BY <2>1, <3>1
    <3>2. CASE d # c
      BY <2>1, <3>2 DEF SaveIsKept, Acknowledged
    <3> QED
      BY <3>1, <3>2
  <2> QED
    BY <2>1 DEF SaveIsKept, Acknowledged
<1> QED
  BY <1>5, <1>6

LEMMA CenterKeeps ==
  ASSUME MapTypeOK, CallInv, Bundled, SaveIsKept, NEW c \in Calls, CenterStep(c)
  PROVE  Bundled' /\ SaveIsKept'
<1>1. ASSUME NEW op, NEW s, NEW exp, Ask(c, op, s, exp), UNCHANGED <<hold, stored, disk>>
      PROVE  Bundled' /\ SaveIsKept'
  <2>1. /\ \A d \in Calls \ {c} : ask'[d] = ask[d] /\ task'[d] = task[d]
        /\ ask'[c].pc = "asked" /\ task'[c].pc = "new" /\ ask[c].pc = "idle"
    BY <1>1 DEF Ask, MapTypeOK
  <2>2. hold.c # c
    BY <2>1, Callee DEF CallInv, Owned, Called, NoCall
  <2> QED
    BY <1>1, <2>1, <2>2, OneAsk DEF disk
<1>2. CASE Start(c)
  BY <1>1, <1>2 DEF Start
<1>3. CASE LoadMap(c)
  BY <1>1, <1>3 DEF LoadMap
<1>4. ASSUME NEW s \in Sessions, NEW op \in Ops, Act(c, s, op) PROVE Bundled' /\ SaveIsKept'
  BY <1>1, <1>4 DEF Act
<1>5. CASE Commit(c)
  <2>1. /\ \A d \in Calls \ {c} : ask'[d] = ask[d]
        /\ ask'[c].pc = "done" /\ ask[c].pc = "answered"
    BY <1>5 DEF Commit, Served, NoAsk, MapTypeOK
  <2>2. task[c].pc = "idle" /\ hold.c # c
    BY <2>1, Callee DEF CallInv, Owned, Called, NoCall
  <2> QED
    BY <1>5, <2>1, <2>2, OneAsk DEF Commit, edge, disk
<1>6. CASE AskTimesOut(c)
  <2>1. /\ ask' = [ask EXCEPT ![c] = [@ EXCEPT !.pc = "left"]]
        /\ UNCHANGED <<stored, task, hold, gen, bundle, marker>>
    BY <1>6 DEF AskTimesOut, edge, disk
  <2>2. /\ \A d \in Calls : ask'[d].op = ask[d].op /\ ask'[d].s = ask[d].s
        /\ \A d \in Calls : ask'[d].pc = "answered" => ask'[d] = ask[d]
    BY <2>1 DEF MapTypeOK, AskTypes
  <2>3. hold.pc = "replied" => hold.c \in Calls
    BY DEF CallInv, Called, MapTypeOK, HoldTypes, Callers
  <2>4. Bundled'
    BY <2>1, <2>2, <2>3 DEF Bundled, Saving
  <2>5. \A s \in Sessions : Acknowledged(s)' => Acknowledged(s)
    BY <2>2 DEF Acknowledged
  <2> QED
    BY <2>1, <2>4, <2>5 DEF SaveIsKept
<1> QED
  BY <1>2, <1>3, <1>4, <1>5, <1>6 DEF CenterStep

LEMMA EdgeKeeps ==
  ASSUME MapTypeOK, CallInv, Bundled, SaveIsKept, NEW c \in Calls, EdgeStep(c)
  PROVE  Bundled' /\ SaveIsKept'
<1>1. ASSUME NEW ok, NEW st, Respond(c, ok, st)
      PROVE  /\ \A d \in Calls \ {c} : ask'[d] = ask[d] /\ task'[d] = task[d]
             /\ task'[c].pc = "idle"
             /\ ask'[c].pc = "answered" =>
                  ask'[c].ok = ok /\ ask'[c].op = ask[c].op /\ ask'[c].s = ask[c].s
  <2>1. \A d \in Calls \ {c} : ask'[d] = ask[d] /\ task'[d] = task[d]
    BY <1>1 DEF Respond, MapTypeOK
  <2>2. task'[c].pc = "idle"
    BY <1>1 DEF Respond, NoTask, MapTypeOK
  <2>3. ask[c] \in AskTypes
    BY DEF MapTypeOK
  <2>4. ask'[c] \in {[ask[c] EXCEPT !.pc = "answered", !.ok = ok, !.st = st], Served}
    BY <1>1 DEF Respond, MapTypeOK
  <2>5. Served.pc = "done"
    BY DEF Served, NoAsk
  <2> QED
    BY <2>1, <2>2, <2>3, <2>4, <2>5 DEF AskTypes
<1>2. CASE Unserved(c)
  BY <1>1, <1>2, OneAsk DEF Unserved, disk
<1>3. CASE hold'.pc # "replied" /\ UNCHANGED <<ask, task, stored, bundle, marker>>
  BY <1>3, SameSaves
<1>4. CASE Acquire(c)
  <2>1. hold'.pc = "ensure"
    BY <1>4 DEF Acquire, Free
  <2> QED
    BY <1>3, <1>4, <2>1 DEF Acquire, center, disk
<1>5. CASE Ensure(c) \/ Switched(c)
  <2>1. hold'.pc \in {"wait", "calling"}
    BY <1>5 DEF Ensure, Switched, Submit, MapTypeOK, HoldTypes
  <2> QED
    BY <1>3, <1>5, <2>1 DEF Ensure, Switched, center, disk
<1>6. CASE SwitchFails(c) \/ CallFails(c)
  <2>1. hold'.ok = FALSE
    BY <1>6 DEF SwitchFails, CallFails, Replied, MapTypeOK, HoldTypes
  <2>2. UNCHANGED <<ask, task, stored, bundle, marker>>
    BY <1>6 DEF SwitchFails, CallFails, center, disk
  <2> QED
    BY <2>1, <2>2, SameSaves
<1>7. CASE Release(c)
  <2>1. /\ hold.c = c /\ hold.pc = "replied" /\ hold'.pc = "none" /\ task[c].pc # "idle"
        /\ UNCHANGED <<stored, gen, bundle, marker>>
    BY <1>7, Callee DEF Release, Free, disk, CallInv, Called, NoCall
  <2>2. CASE \E ok, st : Respond(c, ok, st) /\ (ok => Sent(c) \notin {"save", "finish"})
    <3>1. PICK ok, st : Respond(c, ok, st) /\ (ok => Sent(c) \notin {"save", "finish"})
      BY <2>2
    <3>2. ok => ask[c].op \notin {"save", "finish"}
      BY <2>1, <3>1, SavesSent DEF Saving
    <3>3. /\ \A d \in Calls \ {c} : ask'[d] = ask[d] /\ task'[d] = task[d]
          /\ task'[c].pc = "idle"
          /\ ask'[c].pc = "answered" => ask'[c].ok = ok /\ ask'[c].op = ask[c].op
      BY <1>1, <3>1
    <3> QED
      BY <2>1, <3>2, <3>3, OneAsk
  <2>3. CASE /\ hold.ok /\ Sent(c) \in {"save", "finish"}
             /\ task' = [task EXCEPT ![c].pc = "saved"] /\ UNCHANGED ask
    <3>1. Saving(c) /\ bundle[ask[c].s] # "none"
      BY <2>1, <2>3, SavesSent DEF Bundled
    <3>2. \A d \in Calls : task'[d].pc \in {"saved", "queue"} =>
                             d = c \/ task[d].pc \in {"saved", "queue"}
      BY <2>3 DEF MapTypeOK, TaskTypes
    <3>3. Bundled'
      BY <2>1, <2>3, <3>1, <3>2 DEF Bundled, Saving
    <3> QED
      BY <2>1, <2>3, <3>3 DEF SaveIsKept, Acknowledged
  <2>4. CASE task' = [task EXCEPT ![c].pc = "again", ![c].exp = "RUNNING"] /\ UNCHANGED ask
    <3>1. \A d \in Calls : task'[d].pc \in {"saved", "queue"} => task[d].pc \in {"saved", "queue"}
      BY <2>4 DEF MapTypeOK, TaskTypes
    <3> QED
      BY <2>1, <2>4, <3>1, SameSaves
  <2> QED
    BY <1>7, <2>2, <2>3, <2>4 DEF Release
<1>8. CASE ToNavigation(c)
  <2>1. \A d \in Calls : task'[d].pc \in {"saved", "queue"} => task[d].pc \in {"saved", "queue"}
    BY <1>8 DEF ToNavigation, MapTypeOK, TaskTypes
  <2> QED
    BY <1>8, <2>1, SameSaves DEF ToNavigation, center, disk
<1>9. CASE Queue(c)
  <2>1. hold.c # c
    BY <1>9, Callee DEF Queue, CallInv, Called, NoCall
  <2>2. Saving(c) /\ bundle[ask[c].s] # "none"
    BY <1>9 DEF Queue, Bundled
  <2> QED
    BY <1>1, <1>9, <2>1, <2>2, OneAsk DEF Queue
<1> QED
  BY <1>2, <1>4, <1>5, <1>6, <1>7, <1>8, <1>9 DEF EdgeStep

LEMMA AdapterKeeps ==
  ASSUME MapTypeOK, CallInv, Bundled, SaveIsKept, AdapterStep
  PROVE  Bundled' /\ SaveIsKept'
<1>1. UNCHANGED <<ask, task, stored, marker>>
  BY
     DEF AdapterStep, Refuses, StartsMapping, Locates, Toggles, Discards,
         StartsSaving, Saves,
         LoadsMap, AutosaveBegins, AutosaveFails, AutosaveEnds, center, edge, disk
<1>2. ASSUME UNCHANGED bundle,
             UNCHANGED hold \/ Ends(FALSE) \/ (Ends(TRUE) /\ rt.job.op \notin {"save", "finish"})
      PROVE  Bundled' /\ SaveIsKept'
  <2>1. UNCHANGED hold \/ hold'.ok = FALSE
        \/ (hold'.c = hold.c /\ rt.job.c # NoCall /\ rt.job.op \notin {"save", "finish"})
    BY <1>2 DEF Ends, MapTypeOK, HoldTypes
  <2>2. rt.job.c # NoCall =>
          /\ hold.c = rt.job.c /\ hold.c \in Calls /\ task[hold.c].pc # "idle"
          /\ rt.job.op = Sent(hold.c)
    BY DEF CallInv, Called, MapTypeOK, HoldTypes, Callers
  <2>3. UNCHANGED hold \/ hold'.ok = FALSE \/ ~Saving(hold'.c)
    BY <2>1, <2>2, SavesSent
  <2> QED
    BY <1>1, <1>2, <2>3, SameSaves
<1>3. CASE Refuses \/ AutosaveBegins \/ AutosaveFails \/ AutosaveEnds \/ StartsSaving
  BY <1>2, <1>3
     DEF Refuses, AutosaveBegins, AutosaveFails, AutosaveEnds, StartsSaving, edge, disk
<1>4. CASE StartsMapping \/ Toggles \/ Discards \/ LoadsMap
  <2>1. rt.job.op \notin {"save", "finish"}
    BY <1>4 DEF StartsMapping, Toggles, Discards, LoadsMap, Ready
  <2>2. UNCHANGED bundle /\ (UNCHANGED hold \/ Ends(TRUE) \/ Ends(FALSE))
    BY <1>4 DEF StartsMapping, Toggles, Discards, LoadsMap, disk
  <2> QED
    BY <1>2, <2>1, <2>2
<1>5. CASE Locates
  <2>1. UNCHANGED bundle /\ rt.job.op = "start" /\ \E ok \in BOOLEAN : Ends(ok)
    BY <1>5 DEF Locates, disk
  <2> QED
    BY <1>2, <2>1
<1>6. CASE Saves
  <2>1. CASE Ends(FALSE) /\ UNCHANGED bundle
    BY <1>2, <2>1
  <2>2. CASE /\ \E content \in {IF rt.job.s \in rt.graph THEN "survey" ELSE "blank", "invalid"} :
                   bundle' = [bundle EXCEPT ![rt.job.s] = content]
             /\ Ends(TRUE)
    <3>1. \A s \in Sessions : bundle[s] # "none" \/ s = rt.job.s => bundle'[s] # "none"
      BY <2>2 DEF MapTypeOK
    <3>2. hold' = hold \/ /\ rt.job.c # NoCall /\ hold'.c = hold.c
      BY <2>2 DEF Ends, MapTypeOK, HoldTypes
    <3>3. rt.job.c # NoCall =>
            /\ hold.c = rt.job.c /\ hold.c \in Calls /\ rt.job.s = ask[hold.c].s
      BY DEF CallInv, Called, MapTypeOK, HoldTypes, Callers
    <3>4. hold.pc = "replied" => hold.c \in Calls
      BY DEF CallInv, Called, MapTypeOK, HoldTypes, Callers
    <3>5. \A d \in Calls : Saving(d) => ask[d].s \in Sessions
      BY SavesSent
    <3>6. hold'.pc = "replied" /\ hold'.ok /\ Saving(hold'.c) => bundle'[ask[hold'.c].s] # "none"
      BY <3>1, <3>2, <3>3, <3>4, <3>5 DEF Bundled
    <3>7. Bundled'
      BY <1>1, <3>1, <3>5, <3>6 DEF Bundled, Saving
    <3> QED
      BY <1>1, <3>7 DEF SaveIsKept, Acknowledged
  <2> QED
    BY <1>6, <2>1, <2>2 DEF Saves
<1> QED
  BY <1>3, <1>4, <1>5, <1>6 DEF AdapterStep

LEMMA KeptStep ==
  ASSUME MapTypeOK, CallInv, Bundled, SaveIsKept, [Next]_vars
  PROVE  Bundled' /\ SaveIsKept'
<1>1. CASE UNCHANGED <<ask, task, hold, stored, bundle, marker>>
  BY <1>1, SameSaves
<1>2. CASE Health \/ Poll \/ Supervisor \/ SupFails \/ SupCrash \/ Boot
           \/ StackCrash
  BY <1>1, <1>2
     DEF Health, Poll, Supervisor, SupTakes, SupChecks, SupStops,
         SupStarts, SupAwaits,
                    SupFails, SupCrash, Boot, StackCrash, center, edge,
                    disk
<1>3. CASE EdgeCrash
  <2>1. /\ hold'.pc = "none" /\ \A c \in Calls : task'[c].pc = "idle"
        /\ UNCHANGED <<stored, bundle, marker>>
    BY <1>3 DEF EdgeCrash, Free, NoTask, disk
  <2>2. \A c \in Calls : ask'[c].pc = "answered" => ask'[c] = ask[c]
    BY <1>3 DEF EdgeCrash, Served, NoAsk
  <2>3. \A s \in Sessions : Acknowledged(s)' => Acknowledged(s)
    BY <2>2 DEF Acknowledged
  <2> QED
    BY <2>1, <2>3 DEF Bundled, SaveIsKept
<1>4. ASSUME NEW s \in Sessions, Upload(s) PROVE Bundled' /\ SaveIsKept'
  <2>1. /\ UNCHANGED <<ask, task, hold, bundle, marker>>
        /\ stored' = [stored EXCEPT ![s] = bundle[s]] /\ bundle[s] # "none"
    BY <1>4 DEF Upload, edge, disk, Bundled
  <2>2. \A r \in Sessions : stored[r] # "none" => stored'[r] # "none"
    BY <2>1 DEF MapTypeOK
  <2>3. Bundled'
    BY <2>1 DEF Bundled, Saving
  <2> QED
    BY <2>1, <2>2, <2>3 DEF SaveIsKept, Acknowledged
<1>5. ASSUME NEW s \in Sessions, Uploaded(s) PROVE Bundled' /\ SaveIsKept'
  <2>1. /\ UNCHANGED <<ask, task, hold, stored, bundle>>
        /\ marker' = marker \ {s} /\ stored[s] # "none"
    BY <1>5 DEF Uploaded, center, edge, Bundled
  <2>2. Bundled'
    BY <2>1 DEF Bundled, Saving
  <2> QED
    BY <2>1, <2>2 DEF SaveIsKept, Acknowledged
<1>6. ASSUME NEW s \in Sessions, Resync(s) PROVE Bundled' /\ SaveIsKept'
  <2>1. /\ UNCHANGED <<ask, task, hold, stored, bundle>>
        /\ marker' = marker \cup {s} /\ bundle[s] # "none"
    BY <1>6 DEF Resync, center, edge
  <2>2. Bundled'
    BY <2>1 DEF Bundled, Saving
  <2> QED
    BY <2>1, <2>2 DEF SaveIsKept, Acknowledged
<1>7. CASE UNCHANGED vars
  BY <1>1, <1>7 DEF vars, center, edge, disk
<1> QED
  BY <1>2, <1>3, <1>4, <1>5, <1>6, <1>7, CenterKeeps, EdgeKeeps, AdapterKeeps DEF Next

\* What the robot acknowledged is not lost by a restart of the edge, the supervisor or a stack:
\* the center has stored the version, or the robot's disk knows that it has to upload it, which
\* it then tries whether or not the center refuses it
\* (_queue_mapping_upload, upload_version).
THEOREM AcknowledgedIsKept == Spec => []SaveIsKept
<1>1. Init => Bundled /\ SaveIsKept
  BY DEF Init, Bundled, SaveIsKept, Acknowledged, Free, NoTask, NoAsk
<1>2. MapTypeOK /\ CallInv /\ Bundled /\ SaveIsKept /\ [Next]_vars => Bundled' /\ SaveIsKept'
  BY KeptStep
<1> QED
  BY <1>1, <1>2, MapTypeCorrect, CallsInvariant, PTL DEF Spec

-----------------------------------------------------------------------------
(* MotionSafety.                                                           *)

\* Commands and masks name directions of the chassis, Hold is a positive number.
USE DirectionAssumption, SourceAssumption, LimitAssumption

\* What a gate looks like.
LEMMA GateCases ==
  ASSUME NEW gate \in Hysteresis
  PROVE  gate = GateOpen \/ gate = GateClosed \/ \E t \in 0 .. Hold : gate = Clearing(t)
  BY DEF Hysteresis

\* Its fields, and that an open gate counts nothing.
LEMMA GateFacts ==
  ASSUME NEW gate \in Hysteresis
  PROVE  /\ gate.stopped \in BOOLEAN /\ gate.clear \in 0 .. Hold + 1
         /\ ~gate.stopped => gate = GateOpen
<1>0. 0 \in 0 .. Hold + 1
  OBVIOUS
<1>1. CASE gate = GateOpen
  BY <1>0, <1>1, Zenon DEF GateOpen
<1>2. CASE gate = GateClosed
  <2>1. gate.stopped = TRUE /\ gate.clear = 0
    BY <1>2, Zenon DEF GateClosed
  <2> QED
    BY <1>0, <2>1, Zenon
<1>3. CASE \E t \in 0 .. Hold : gate = Clearing(t)
  <2> PICK t \in 0 .. Hold : gate = Clearing(t)
    BY <1>3
  <2>1. gate.stopped = TRUE /\ gate.clear = t + 1
    BY Zenon DEF Clearing
  <2>2. t + 1 \in 0 .. Hold + 1
    OBVIOUS
  <2> QED
    BY <2>1, <2>2, Zenon
<1> QED
  BY <1>1, <1>2, <1>3, GateCases

\* Updating a gate makes a gate of it.
LEMMA UpdateTypes ==
  ASSUME NEW gate \in Hysteresis, NEW hazard
  PROVE  Update(gate, hazard) \in Hysteresis
<1>1. GateOpen \in Hysteresis /\ GateClosed \in Hysteresis
  BY DEF Hysteresis
<1>2. 0 \in 0 .. Hold
  OBVIOUS
<1>3. Clearing(0) \in Hysteresis
  BY <1>2, Zenon DEF Hysteresis
<1> QED
  BY <1>1, <1>3 DEF Update

\* So does time.
LEMMA OlderTypes ==
  ASSUME NEW gate \in Hysteresis
  PROVE  /\ Older(gate) \in Hysteresis
         /\ Older(gate).stopped <=> gate.stopped
<1>1. CASE gate.stopped /\ gate.clear \in 1 .. Hold
  <2>1. Older(gate) = Clearing(gate.clear)
    BY <1>1 DEF Older
  <2>2. gate.clear \in 0 .. Hold
    BY <1>1
  <2>3. Clearing(gate.clear) \in Hysteresis
    BY <2>2, Zenon DEF Hysteresis
  <2> QED
    BY <1>1, <2>1, <2>3 DEF Clearing
<1>2. CASE ~(gate.stopped /\ gate.clear \in 1 .. Hold)
  BY <1>2 DEF Older
<1> QED
  BY <1>1, <1>2

\* A trip keeps the types.
LEMMA TripTypes ==
  ASSUME TypeOK, Trip
  PROVE  /\ fault' \in Hysteresis /\ gates' \in [Directions -> Hysteresis]
         /\ out' \in SUBSET Directions /\ interlock' \in BOOLEAN
         /\ toldFor' \in [Directions -> 0 .. Hold]
<1>1. fault' \in Hysteresis
  BY UpdateTypes DEF Trip, TypeOK
<1>2. toldFor' \in [Directions -> 0 .. Hold]
  BY DEF Trip
<1> QED
  BY <1>1, <1>2 DEF Trip, Publish, TypeOK

\* The timer keeps the types of what it writes.
LEMMA TickTypes ==
  ASSUME TypeOK, Tick
  PROVE  /\ fault' \in Hysteresis /\ gates' \in [Directions -> Hysteresis]
         /\ out' \in SUBSET Directions /\ interlock' \in BOOLEAN
         /\ toldFor' \in [Directions -> 0 .. Hold]
<1>1. CASE Trip
  BY <1>1, TripTypes
<1>2. CASE TickIdle
  BY <1>2 DEF TickIdle, Publish, TypeOK
<1>3. CASE TickBypass
  <2>1. GateOpen \in Hysteresis
    BY DEF Hysteresis
  <2>2. toldFor' \in [Directions -> 0 .. Hold] /\ gates' \in [Directions -> Hysteresis]
    BY <1>3, <2>1 DEF TickBypass
  <2>3. command \in SUBSET Directions
    BY DEF TypeOK
  <2> QED
    BY <1>3, <2>1, <2>2, <2>3 DEF TickBypass, Publish
<1>4. CASE TickHeld
  <2>1. fault' \in Hysteresis
    BY <1>4, UpdateTypes DEF TickHeld, TypeOK
  <2> QED
    BY <1>4, <2>1 DEF TickHeld, Publish, TypeOK
<1>5. CASE TickMoves
  <2>1. fault' \in Hysteresis
    BY <1>5, UpdateTypes DEF TickMoves, TypeOK
  <2>2. CASE TickMasked
    BY <2>1, <2>2 DEF TickMasked, Publish, TypeOK
  <2>3. CASE TickEvaluates
    <3> PICK raw : TickDecides(Clipped(command, mask), raw)
      BY <2>3 DEF TickEvaluates
    <3>1. gates' \in [Directions -> Hysteresis]
      <4>1. \A d \in Directions : Update(gates[d], d \in raw) \in Hysteresis
        BY UpdateTypes DEF TypeOK
      <4> QED
        BY <4>1 DEF TickDecides
    <3>2. toldFor' \in [Directions -> 0 .. Hold]
      BY DEF TickDecides, TypeOK
    <3>3. out' \in SUBSET Directions
      <4>1. command \in SUBSET Directions
        BY DEF TypeOK
      <4> QED
        BY <4>1 DEF TickDecides, Publish, Clipped
    <3>4. interlock' \in BOOLEAN
      BY DEF TickDecides, Publish
    <3> QED
      BY <2>1, <3>1, <3>2, <3>3, <3>4
  <2> QED
    BY <1>5, <2>2, <2>3 DEF TickMoves
<1> QED
  BY <1>1, <1>2, <1>3, <1>4, <1>5 DEF Tick, TickScanLost

\* Inputs, ages, gates and outputs keep their types.
THEOREM TypeCorrect == SafetySpec => []TypeOK
<1>1. SafetyInit => TypeOK
  <2> SUFFICES ASSUME SafetyInit PROVE TypeOK
    OBVIOUS
  <2>1. GateOpen \in Hysteresis
    BY DEF Hysteresis
  <2>2. scan \in Scans
    BY DEF SafetyInit, Scans
  <2>3. /\ commandAge \in 0 .. CommandLimit + 1 /\ bypassAge \in 0 .. BypassLimit + 1
        /\ scanAge \in 0 .. ScanLimit + 1
    BY DEF SafetyInit
  <2>4. sourceAge \in [Required -> 0 .. SourceLimit + 1] /\ toldFor \in [Directions -> 0 .. Hold]
    BY DEF SafetyInit
  <2> QED
    BY <2>1, <2>2, <2>3, <2>4 DEF SafetyInit, TypeOK
<1>2. TypeOK /\ [SafetyNext]_safetyVars => TypeOK'
  <2> SUFFICES ASSUME TypeOK, [SafetyNext]_safetyVars PROVE TypeOK'
    OBVIOUS
  <2>1. CASE \E velocity \in Commands \cup {{}} : OnCommand(velocity)
    BY <2>1 DEF OnCommand, TypeOK, outputVars
  <2>2. CASE \E sample \in Scans : OnScan(sample)
    BY <2>2 DEF OnScan, TypeOK, outputVars
  <2>3. CASE \E avoid \in BOOLEAN : OnMode(avoid)
    BY <2>3 DEF OnMode, TypeOK, outputVars
  <2>4. CASE \E source \in Sources, on \in BOOLEAN : OnSource(source, on)
    <3> PICK source \in Sources, on \in BOOLEAN : OnSource(source, on)
      BY <2>4
    <3>1. active' \in SUBSET Sources /\ sourceAge' \in [Required -> 0 .. SourceLimit + 1]
      BY DEF OnSource, TypeOK
    <3>2. /\ fault' \in Hysteresis /\ gates' \in [Directions -> Hysteresis]
          /\ out' \in SUBSET Directions /\ interlock' \in BOOLEAN
          /\ toldFor' \in [Directions -> 0 .. Hold]
      <4>1. CASE Trip
        BY <4>1, TripTypes
      <4>2. CASE UNCHANGED outputVars
        BY <4>2 DEF outputVars, TypeOK
      <4> QED
        BY <4>1, <4>2 DEF OnSource, Report
    <3> QED
      BY <3>1, <3>2 DEF OnSource, TypeOK
  <2>5. CASE \E closed \in Masks : OnMask(closed)
    BY <2>5 DEF OnMask, TypeOK, outputVars
  <2>6. CASE Tick
    <3>1. UNCHANGED inputVars
      BY <2>6 DEF Tick
    <3> QED
      BY <2>6, <3>1, TickTypes DEF TypeOK, inputVars
  <2>7. CASE Elapse
    <3>1. /\ commandAge' \in 0 .. CommandLimit + 1 /\ bypassAge' \in 0 .. BypassLimit + 1
          /\ scanAge' \in 0 .. ScanLimit + 1
      BY <2>7 DEF Elapse, BypassOlder, Capped, TypeOK
    <3>2. sourceAge' \in [Required -> 0 .. SourceLimit + 1]
      <4>1. \A s \in Required : Capped(sourceAge[s], SourceLimit) \in 0 .. SourceLimit + 1
        BY DEF Capped, TypeOK
      <4> QED
        BY <2>7, <4>1 DEF Elapse
    <3>3. fault' \in Hysteresis /\ gates' \in [Directions -> Hysteresis]
      <4>1. \A d \in Directions : Older(gates[d]) \in Hysteresis
        BY OlderTypes DEF TypeOK
      <4>2. Older(fault) \in Hysteresis
        BY OlderTypes DEF TypeOK
      <4> QED
        BY <2>7, <4>1, <4>2 DEF Elapse
    <3>4. toldFor' \in [Directions -> 0 .. Hold]
      BY <2>7 DEF Elapse, TypeOK
    <3> QED
      BY <2>7, <3>1, <3>2, <3>3, <3>4 DEF Elapse, TypeOK
  <2>8. CASE UNCHANGED safetyVars
    BY <2>8 DEF safetyVars, TypeOK
  <2> QED
    BY <2>1, <2>2, <2>3, <2>4, <2>5, <2>6, <2>7, <2>8 DEF SafetyNext
<1> QED
  BY <1>1, <1>2, PTL DEF SafetySpec

-----------------------------------------------------------------------------
(* What holds the chassis still.                                           *)

\* A tick that drives has opened the fault hold and the gates it drives through.
LEMMA TickHolds ==
  ASSUME TypeOK, HeldIsStill, Tick
  PROVE  HeldIsStill'
<1>1. CASE Trip
  BY <1>1 DEF Trip, Publish, HeldIsStill
<1>2. CASE ~HazardActive /\ TickIdle
  BY <1>2 DEF TickIdle, Publish, HeldIsStill
<1>3. CASE ~HazardActive /\ TickBypass
  <2>1. active' \cap Hard = {}
    BY <1>3 DEF HazardActive, Tick, inputVars
  <2>2. fault'.stopped = FALSE /\ \A d \in Directions : gates'[d].stopped = FALSE
    BY <1>3 DEF TickBypass, GateOpen
  <2>3. out' \in SUBSET Directions
    BY TickTypes
  <2> QED
    BY <2>1, <2>2, <2>3 DEF HeldIsStill
<1>4. CASE ~HazardActive /\ TickHeld
  BY <1>4 DEF TickHeld, Publish, HeldIsStill
<1>5. CASE ~HazardActive /\ TickMoves
  <2>1. active' \cap Hard = {}
    BY <1>5 DEF HazardActive, Tick, inputVars
  <2>2. ~fault'.stopped
    BY <1>5 DEF TickMoves
  <2>3. CASE TickMasked
    BY <2>3 DEF TickMasked, Publish, HeldIsStill
  <2>4. CASE TickEvaluates
    <3> PICK raw : TickDecides(Clipped(command, mask), raw)
      BY <2>4 DEF TickEvaluates
    <3>1. out' = Clipped(command, mask) \ {d \in Directions : gates'[d].stopped}
      BY Zenon DEF TickDecides, Publish, Clipped
    <3>2. out' \in SUBSET Directions
      BY TickTypes
    <3> QED
      BY <2>1, <2>2, <3>1, <3>2 DEF HeldIsStill
  <2> QED
    BY <1>5, <2>3, <2>4 DEF TickMoves
<1> QED
  BY <1>1, <1>2, <1>3, <1>4, <1>5 DEF Tick, TickScanLost

\* A reported estop, cliff or bumper, a gate that is held and the fault hold mean
\* zero, at every moment and not only after the next tick: the callback publishes
\* the stop itself, and a tick drives only through what it has opened.
THEOREM HazardMeansStill == SafetySpec => []HeldIsStill
<1>1. SafetyInit => HeldIsStill
  BY DEF SafetyInit, HeldIsStill
<1>2. TypeOK /\ HeldIsStill /\ [SafetyNext]_safetyVars => HeldIsStill'
  <2> SUFFICES ASSUME TypeOK, HeldIsStill, [SafetyNext]_safetyVars PROVE HeldIsStill'
    OBVIOUS
  <2>1. CASE \E velocity \in Commands \cup {{}} : OnCommand(velocity)
    BY <2>1 DEF OnCommand, HeldIsStill, outputVars
  <2>2. CASE \E sample \in Scans : OnScan(sample)
    BY <2>2 DEF OnScan, HeldIsStill, outputVars
  <2>3. CASE \E avoid \in BOOLEAN : OnMode(avoid)
    BY <2>3 DEF OnMode, HeldIsStill, outputVars
  <2>4. CASE \E source \in Sources, on \in BOOLEAN : OnSource(source, on)
    <3> PICK source \in Sources, on \in BOOLEAN : OnSource(source, on)
      BY <2>4
    <3>1. CASE Trip
      BY <3>1 DEF Trip, Publish, HeldIsStill
    <3>2. CASE ~Trip
      <4>1. UNCHANGED outputVars /\ ~(on /\ source \in Hard)
        BY <3>2 DEF OnSource, Report
      <4>2. active' \cap Hard \subseteq active \cap Hard
        BY <4>1 DEF OnSource
      <4> QED
        BY <4>1, <4>2 DEF HeldIsStill, outputVars
    <3> QED
      BY <3>1, <3>2
  <2>5. CASE \E closed \in Masks : OnMask(closed)
    BY <2>5 DEF OnMask, HeldIsStill, outputVars
  <2>6. CASE Tick
    BY <2>6, TickHolds
  <2>7. CASE Elapse
    <3>1. fault'.stopped <=> fault.stopped
      BY <2>7, OlderTypes DEF Elapse, TypeOK
    <3>2. \A d \in Directions : gates'[d].stopped <=> gates[d].stopped
      BY <2>7, OlderTypes DEF Elapse, TypeOK
    <3>3. out' = out /\ active' = active /\ out \subseteq Directions
      BY <2>7 DEF Elapse, TypeOK
    <3> QED
      BY <3>1, <3>2, <3>3 DEF HeldIsStill
  <2>8. CASE UNCHANGED safetyVars
    BY <2>8 DEF safetyVars, HeldIsStill
  <2> QED
    BY <2>1, <2>2, <2>3, <2>4, <2>5, <2>6, <2>7, <2>8 DEF SafetyNext
<1> QED
  BY <1>1, <1>2, TypeCorrect, PTL DEF SafetySpec

-----------------------------------------------------------------------------
(* What a gate's count says of the past.                                   *)

\* How long a gate has counted: one that is open has counted to the end.
Counted(gate) == IF gate.stopped THEN gate.clear ELSE Hold + 1

\* No gate has counted longer than since it was last told of a hazard, or the fault
\* hold, which no direction passes, has not.
CountsAreFresh ==
  \A d \in Directions : \/ Counted(gates[d]) <= toldFor[d] + 1
                        \/ Counted(fault) <= toldFor[d] + 1

\* A count is a number up to Hold + 1.
LEMMA CountedTypes ==
  ASSUME NEW gate \in Hysteresis
  PROVE  Counted(gate) \in 0 .. Hold + 1
<1>1. gate.clear \in 0 .. Hold + 1 /\ Hold + 1 \in 0 .. Hold + 1
  BY GateFacts
<1> QED
  BY <1>1, Zenon DEF Counted

\* A hazard ends the count, and an update without one begins it at most.
LEMMA CountedUpdates ==
  ASSUME NEW gate \in Hysteresis
  PROVE  /\ Counted(Update(gate, TRUE)) = 0
         /\ \/ Counted(Update(gate, FALSE)) = Counted(gate)
            \/ Counted(Update(gate, FALSE)) = 1
<1>1. Counted(GateOpen) = Hold + 1 /\ Counted(GateClosed) = 0
  BY DEF Counted, GateOpen, GateClosed
<1>2. Update(gate, TRUE) = GateClosed
  BY DEF Update
<1>3. CASE ~gate.stopped \/ gate.clear = Hold + 1
  <2>1. Update(gate, FALSE) = GateOpen
    BY <1>3, Zenon DEF Update
  <2>2. Counted(gate) = Hold + 1
    BY <1>3, Zenon DEF Counted
  <2> QED
    BY <1>1, <1>2, <2>1, <2>2
<1>4. CASE ~(~gate.stopped \/ gate.clear = Hold + 1)
  <2>1. CASE gate.clear = 0
    <3>1. Update(gate, FALSE) = Clearing(0)
      BY <1>4, <2>1, Zenon DEF Update
    <3>2. Counted(Clearing(0)) = 1
      BY DEF Counted, Clearing
    <3> QED
      BY <1>1, <1>2, <3>1, <3>2
  <2>2. CASE gate.clear # 0
    <3>1. Update(gate, FALSE) = gate
      BY <1>4, <2>2, Zenon DEF Update
    <3> QED
      BY <1>1, <1>2, <3>1
  <2> QED
    BY <2>1, <2>2
<1> QED
  BY <1>3, <1>4

\* A unit of time adds one at most.
LEMMA CountedGrows ==
  ASSUME NEW gate \in Hysteresis
  PROVE  Counted(Older(gate)) <= Counted(gate) + 1
<1>1. CASE gate.stopped /\ gate.clear \in 1 .. Hold
  <2>1. Older(gate) = Clearing(gate.clear)
    BY <1>1, Zenon DEF Older
  <2>2. Counted(Clearing(gate.clear)) = gate.clear + 1
    BY Zenon DEF Counted, Clearing
  <2>3. Counted(gate) = gate.clear
    BY <1>1, Zenon DEF Counted
  <2> QED
    BY <1>1, <2>1, <2>2, <2>3
<1>2. CASE ~(gate.stopped /\ gate.clear \in 1 .. Hold)
  <2>1. Older(gate) = gate
    BY <1>2, Zenon DEF Older
  <2> QED
    BY <2>1, CountedTypes
<1> QED
  BY <1>1, <1>2

\* An update without a hazard leaves a fresh count fresh.
LEMMA FreshUpdate ==
  ASSUME NEW gate \in Hysteresis, NEW time \in Nat, Counted(gate) <= time + 1
  PROVE  Counted(Update(gate, FALSE)) <= time + 1
<1>1. \/ Counted(Update(gate, FALSE)) = Counted(gate)
      \/ Counted(Update(gate, FALSE)) = 1
  BY CountedUpdates
<1>2. 1 <= time + 1
  OBVIOUS
<1> QED
  BY <1>1, <1>2, Zenon

\* A trip: the fault hold has counted nothing.
LEMMA TripFresh ==
  ASSUME TypeOK, Trip
  PROVE  CountsAreFresh'
<1>1. Counted(fault') = 0
  BY CountedUpdates DEF Trip, TypeOK
<1>2. \A d \in Directions : toldFor'[d] \in Nat
  BY DEF Trip
<1> QED
  BY <1>1, <1>2 DEF CountsAreFresh

\* The timer leaves the counts fresh.
LEMMA TickFresh ==
  ASSUME TypeOK, CountsAreFresh, Tick
  PROVE  CountsAreFresh'
<1> DEFINE Time == \A d \in Directions : toldFor[d] \in Nat
<1>0. Time /\ fault \in Hysteresis /\ gates \in [Directions -> Hysteresis]
  BY DEF TypeOK
<1>1. CASE Trip
  BY <1>1, TripFresh
<1>2. CASE TickIdle
  BY <1>2 DEF TickIdle, CountsAreFresh
<1>3. CASE TickBypass
  <2>1. fault' \in Hysteresis
    BY TickTypes
  <2>2. \A d \in Directions : toldFor'[d] = Hold
    BY <1>3 DEF TickBypass
  <2> QED
    BY <2>1, <2>2, CountedTypes DEF CountsAreFresh
<1>4. CASE TickHeld
  <2>1. fault' = Update(fault, FALSE) /\ gates' = gates /\ toldFor' = toldFor
    BY <1>4, Zenon DEF TickHeld
  <2> QED
    BY <1>0, <2>1, FreshUpdate DEF CountsAreFresh
<1>5. CASE TickMoves
  <2>1. fault' = Update(fault, FALSE)
    BY <1>5, Zenon DEF TickMoves
  <2>2. CASE TickMasked
    <3>1. gates' = gates /\ toldFor' = toldFor
      BY <2>2 DEF TickMasked
    <3> QED
      BY <1>0, <2>1, <3>1, FreshUpdate DEF CountsAreFresh
  <2>3. CASE TickEvaluates
    <3> PICK raw : TickDecides(Clipped(command, mask), raw)
      BY <2>3 DEF TickEvaluates
    <3> SUFFICES ASSUME NEW d \in Directions
                 PROVE  \/ Counted(gates'[d]) <= toldFor'[d] + 1
                        \/ Counted(fault') <= toldFor'[d] + 1
      BY DEF CountsAreFresh
    <3>1. CASE d \in raw
      <4>1. gates'[d] = GateClosed /\ toldFor'[d] = 0
        BY <3>1 DEF TickDecides, Update
      <4> QED
        BY <4>1 DEF Counted, GateClosed
    <3>2. CASE d \notin raw
      <4>1. gates'[d] = Update(gates[d], FALSE) /\ toldFor'[d] = toldFor[d]
        BY <3>2 DEF TickDecides, Update
      <4>2. gates[d] \in Hysteresis
        BY <1>0
      <4> QED
        BY <1>0, <2>1, <4>1, <4>2, FreshUpdate DEF CountsAreFresh
    <3> QED
      BY <3>1, <3>2
  <2> QED
    BY <1>5, <2>2, <2>3 DEF TickMoves
<1> QED
  BY <1>1, <1>2, <1>3, <1>4, <1>5 DEF Tick, TickScanLost

\* No gate counts on after a hazard.
LEMMA CountsStayFresh == SafetySpec => []CountsAreFresh
<1>1. SafetyInit => CountsAreFresh
  BY DEF SafetyInit, CountsAreFresh, Counted, GateOpen
<1>2. TypeOK /\ CountsAreFresh /\ [SafetyNext]_safetyVars => CountsAreFresh'
  <2> SUFFICES ASSUME TypeOK, CountsAreFresh, [SafetyNext]_safetyVars PROVE CountsAreFresh'
    OBVIOUS
  <2>1. CASE UNCHANGED outputVars
    BY <2>1 DEF CountsAreFresh, outputVars
  <2>2. CASE Trip
    BY <2>2, TripFresh
  <2>3. CASE Tick
    BY <2>3, TickFresh
  <2>4. CASE Elapse
    <3> SUFFICES ASSUME NEW d \in Directions
                 PROVE  \/ Counted(gates'[d]) <= toldFor'[d] + 1
                        \/ Counted(fault') <= toldFor'[d] + 1
      BY DEF CountsAreFresh
    <3>1. /\ fault \in Hysteresis /\ gates[d] \in Hysteresis
          /\ toldFor[d] \in 0 .. Hold
      BY DEF TypeOK
    <3>2. fault' = Older(fault) /\ gates'[d] = Older(gates[d])
      BY <2>4, Zenon DEF Elapse
    <3>3. toldFor'[d] = IF toldFor[d] < Hold THEN toldFor[d] + 1 ELSE Hold
      BY <2>4 DEF Elapse
    <3>4. Counted(gates'[d]) <= Hold + 1
      BY <3>1, <3>2, OlderTypes, CountedTypes
    <3>5. /\ Counted(gates'[d]) <= Counted(gates[d]) + 1
          /\ Counted(fault') <= Counted(fault) + 1
      BY <3>1, <3>2, CountedGrows
    <3>6. /\ Counted(gates'[d]) \in Nat /\ Counted(fault') \in Nat
          /\ Counted(gates[d]) \in Nat /\ Counted(fault) \in Nat
      BY <3>1, <3>2, OlderTypes, CountedTypes
    <3> QED
      BY <3>1, <3>3, <3>4, <3>5, <3>6 DEF CountsAreFresh
  <2> QED
    BY <2>1, <2>2, <2>3, <2>4 DEF SafetyNext, safetyVars, outputVars, OnCommand, OnScan, OnMode,
       OnSource, OnMask, Report
<1> QED
  BY <1>1, <1>2, TypeCorrect, PTL DEF SafetySpec

\* The node drives only where neither the gate nor the fault gate was told of a hazard
\* for the whole hysteresis: no gate opens on a count that another hazard has outdated
\* (_tick, _trip_immediately).  A tick that the mask stops altogether tells no gate.
THEOREM DrivesAfterHysteresis == SafetySpec => []ClearBeforeMotion
<1>1. TypeOK /\ HeldIsStill /\ CountsAreFresh => ClearBeforeMotion
  <2> SUFFICES ASSUME TypeOK, HeldIsStill, CountsAreFresh, NEW d \in out
               PROVE  toldFor[d] >= Hold
    BY DEF ClearBeforeMotion
  <2>1. d \in Directions /\ toldFor[d] \in Nat
    BY DEF TypeOK
  <2>2. ~fault.stopped /\ ~gates[d].stopped
    BY DEF HeldIsStill
  <2>3. Counted(fault) = Hold + 1 /\ Counted(gates[d]) = Hold + 1
    BY <2>2, Zenon DEF Counted
  <2> QED
    BY <2>1, <2>3 DEF CountsAreFresh
<1> QED
  BY <1>1, TypeCorrect, HazardMeansStill, CountsStayFresh, PTL

=============================================================================
