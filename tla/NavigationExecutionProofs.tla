---------------------- MODULE NavigationExecutionProofs ----------------------
(***************************************************************************)
(* What the execution of a mission never does, for routes of every length  *)
(* and for every number of threads: TInv is the inductive invariant behind *)
(* the four properties.  It says of a set of threads which counters they   *)
(* can still hold, at which phases; the steps that several handlers share  *)
(* get it for what is left of tasks, S.                                    *)
(*                                                                         *)
(* The parts that carry the weight are Apart, by which no tick prepares a  *)
(* segment while the present one is with FollowPath, so that there is one  *)
(* sender and one goal at a time; Quiet, by which a stop leaves no thread  *)
(* with a current counter; and Driven, by which a completion that still    *)
(* counts is of a segment whose end has been reached, or of a leg that     *)
(* makes room.                                                             *)
(***************************************************************************)
EXTENDS NavigationExecution, TLAPS

-----------------------------------------------------------------------------
(* The invariant.                                                          *)

\* The phases in which no segment is at FollowPath, and the steps of a tick that
\* lead to one of them or send the next segment.
Between == Turning \cup {"STRAIGHT_PREPARE"}
Preparing == {"prepare", "anchor", "escape", "turn", "reenter", "begin"}

\* A sender, a goal or a result of the present segment.
Chained(t) == t.kind \in {"sender", "goal", "result"} /\ t.token

Stopped == {"PAUSED", "CANCELED", "SUCCEEDED", "LOCALIZATION_LOST"}

\* What the present token is held for is a segment of the route.
Bounded(S) == \A t \in S : t.token => t.index < Segments

\* While a segment is at FollowPath no tick prepares one.
Apart(S) ==
  \A t \in S : Chained(t) =>
    phase \notin Between /\ \A u \in S : u.kind = "tick" => u.pc \notin Preparing

\* The ticks share a callback group; FollowPath has one goal; a segment, one sender.
OneTick(S) == \A t, u \in S : t.kind = "tick" /\ u.kind = "tick" => t = u
OneGoal(S) == \A t, u \in S : t.kind = "goal" /\ u.kind = "goal" => t = u
OneSender(S) == \A t, u \in S : t.kind = "sender" /\ t.token /\ u.kind = "sender" /\ u.token => t = u

\* Whoever may send the segment finds one.
Within(S) ==
  \/ index < Segments
  \/ /\ phase \notin Turning
     /\ \A t \in S : t.kind = "tick" => /\ t.pc \notin {"turn", "reenter", "begin"}
                                        /\ t.pc \in {"anchor", "escape"} => ~t.gen

\* A goal is not driven before its sender has stored the handle.
Unsent(S) ==
  \A t, u \in S : t.kind = "sender" /\ t.token /\ u.kind = "goal" /\ u.token => u.pc # "running"

\* What FollowPath drives for the present segment can be cancelled.
Held(S) == \A g \in S : g.kind = "goal" /\ g.token /\ g.pc = "running" => handle = "goal"

\* A mission that has stopped leaves nobody with a current counter.
Quiet(S) ==
  state \in Stopped =>
    /\ phase # "STRAIGHT"
    /\ \A t \in S : /\ ~Chained(t)
                    /\ t.kind = "tick" /\ t.pc \in {"prepare", "anchor", "escape"} => ~t.gen

\* What is completed has been driven, or only makes room.
Driven(S) ==
  last > 0 => \A t \in S :
    /\ t.token /\ t.index = index /\ t.pc \in {"complete", "SUCCEEDED"} => index < pos
    /\ t.kind = "tick" /\ ((t.pc = "clear" /\ t.token) \/ (t.pc = "escape" /\ t.gen)) =>
         relocation # "none"

\* The invariant of a set of threads.
TInv(S) ==
  /\ S \subseteq Tasks
  /\ Bounded(S) /\ Apart(S) /\ OneTick(S) /\ OneGoal(S) /\ OneSender(S)
  /\ Within(S) /\ Unsent(S) /\ Held(S) /\ Quiet(S) /\ Driven(S)

\* The types of everything but the threads.
Plain ==
  /\ state \in States /\ phase \in Phases
  /\ owner \in BOOLEAN /\ goal \in BOOLEAN /\ active \in BOOLEAN
  /\ relocation \in Relocations
  /\ last \in 0 .. Segments /\ index \in 0 .. Segments /\ pos \in 0 .. Segments
  /\ handle \in {"none", "goal", "old"}
  /\ record \in {"none", "auto", "held"} /\ context \in {"none", "due", "begun"}
  /\ canceled \in BOOLEAN

\* The inductive invariant.
IInv == Plain /\ TInv(tasks)

\* The index stays, begins again, or goes past a segment that is done with.
Advances ==
  \/ index' \in {0, index}
  \/ last > 0 => index' = index + 1 /\ (index' <= pos \/ relocation # "none")

\* What leaves the state in PLANNING without a thread.
Leaves ==
  state' = "PLANNING" /\ ~PlanningThread' =>
    \/ state = "PLANNING" /\ ~PlanningThread
    \/ \E t \in tasks : StartRefused(t)

\* What every step does.
Kept == IInv' /\ Advances /\ Leaves

-----------------------------------------------------------------------------
(* Threads as records.                                                     *)

LEMMA StepNames ==
  /\ DOMAIN Steps = {"op", "tick", "sender", "goal", "result", "replan", "dynamic", "bypass",
                     "bay", "auto", "recover", "record"}
  /\ Steps["op"] = {"canceling", "pausing", "cancel_ack", "pause_ack", "starting",
                    "selected", "resume", "resuming", "persist"}
  /\ Steps["tick"] = {"finish", "prepare", "anchor", "escape", "clear", "complete",
                      "restart", "replan", "wait", "classified", "reenter", "turn", "begin"}
  /\ Steps["sender"] = {"start", "sent", "accepted"}
  /\ Steps["goal"] = {"accepted", "running", "canceling"}
  /\ Steps["result"] = {"SUCCEEDED", "ABORTED", "CANCELED", "finish"}
  /\ \A k \in {"replan", "dynamic", "bypass", "bay", "auto"} : Steps[k] = {"start", "planned"}
  /\ Steps["recover"] = {"planned"}
  /\ Steps["record"] = {"persist"}
BY DEF Steps

\* The fields of a thread.
LEMMA TaskFields ==
  ASSUME NEW t \in Tasks
  PROVE  /\ t.kind \in DOMAIN Steps /\ t.pc \in Steps[t.kind]
         /\ t.gen \in BOOLEAN /\ t.token \in BOOLEAN /\ t.index \in 0 .. Segments
         /\ t = [kind |-> t.kind, pc |-> t.pc, gen |-> t.gen, token |-> t.token,
                 index |-> t.index]
<1>1. PICK k \in DOMAIN Steps :
        t \in [kind : {k}, pc : Steps[k], gen : BOOLEAN, token : BOOLEAN, index : 0 .. Segments]
  BY DEF Tasks
<1> QED
  BY <1>1

LEMMA MakeTask ==
  ASSUME NEW k \in DOMAIN Steps, NEW p \in Steps[k], NEW g \in BOOLEAN, NEW n \in BOOLEAN,
         NEW i \in 0 .. Segments
  PROVE  [kind |-> k, pc |-> p, gen |-> g, token |-> n, index |-> i] \in Tasks
<1>1. [kind |-> k, pc |-> p, gen |-> g, token |-> n, index |-> i]
        \in [kind : {k}, pc : Steps[k], gen : BOOLEAN, token : BOOLEAN, index : 0 .. Segments]
  OBVIOUS
<1> QED
  BY <1>1 DEF Tasks

\* A thread that goes on to its next step.
LEMMA GoesFields ==
  ASSUME NEW t \in Tasks, NEW p \in Steps[t.kind]
  PROVE  /\ Goes(t, p) \in Tasks
         /\ Goes(t, p).kind = t.kind /\ Goes(t, p).pc = p
         /\ Goes(t, p).gen = t.gen /\ Goes(t, p).token = t.token /\ Goes(t, p).index = t.index
<1>1. Goes(t, p) = [kind |-> t.kind, pc |-> p, gen |-> t.gen, token |-> t.token,
                    index |-> t.index]
  BY TaskFields DEF Goes
<1>2. Goes(t, p) \in Tasks
  BY <1>1, TaskFields, MakeTask
<1> QED
  BY <1>1, <1>2

\* A thread whose token is out of date.
LEMMA StaleFields ==
  ASSUME NEW t \in Tasks
  PROVE  /\ Stale(t) \in Tasks
         /\ Stale(t).kind = t.kind /\ Stale(t).pc = t.pc
         /\ Stale(t).gen = (t.gen /\ t.kind # "goal") /\ ~Stale(t).token
<1>1. PICK g \in BOOLEAN : g = (t.gen /\ t.kind # "goal")
  OBVIOUS
<1>2. Stale(t) = [t EXCEPT !.token = FALSE, !.index = 0, !.gen = g]
  BY Zenon, <1>1 DEF Stale
<1>3. Stale(t) = [kind |-> t.kind, pc |-> t.pc, gen |-> g, token |-> FALSE, index |-> 0]
  <2>1. PICK k \in DOMAIN Steps :
          t \in [kind : {k}, pc : Steps[k], gen : BOOLEAN, token : BOOLEAN, index : 0 .. Segments]
    BY DEF Tasks
  <2>2. PICK r : r = [t EXCEPT !.token = FALSE]
    OBVIOUS
  <2>3. r = [kind |-> t.kind, pc |-> t.pc, gen |-> t.gen, token |-> FALSE, index |-> t.index]
    BY <2>1, <2>2
  <2>4. [t EXCEPT !.token = FALSE, !.index = 0, !.gen = g] = [r EXCEPT !.index = 0, !.gen = g]
    BY Zenon, <2>2
  <2>5. /\ r \in [kind : {k}, pc : Steps[k], gen : BOOLEAN, token : BOOLEAN, index : 0 .. Segments]
        /\ r.kind = t.kind /\ r.pc = t.pc /\ ~r.token
    BY <2>1, <2>3
  <2>6. PICK q : q = [r EXCEPT !.index = 0]
    OBVIOUS
  <2>7. /\ q \in [kind : {k}, pc : Steps[k], gen : BOOLEAN, token : BOOLEAN, index : Nat]
        /\ q.kind = t.kind /\ q.pc = t.pc /\ q.token = FALSE /\ q.index = 0
    BY <2>5, <2>6
  <2>8. [r EXCEPT !.index = 0, !.gen = g] = [q EXCEPT !.gen = g]
    BY Zenon, <2>6
  <2>9. [q EXCEPT !.gen = g]
          = [kind |-> t.kind, pc |-> t.pc, gen |-> g, token |-> FALSE, index |-> 0]
    <3>1. q = [kind |-> q.kind, pc |-> q.pc, gen |-> q.gen, token |-> q.token, index |-> q.index]
      BY <2>7
    <3>2. [q EXCEPT !.gen = g] = [kind |-> q.kind, pc |-> q.pc, gen |-> g, token |-> q.token,
                                  index |-> q.index]
      BY <3>1
    <3> QED
      BY Zenon, <2>7, <3>2
  <2> QED
    BY Zenon, <1>2, <2>4, <2>8, <2>9
<1>4. FALSE \in BOOLEAN /\ 0 \in 0 .. Segments /\ t.kind \in DOMAIN Steps /\ t.pc \in Steps[t.kind]
  BY SegmentAssumption, TaskFields
<1>5. Stale(t) \in Tasks
  BY <1>3, <1>4, MakeTask
<1> QED
  BY <1>1, <1>3, <1>5

\* A thread that begins.
LEMMA NewTask ==
  ASSUME index \in 0 .. Segments, NEW k \in DOMAIN Steps, NEW p \in Steps[k]
  PROVE  /\ Task(k, p) \in Tasks
         /\ Task(k, p).kind = k /\ Task(k, p).pc = p /\ Task(k, p).gen
         /\ Task(k, p).token = Segmental(k, p)
         /\ Segmental(k, p) => Task(k, p).index = index
<1>1. /\ TRUE \in BOOLEAN /\ Segmental(k, p) \in BOOLEAN
      /\ (IF Segmental(k, p) THEN index ELSE 0) \in 0 .. Segments
  BY SegmentAssumption DEF Segmental
<1>2. Task(k, p) \in Tasks
  BY <1>1, MakeTask DEF Task
<1> QED
  BY <1>2 DEF Task

-----------------------------------------------------------------------------
(* Steps that change a counter.                                            *)

\* Q is what becomes of S when every token in it is out of date.
Cleared(S, Q) ==
  /\ Q \subseteq Tasks
  /\ \A v \in Q : ~v.token
  /\ \A v \in Q : \E u \in S : /\ v.kind = u.kind
                               /\ v.kind = "tick" => v.pc \in {u.pc, "finish"} /\ (v.gen => u.gen)
  /\ OneTick(Q) /\ OneGoal(Q)

\* ... and the generation, too.
ClearedAll(S, Q) == Cleared(S, Q) /\ \A v \in Q : v.kind = "tick" => ~v.gen

LEMMA TokenClears ==
  ASSUME NEW S, S \subseteq Tasks, OneTick(S), OneGoal(S)
  PROVE  Cleared(S, NewToken(S))
<1>1. ASSUME NEW v \in NewToken(S)
      PROVE  \E u \in S : v = Stale(u)
  BY DEF NewToken
<1>2. ASSUME NEW u \in S
      PROVE  /\ Stale(u) \in Tasks /\ ~Stale(u).token /\ Stale(u).kind = u.kind
             /\ Stale(u).pc = u.pc /\ (Stale(u).gen => u.gen)
  BY StaleFields
<1>3. NewToken(S) \subseteq Tasks /\ \A v \in NewToken(S) : ~v.token
  BY <1>1, <1>2
<1>4. \A v \in NewToken(S) : \E u \in S :
        v.kind = u.kind /\ (v.kind = "tick" => v.pc = u.pc /\ (v.gen => u.gen))
  BY <1>1, <1>2
<1>5. OneTick(NewToken(S)) /\ OneGoal(NewToken(S))
  <2> SUFFICES ASSUME NEW v \in NewToken(S), NEW w \in NewToken(S), v.kind = w.kind,
                      v.kind \in {"tick", "goal"}
               PROVE  v = w
    BY Zenon DEF OneTick, OneGoal
  <2>1. PICK a \in S : v = Stale(a)
    BY <1>1
  <2>2. PICK b \in S : w = Stale(b)
    BY <1>1
  <2>3. a = b
    BY <1>2, <2>1, <2>2 DEF OneTick, OneGoal
  <2> QED
    BY <2>1, <2>2, <2>3
<1> QED
  BY <1>3, <1>4, <1>5 DEF Cleared

LEMMA GenerationClears ==
  ASSUME NEW S, S \subseteq Tasks, OneTick(S), OneGoal(S)
  PROVE  ClearedAll(S, NewGeneration(S))
<1> DEFINE f(u) == [Stale(u) EXCEPT !.gen = u.kind \in {"op", "record"} /\ u.pc # "selected"]
<1>1. ASSUME NEW v \in NewGeneration(S)
      PROVE  \E u \in S : v = f(u)
  BY DEF NewGeneration
<1>2. ASSUME NEW u \in S
      PROVE  /\ f(u) \in Tasks /\ ~f(u).token /\ f(u).kind = u.kind
             /\ f(u).pc = u.pc /\ (u.kind = "tick" => ~f(u).gen)
  <2>1. PICK g \in BOOLEAN : g = (u.kind \in {"op", "record"} /\ u.pc # "selected")
    OBVIOUS
  <2>2. f(u) = [Stale(u) EXCEPT !.gen = g]
    BY Zenon, <2>1
  <2>3. Stale(u) \in Tasks /\ ~Stale(u).token /\ Stale(u).kind = u.kind /\ Stale(u).pc = u.pc
    BY StaleFields
  <2> DEFINE s == Stale(u)
  <2>4. /\ s.token \in BOOLEAN /\ s.index \in 0 .. Segments
        /\ s.kind \in DOMAIN Steps /\ s.pc \in Steps[s.kind]
        /\ s = [kind |-> s.kind, pc |-> s.pc, gen |-> s.gen, token |-> s.token, index |-> s.index]
    BY <2>3, TaskFields
  <2> HIDE DEF s
  <2>5. [s EXCEPT !.gen = g] = [kind |-> s.kind, pc |-> s.pc, gen |-> g, token |-> s.token,
                                index |-> s.index]
    BY <2>4
  <2>6. [s EXCEPT !.gen = g] \in Tasks
    BY <2>4, <2>5, MakeTask
  <2>7. u.kind = "tick" => ~g
    BY <2>1
  <2>8. [s EXCEPT !.gen = g].kind = s.kind /\ [s EXCEPT !.gen = g].pc = s.pc
        /\ [s EXCEPT !.gen = g].token = s.token /\ [s EXCEPT !.gen = g].gen = g
    BY <2>5
  <2> QED
    BY <2>2, <2>3, <2>6, <2>7, <2>8 DEF s
<1> HIDE DEF f
<1>3. NewGeneration(S) \subseteq Tasks /\ \A v \in NewGeneration(S) : ~v.token
  BY <1>1, <1>2
<1>4. \A v \in NewGeneration(S) : \E u \in S :
        v.kind = u.kind /\ (v.kind = "tick" => v.pc = u.pc /\ ~v.gen)
  BY <1>1, <1>2
<1>5. OneTick(NewGeneration(S)) /\ OneGoal(NewGeneration(S))
  <2> SUFFICES ASSUME NEW v \in NewGeneration(S), NEW w \in NewGeneration(S), v.kind = w.kind,
                      v.kind \in {"tick", "goal"}
               PROVE  v = w
    BY Zenon DEF OneTick, OneGoal
  <2>1. PICK a \in S : v = f(a)
    BY <1>1
  <2>2. PICK b \in S : w = f(b)
    BY <1>1
  <2>3. a = b
    BY <1>2, <2>1, <2>2 DEF OneTick, OneGoal
  <2> QED
    BY <2>1, <2>2, <2>3
<1> QED
  BY <1>3, <1>4, <1>5 DEF Cleared, ClearedAll

\* cancel_goal_async changes the goal and nothing else.
LEMMA RevokedKeeps ==
  ASSUME NEW S, S \subseteq Tasks, OneTick(S), OneGoal(S)
  PROVE  /\ Revoked(S) \subseteq Tasks /\ OneTick(Revoked(S)) /\ OneGoal(Revoked(S))
         /\ \A v \in Revoked(S) : \E u \in S : v.kind = u.kind /\ (v.kind # "goal" => v = u)
<1> DEFINE f(t) == IF t.kind = "goal" /\ t.pc = "running" THEN Goes(t, "canceling") ELSE t
<1>1. ASSUME NEW u \in S
      PROVE  f(u) \in Tasks /\ f(u).kind = u.kind /\ (u.kind # "goal" => f(u) = u)
  BY GoesFields, StepNames
<1>2. ASSUME NEW v \in Revoked(S)
      PROVE  \E u \in S : v = f(u) \/ v = u
  BY DEF Revoked
<1>3. CASE handle # "goal"
  BY <1>3 DEF Revoked
<1>4. CASE handle = "goal"
  <2>1. ASSUME NEW v \in Revoked(S) PROVE \E u \in S : v = f(u)
    BY <1>4 DEF Revoked
  <2> HIDE DEF f
  <2>2. OneTick(Revoked(S)) /\ OneGoal(Revoked(S))
    <3> SUFFICES ASSUME NEW v \in Revoked(S), NEW w \in Revoked(S), v.kind = w.kind,
                        v.kind \in {"tick", "goal"}
                 PROVE  v = w
      BY Zenon DEF OneTick, OneGoal
    <3>1. PICK a \in S : v = f(a)
      BY <2>1
    <3>2. PICK b \in S : w = f(b)
      BY <2>1
    <3>3. a = b
      BY <1>1, <3>1, <3>2 DEF OneTick, OneGoal
    <3> QED
      BY <3>1, <3>2, <3>3
  <2> QED
    BY <1>1, <2>1, <2>2
<1> QED
  BY <1>3, <1>4

\* The two counters after a cancel.
LEMMA Clears ==
  ASSUME NEW S, TInv(S)
  PROVE  /\ Cleared(S, NewToken(S)) /\ Cleared(S, NewToken(Revoked(S)))
         /\ ClearedAll(S, NewGeneration(S)) /\ ClearedAll(S, NewGeneration(Revoked(S)))
<1>1. S \subseteq Tasks /\ OneTick(S) /\ OneGoal(S)
  BY DEF TInv
<1> DEFINE R == Revoked(S)
<1>2. /\ R \subseteq Tasks /\ OneTick(R) /\ OneGoal(R)
      /\ \A v \in R : \E u \in S : v.kind = u.kind /\ (v.kind # "goal" => v = u)
  BY <1>1, RevokedKeeps
<1> HIDE DEF R
<1>3. Cleared(R, NewToken(R)) /\ ClearedAll(R, NewGeneration(R))
  BY <1>2, TokenClears, GenerationClears
<1>4. ASSUME NEW Q, Cleared(R, Q)
      PROVE  Cleared(S, Q)
  <2>1. ASSUME NEW v \in Q
        PROVE  \E u \in S : v.kind = u.kind /\ (v.kind = "tick" => v.pc \in {u.pc, "finish"} /\ (v.gen => u.gen))
    <3>1. PICK r \in R : /\ v.kind = r.kind
                         /\ v.kind = "tick" => v.pc \in {r.pc, "finish"} /\ (v.gen => r.gen)
      BY <1>4 DEF Cleared
    <3>2. PICK u \in S : r.kind = u.kind /\ (r.kind # "goal" => r = u)
      BY <1>2
    <3> QED
      BY <3>1, <3>2
  <2> QED
    BY <1>4, <2>1 DEF Cleared
<1>5. Cleared(S, NewToken(R)) /\ ClearedAll(S, NewGeneration(R))
  BY <1>3, <1>4 DEF ClearedAll
<1>6. Cleared(S, NewToken(S)) /\ ClearedAll(S, NewGeneration(S))
  BY <1>1, TokenClears, GenerationClears
<1> QED
  BY <1>5, <1>6 DEF R

\* A thread that disturbs nobody.
Mere(x) == x \in Tasks /\ x.kind \notin {"tick", "goal"} /\ ~x.token

\* The invariant after a counter has changed.
LEMMA ClearStep ==
  ASSUME Plain', NEW S, TInv(S), NEW Q, Cleared(S, Q),
         \A x \in tasks' : x \in Q \/ Mere(x),
         \/ index' < Segments
         \/ index' = index /\ (phase' = phase \/ phase' \notin Turning)
         \/ /\ phase' \notin Turning
            /\ \A t \in S : t.kind = "tick" => /\ t.pc \notin {"turn", "reenter", "begin"}
                                               /\ t.pc \in {"anchor", "escape"} => ~t.gen,
         state' \in Stopped =>
           /\ phase' # "STRAIGHT"
           /\ state \in Stopped \/ ClearedAll(S, Q),
         last' > 0 => \/ last > 0 /\ relocation' = relocation
                      \/ relocation' # "none"
                      \/ \A v \in Q : v.kind = "tick" /\ v.pc = "escape" => ~v.gen
  PROVE  TInv(tasks)'
<1>1. \A x \in tasks' : x \in Tasks /\ ~x.token
  BY DEF Cleared, Mere
<1>2. \A x \in tasks' : x.kind = "tick" \/ x.kind = "goal" => x \in Q
  BY DEF Mere
<1>3. \A x \in tasks' : x.kind = "tick" => \E u \in S : u.kind = "tick" /\ x.pc \in {u.pc, "finish"} /\ (x.gen => u.gen)
  BY <1>2 DEF Cleared
<1>4. Bounded(tasks)' /\ Apart(tasks)' /\ OneSender(tasks)' /\ Unsent(tasks)' /\ Held(tasks)'
  BY <1>1 DEF Bounded, Apart, OneSender, Unsent, Held, Chained
<1>5. OneTick(tasks)' /\ OneGoal(tasks)'
  BY <1>2 DEF Cleared, OneTick, OneGoal
<1>6. Within(tasks)'
  BY <1>3 DEF Within, TInv
<1>7. Quiet(tasks)'
  BY <1>1, <1>2, <1>3 DEF Quiet, TInv, ClearedAll, Chained
<1>8. Driven(tasks)'
  BY <1>1, <1>2, <1>3 DEF Driven, TInv
<1> QED
  BY <1>1, <1>4, <1>5, <1>6, <1>7, <1>8 DEF TInv

\* The invariant of what a change of a counter leaves.
LEMMA ClearedHolds ==
  ASSUME Plain, NEW S, TInv(S), NEW Q, Cleared(S, Q)
  PROVE  TInv(Q)
<1>1. \A x \in Q : x \in Tasks /\ ~x.token
  BY DEF Cleared
<1>2. \A x \in Q : x.kind = "tick" => \E u \in S : u.kind = "tick" /\ x.pc \in {u.pc, "finish"} /\ (x.gen => u.gen)
  BY DEF Cleared
<1>3. Bounded(Q) /\ Apart(Q) /\ OneSender(Q) /\ Unsent(Q) /\ Held(Q)
  BY <1>1 DEF Bounded, Apart, OneSender, Unsent, Held, Chained
<1>4. Within(Q) /\ Quiet(Q) /\ Driven(Q)
  BY <1>1, <1>2 DEF Within, Quiet, Driven, TInv, Chained
<1> QED
  BY <1>1, <1>3, <1>4 DEF TInv, Cleared

\* The invariant after a step that changes no counter.
LEMMA KeepStep ==
  ASSUME Plain, Plain', NEW S, TInv(S), \A x \in tasks' : x \in S \/ Mere(x),
         UNCHANGED <<last, index, pos, relocation, handle>>,
         phase' = phase \/ phase' \notin Between \/ \A t \in S : ~Chained(t),
         phase' = phase \/ phase' \notin Turning \/ index < Segments,
         state' \in Stopped => state \in Stopped /\ (phase' = phase \/ phase' # "STRAIGHT")
  PROVE  TInv(tasks)'
<1>1. \A x \in tasks' : x \in Tasks /\ (x \in S \/ Mere(x))
  BY DEF TInv, Mere
<1>2. \A x \in tasks' : x.token \/ x.kind = "tick" \/ x.kind = "goal" => x \in S
  BY <1>1 DEF Mere
<1>3. Bounded(tasks)' /\ OneTick(tasks)' /\ OneGoal(tasks)' /\ OneSender(tasks)'
  BY <1>2 DEF Bounded, OneTick, OneGoal, OneSender, TInv
<1>4. Apart(tasks)'
  BY <1>2 DEF Apart, Chained, TInv
<1>5. Within(tasks)'
  BY <1>2 DEF Within, TInv
<1>6. Unsent(tasks)' /\ Held(tasks)'
  BY <1>2 DEF Unsent, Held, TInv
<1>7. Quiet(tasks)'
  BY <1>2 DEF Quiet, TInv, Chained
<1>8. Driven(tasks)'
  BY <1>2 DEF Driven, TInv
<1> QED
  BY <1>1, <1>3, <1>4, <1>5, <1>6, <1>7, <1>8 DEF TInv

\* A part of the threads.
LEMMA Fewer ==
  ASSUME NEW S, TInv(S), NEW R, R \subseteq S
  PROVE  TInv(R)
BY DEF TInv, Bounded, Apart, OneTick, OneGoal, OneSender, Within, Unsent, Held, Quiet, Driven

\* A tick goes on, or begins, where there is no other.
LEMMA TickStep ==
  ASSUME Plain, Plain', NEW S, TInv(S), \A t \in S : t.kind # "tick",
         NEW x \in Tasks, x.kind = "tick", tasks' = S \cup {x},
         UNCHANGED <<last, index, pos, relocation, handle, state>>,
         phase' = phase \/ (phase' \in Turning /\ index < Segments /\ \A t \in S : ~Chained(t)),
         x.pc \in Preparing => \A t \in S : ~Chained(t),
         x.pc \in {"turn", "reenter", "begin"} \/ (x.pc \in {"anchor", "escape"} /\ x.gen)
           => index < Segments,
         x.pc \in {"prepare", "anchor", "escape"} => state \notin Stopped \/ ~x.gen,
         x.token => x.index < Segments,
         x.pc = "complete" => index < pos,
         last > 0 /\ (x.pc = "clear" \/ (x.pc = "escape" /\ x.gen)) => relocation # "none"
  PROVE  TInv(tasks)'
<1>1. /\ tasks' \subseteq Tasks /\ ~Chained(x) /\ x.kind # "goal" /\ x.kind # "sender"
      /\ x.pc # "SUCCEEDED"
  BY TaskFields, StepNames DEF TInv, Chained
<1>2. Bounded(tasks)'
  BY DEF Bounded, TInv
<1>3. OneTick(tasks)' /\ OneGoal(tasks)' /\ OneSender(tasks)'
  BY <1>1 DEF OneTick, OneGoal, OneSender, TInv
<1>4. Apart(tasks)'
  BY <1>1 DEF Apart, Chained, TInv
<1>5. Within(tasks)'
  BY DEF Within, TInv, Preparing
<1>6. Unsent(tasks)' /\ Held(tasks)'
  BY <1>1 DEF Unsent, Held, TInv
<1>7. Quiet(tasks)'
  BY <1>1 DEF Quiet, TInv, Chained, Turning
<1>8. Driven(tasks)'
  BY <1>1 DEF Driven, TInv
<1> QED
  BY <1>1, <1>2, <1>3, <1>4, <1>5, <1>6, <1>7, <1>8 DEF TInv

-----------------------------------------------------------------------------
(* The steps that several handlers share.                                  *)

\* The threads that a state PLANNING waits for are still in Q.
Keeping(S, Q) ==
  \A t \in S : t.kind \in {"op", "recover"} => \E v \in Q : v.kind = t.kind /\ v.pc = t.pc

\* What such a step makes of what is left of tasks, S.
Holds(S) ==
  /\ Plain' /\ TInv(tasks)' /\ Advances
  /\ state' = "PLANNING" => state = "PLANNING" /\ Keeping(S, tasks')

LEMMA Mild ==
  ASSUME Plain, NEW k \in {"op", "replan", "dynamic", "bypass", "bay", "auto", "recover", "record"},
         NEW p \in Steps[k], p \notin {"complete", "clear"}
  PROVE  Mere(Task(k, p))
<1>1. k \in DOMAIN Steps /\ index \in 0 .. Segments
  BY StepNames DEF Plain
<1>2. ~Segmental(k, p) /\ k \notin {"tick", "goal"}
  BY DEF Segmental
<1> QED
  BY <1>1, <1>2, NewTask DEF Mere

LEMMA TokenKeeping ==
  ASSUME NEW S, TInv(S)
  PROVE  Keeping(S, NewToken(S)) /\ Keeping(S, NewToken(Revoked(S)))
<1>1. ASSUME NEW R, R \subseteq Tasks
      PROVE  Keeping(R, NewToken(R))
  <2> SUFFICES ASSUME NEW t \in R, t.kind \in {"op", "recover"}
               PROVE  \E v \in NewToken(R) : v.kind = t.kind /\ v.pc = t.pc
    BY DEF Keeping
  <2>1. <<t.kind, t.pc>> \notin TokenEnds
    BY DEF TokenEnds
  <2>2. Stale(t) \in NewToken(R)
    BY <2>1 DEF NewToken
  <2>3. Stale(t).kind = t.kind /\ Stale(t).pc = t.pc
    BY <1>1, StaleFields
  <2> QED
    BY <2>2, <2>3
<1>2. S \subseteq Tasks /\ OneTick(S) /\ OneGoal(S)
  BY DEF TInv
<1>3. Revoked(S) \subseteq Tasks
  BY <1>2, RevokedKeeps
<1>4. \A t \in S : t.kind # "goal" => t \in Revoked(S)
  BY DEF Revoked
<1>5. Keeping(S, NewToken(S)) /\ Keeping(Revoked(S), NewToken(Revoked(S)))
  BY <1>1, <1>2, <1>3
<1>6. Keeping(S, NewToken(Revoked(S)))
  BY <1>4, <1>5 DEF Keeping
<1> QED
  BY <1>5, <1>6

LEMMA Ignored ==
  ASSUME Plain, NEW S, TInv(S), Ignore(S)
  PROVE  Holds(S)
<1>1. Plain'
  BY DEF Plain, Ignore, Route
<1>2. UNCHANGED <<last, index, pos, relocation, handle, phase, state>> /\ (\A x \in tasks' : x \in S \/ Mere(x))
  BY DEF Ignore, Route
<1>3. TInv(tasks)'
  BY <1>1, <1>2, KeepStep
<1>4. tasks' = S /\ state' = state
  BY DEF Ignore
<1> QED
  BY <1>1, <1>2, <1>3, <1>4 DEF Holds, Advances, Keeping

LEMMA Waiting ==
  ASSUME Plain, NEW S, TInv(S), EnterWait(S)
  PROVE  Holds(S)
<1>1. CASE state = "WAIT_FOR_DYNAMIC_CLEAR"
  <2>1. Ignore(S)
    BY <1>1 DEF EnterWait, Ignore
  <2> QED
    BY <2>1, Ignored
<1>2. CASE state # "WAIT_FOR_DYNAMIC_CLEAR"
  <2>1. /\ state' = "WAIT_FOR_DYNAMIC_CLEAR" /\ phase' = "WAIT_FOR_DYNAMIC_CLEAR"
        /\ tasks' = NewToken(Revoked(S))
        /\ handle' = "none" /\ owner' = FALSE /\ active' = FALSE
        /\ UNCHANGED <<goal, last, index, pos, relocation, context, record, canceled>>
    BY <1>2 DEF EnterWait, Revoke, Route
  <2>2. Plain'
    BY <2>1 DEF Plain, States, Phases
  <2>3. last' > 0 => last > 0 /\ relocation' = relocation
    BY <2>1
  <2>4. (\A x \in tasks' : x \in NewToken(Revoked(S)) \/ Mere(x)) /\ state' \notin Stopped /\ phase' \notin Turning
    BY <2>1 DEF Stopped, Turning
  <2>5. TInv(tasks)'
    BY <2>1, <2>2, <2>3, <2>4, Clears, ClearStep
  <2> QED
    BY <2>1, <2>2, <2>5 DEF Holds, Advances
<1> QED
  BY <1>1, <1>2

LEMMA Replanning ==
  ASSUME Plain, NEW S, TInv(S), NEW t, ScheduleReplan(t, S)
  PROVE  Holds(S)
<1>1. CASE Ignore(S)
  BY <1>1, Ignored
<1>2. CASE EnterWait(S)
  BY <1>2, Waiting
<1>3. CASE /\ phase' = "RECOVERING" /\ Revoke
           /\ tasks' = NewToken(Revoked(S)) \cup {Task("replan", "start")}
           /\ UNCHANGED <<state, goal, Route, context, record, canceled>>
           /\ phase # "RECOVERING"
  <2>1. /\ phase' = "RECOVERING"
        /\ tasks' = NewToken(Revoked(S)) \cup {Task("replan", "start")}
        /\ handle' = "none" /\ owner' = FALSE /\ active' = FALSE
        /\ UNCHANGED <<state, goal, last, index, pos, relocation, context, record, canceled>>
    BY <1>3 DEF Revoke, Route
  <2>2. Plain'
    BY <2>1 DEF Plain, Phases
  <2>3. last' > 0 => last > 0 /\ relocation' = relocation
    BY <2>1
  <2>4. Mere(Task("replan", "start"))
    BY Mild, StepNames
  <2>5. phase' # "STRAIGHT" /\ phase' \notin Turning
    BY <2>1 DEF Turning
  <2>6. TInv(tasks)'
    BY <2>1, <2>2, <2>3, <2>4, <2>5, Clears, ClearStep
  <2>7. Keeping(S, tasks')
    BY <2>1, TokenKeeping DEF Keeping
  <2> QED
    BY <2>1, <2>2, <2>6, <2>7 DEF Holds, Advances
<1> QED
  BY Zenon, <1>1, <1>2, <1>3 DEF ScheduleReplan

\* A mission starts its segment again, where it is.
LEMMA Restarting ==
  ASSUME Plain, NEW S, TInv(S), phase' = "STRAIGHT_PREPARE", Revoke, state' \in {state, "NAVIGATING"},
         tasks' = NewToken(Revoked(S)), UNCHANGED <<goal, Route, context, record, canceled>>
  PROVE  Holds(S)
<1>1. /\ handle' = "none" /\ owner' = FALSE /\ active' = FALSE
      /\ UNCHANGED <<goal, last, index, pos, relocation, context, record, canceled>>
  BY DEF Revoke, Route
<1>2. Plain'
  BY <1>1 DEF Plain, States, Phases
<1>3. last' > 0 => last > 0 /\ relocation' = relocation
  BY <1>1
<1>4. (\A x \in tasks' : x \in NewToken(Revoked(S)) \/ Mere(x)) /\ phase' \notin Turning /\ phase' # "STRAIGHT"
  BY DEF Turning
<1>5. state' \in Stopped => state \in Stopped
  BY DEF Stopped
<1>6. TInv(tasks)'
  BY <1>1, <1>2, <1>3, <1>4, <1>5, Clears, ClearStep
<1>7. Keeping(S, tasks')
  BY TokenKeeping
<1> QED
  BY <1>1, <1>2, <1>6, <1>7 DEF Holds, Advances

LEMMA SegmentRestarts ==
  ASSUME Plain, NEW S, TInv(S), NEW t, RestartSegment(t, S)
  PROVE  Holds(S)
<1>1. CASE Ignore(S)
  BY <1>1, Ignored
<1>2. CASE /\ phase' = "STRAIGHT_PREPARE" /\ Revoke
           /\ tasks' = NewToken(Revoked(S))
           /\ UNCHANGED <<state, goal, Route, context, record, canceled>>
  BY <1>2, Restarting
<1> QED
  BY Zenon, <1>1, <1>2 DEF RestartSegment

LEMMA BayStarts ==
  ASSUME Plain, NEW S, TInv(S), NEW t, StartBay(t, S)
  PROVE  Holds(S)
<1>1. CASE Ignore(S)
  BY <1>1, Ignored
<1>2. CASE /\ phase' = "TURN_BAY_SEARCH" /\ state' = "TURN_BAY_RECOVERY"
           /\ owner' = FALSE /\ tasks' = S \cup {Task("bay", "start")}
           /\ UNCHANGED <<goal, Route, active, handle, context, record, canceled>>
  <2>1. UNCHANGED <<goal, last, index, pos, relocation, active, handle, context, record, canceled>>
    BY <1>2 DEF Route
  <2>2. Plain'
    BY <1>2, <2>1 DEF Plain, States, Phases
  <2>3. Mere(Task("bay", "start"))
    BY Mild, StepNames
  <2>4. phase' \notin Between /\ phase' \notin Turning /\ state' \notin Stopped
    BY <1>2 DEF Between, Turning, Stopped
  <2>5. TInv(tasks)'
    BY <1>2, <2>1, <2>2, <2>3, <2>4, KeepStep
  <2> QED
    BY <1>2, <2>1, <2>2, <2>5 DEF Holds, Advances
<1> QED
  BY Zenon, <1>1, <1>2 DEF StartBay

LEMMA Navigates ==
  ASSUME Plain, NEW S, TInv(S), NEW k \in {"op", "record"}, Navigate(k, S), UNCHANGED canceled
  PROVE  Holds(S)
<1>1. /\ state' = "NAVIGATING" /\ phase' = "STRAIGHT_PREPARE"
      /\ handle' = "none" /\ owner' = FALSE /\ active' = FALSE /\ goal' = TRUE
      /\ index' = 0 /\ pos' = 0 /\ last' \in {1, Segments} /\ relocation' \in Relocations
      /\ tasks' = NewGeneration(S) \cup {Task(k, "persist")}
      /\ UNCHANGED <<context, record, canceled>>
  BY DEF Navigate, Relocations
<1>2. last' \in 0 .. Segments /\ index' \in 0 .. Segments /\ index' < Segments
  BY <1>1, SegmentAssumption
<1>3. Plain'
  BY <1>1, <1>2 DEF Plain, States, Phases
<1>4. Mere(Task(k, "persist"))
  BY Mild, StepNames
<1>5. state' \notin Stopped
  BY <1>1 DEF Stopped
<1>6. TInv(tasks)'
  BY <1>1, <1>2, <1>3, <1>4, <1>5, Clears, ClearStep DEF ClearedAll
<1> QED
  BY <1>1, <1>3, <1>6 DEF Holds, Advances

LEMMA NoRoute ==
  ASSUME Plain, NEW S, TInv(S), NEW c \in BOOLEAN, BlockedNoRoute(S, c)
  PROVE  Holds(S)
<1>1. /\ state' = "BLOCKED" /\ phase' = "IDLE" /\ owner' = FALSE /\ tasks' = S
      /\ UNCHANGED <<last, index, pos, relocation, active, handle, context, canceled>>
  BY DEF BlockedNoRoute, Route
<1>2. goal' \in BOOLEAN /\ record' \in {"none", "auto", "held"}
  BY DEF BlockedNoRoute, Plain
<1>3. Plain'
  BY <1>1, <1>2 DEF Plain, States, Phases
<1>4. phase' \notin Between /\ phase' \notin Turning /\ state' \notin Stopped /\ (\A x \in tasks' : x \in S \/ Mere(x))
  BY <1>1 DEF Between, Turning, Stopped
<1>5. TInv(tasks)'
  BY <1>1, <1>3, <1>4, KeepStep
<1> QED
  BY <1>1, <1>3, <1>5 DEF Holds, Advances

LEMMA Finishes ==
  ASSUME Plain, NEW S, TInv(S), NEW t, NEW allowed, Finish(t, S, allowed)
  PROVE  Holds(S)
<1>1. CASE Ignore(S)
  BY <1>1, Ignored
<1>2. CASE ScheduleReplan(t, S)
  BY <1>2, Replanning
<1>3. CASE /\ state' = "SUCCEEDED" /\ phase' = "IDLE" /\ Revoke
           /\ goal' = FALSE /\ last' = 0 /\ index' = 0 /\ pos' = 0 /\ record' = "none"
           /\ tasks' = NewGeneration(Revoked(S))
           /\ UNCHANGED <<relocation, context, canceled>>
  <2>1. handle' = "none" /\ owner' = FALSE /\ active' = FALSE
    BY <1>3 DEF Revoke
  <2>2. Plain'
    <3>1. 0 \in 0 .. Segments
      BY SegmentAssumption
    <3>2. relocation' = relocation /\ context' = context /\ canceled' = canceled
      BY <1>3
    <3> QED
      BY <1>3, <2>1, <3>1, <3>2 DEF Plain, States, Phases
  <2>3. /\ (\A x \in tasks' : x \in NewGeneration(Revoked(S)) \/ Mere(x)) /\ phase' # "STRAIGHT"
        /\ index' < Segments /\ ~(last' > 0)
    BY <1>3, SegmentAssumption
  <2>4. TInv(tasks)'
    BY <2>2, <2>3, Clears, ClearStep DEF ClearedAll
  <2> QED
    BY <1>3, <2>2, <2>4 DEF Holds, Advances
<1> QED
  BY Zenon, <1>1, <1>2, <1>3 DEF Finish

-----------------------------------------------------------------------------
(* A thread goes on.                                                       *)

\* Neither a tick nor a goal: what it holds stays as it was.
LEMMA GoesOn ==
  ASSUME Plain, Plain', TInv(tasks), NEW t \in tasks, NEW p \in Steps[t.kind],
         t.kind \notin {"tick", "goal"}, p \notin {"complete", "SUCCEEDED"},
         tasks' = (tasks \ {t}) \cup {Goes(t, p)},
         UNCHANGED <<last, index, pos, relocation, handle, phase>>, state' = state \/ state' \notin Stopped
  PROVE  TInv(tasks)'
<1> DEFINE x == Goes(t, p)
<1>1. t \in Tasks
  BY DEF TInv
<1>2. /\ x \in Tasks /\ x.kind = t.kind /\ x.pc = p /\ x.gen = t.gen /\ x.token = t.token
      /\ x.index = t.index
  BY <1>1, GoesFields
<1> HIDE DEF x
<1>3. \A v \in tasks' : v \in tasks \/ v = x
  BY DEF x
<1>4. \A v \in tasks' : v = x \/ v # t
  BY DEF x
<1>5. tasks' \subseteq Tasks /\ Bounded(tasks)'
  BY <1>1, <1>2, <1>3 DEF Bounded, TInv
<1>6. OneTick(tasks)' /\ OneGoal(tasks)'
  BY <1>2, <1>3 DEF OneTick, OneGoal, TInv
<1>7. OneSender(tasks)'
  BY <1>2, <1>3, <1>4 DEF OneSender, TInv
<1>8. Apart(tasks)'
  BY <1>2, <1>3 DEF Apart, Chained, TInv
<1>9. Within(tasks)'
  BY <1>2, <1>3 DEF Within, TInv
<1>10. Unsent(tasks)' /\ Held(tasks)'
  BY <1>2, <1>3 DEF Unsent, Held, TInv
<1>11. Quiet(tasks)'
  BY <1>2, <1>3 DEF Quiet, Chained, TInv
<1>12. Driven(tasks)'
  BY <1>2, <1>3 DEF Driven, TInv
<1> QED
  BY <1>5, <1>6, <1>7, <1>8, <1>9, <1>10, <1>11, <1>12 DEF TInv

\* A sender begins where no segment is at FollowPath and no tick prepares one.
LEMMA SenderBegins ==
  ASSUME Plain, Plain', NEW S, TInv(S), \A u \in S : ~Chained(u),
         \A u \in S : u.kind = "tick" => u.pc \notin Preparing,
         tasks' = S \cup {Task("sender", "start")},
         UNCHANGED <<last, index, pos, relocation, handle, state>>,
         phase' \notin Between, phase' # "STRAIGHT", state \notin Stopped, index < Segments
  PROVE  TInv(tasks)'
<1> DEFINE x == Task("sender", "start")
<1>1. /\ x \in Tasks /\ x.kind = "sender" /\ x.pc = "start" /\ x.token /\ x.index = index
  <2>1. index \in 0 .. Segments /\ "sender" \in DOMAIN Steps /\ "start" \in Steps["sender"]
    BY StepNames DEF Plain
  <2>2. Segmental("sender", "start")
    BY DEF Segmental
  <2> QED
    BY <2>1, <2>2, NewTask
<1> HIDE DEF x
<1>2. \A v \in tasks' : v \in S \/ v = x
  BY DEF x
<1>3. tasks' \subseteq Tasks /\ Bounded(tasks)'
  BY <1>1, <1>2 DEF Bounded, TInv
<1>4. OneTick(tasks)' /\ OneGoal(tasks)'
  BY <1>1, <1>2 DEF OneTick, OneGoal, TInv
<1>5. OneSender(tasks)'
  BY <1>1, <1>2 DEF OneSender, Chained
<1>6. Apart(tasks)'
  BY <1>1, <1>2 DEF Apart
<1>7. Within(tasks)'
  BY DEF Within
<1>8. Unsent(tasks)' /\ Held(tasks)'
  BY <1>1, <1>2 DEF Unsent, Held, Chained
<1>9. Quiet(tasks)'
  BY DEF Quiet
<1>10. Driven(tasks)'
  BY <1>1, <1>2 DEF Driven, TInv
<1> QED
  BY <1>3, <1>4, <1>5, <1>6, <1>7, <1>8, <1>9, <1>10 DEF TInv

\* A segment is completed by the tick or by the result that found it driven, a start
\* escape also by the tick that found it no longer needed.
LEMMA Completes ==
  ASSUME Plain, TInv(tasks), NEW t \in tasks,
         (t.kind = "tick" /\ t.pc \in {"complete", "clear"}) \/ (t.kind = "result" /\ t.pc = "SUCCEEDED"),
         Complete(t, tasks \ {t})
  PROVE  Holds(tasks \ {t})
<1> DEFINE S == tasks \ {t}
<1>1. TInv(S)
  BY Fewer
<1>2. CASE Ignore(S)
  BY <1>1, <1>2, Ignored
<1>3. CASE ~Ignore(S)
  <2> DEFINE x == Stale(Goes(t, "finish"))
  <2> DEFINE Q == NewToken(Revoked(S))
  <2>1. /\ CompletionCurrent(t)
        /\ index' = index + 1 /\ Revoke
        /\ UNCHANGED <<goal, last, pos, context, record, canceled>>
        /\ \/ /\ relocation' = "none" /\ phase' = "RECOVERING" /\ state' = state
              /\ tasks' = Q \cup {Task("replan", "start")}
           \/ /\ relocation' = "none" /\ phase' = "TURN_BAY_SEARCH" /\ state' = "TURN_BAY_RECOVERY"
              /\ tasks' = Q \cup {Task("bay", "start")}
           \/ /\ relocation' = relocation /\ phase' = "STRAIGHT_PREPARE" /\ state' = state
              /\ tasks' = Q \cup {x} \/ tasks' = Q
    BY <1>3 DEF Complete
  <2>2. t \in Tasks /\ t.token /\ t.index = index /\ state = "NAVIGATING" /\ index < Segments
    BY <2>1 DEF CompletionCurrent, TInv, Bounded
  <2>3. last > 0 => index < pos \/ relocation # "none"
    BY <2>2 DEF TInv, Driven
  <2>4. index' \in 0 .. Segments /\ Advances
    BY <2>1, <2>2, <2>3, SegmentAssumption DEF Plain, Advances
  <2>5. Plain'
    BY <2>1, <2>4 DEF Plain, Relocations, Revoke, States, Phases
  <2>6. phase' \notin Turning /\ phase' # "STRAIGHT" /\ state' \notin Stopped
    BY <2>1, <2>2 DEF Turning, Stopped
  <2>7. Cleared(S, Q) /\ S \subseteq tasks /\ OneTick(tasks) /\ OneGoal(tasks)
    BY <1>1, Clears DEF TInv
  <2>8. x \in Tasks /\ ~x.token /\ x.kind = t.kind /\ x.pc = "finish" /\ (x.gen => t.gen)
    <3>1. "finish" \in Steps[t.kind]
      BY StepNames
    <3>2. Goes(t, "finish") \in Tasks /\ Goes(t, "finish").kind = t.kind
          /\ Goes(t, "finish").pc = "finish" /\ Goes(t, "finish").gen = t.gen
      BY <2>2, <3>1, GoesFields
    <3> QED
      BY <3>2, StaleFields
  <2> HIDE DEF Q, x
  <2>9. Cleared(tasks, Q \cup {x})
    <3>1. \A v \in Q : v.kind = "tick" => t.kind # "tick"
      BY <2>7 DEF Cleared, OneTick, S
    <3>2. OneTick(Q \cup {x}) /\ OneGoal(Q \cup {x})
      BY <2>7, <2>8, <3>1 DEF Cleared, OneTick, OneGoal
    <3>3. \A v \in Q \cup {x} : \E u \in tasks :
            /\ v.kind = u.kind
            /\ v.kind = "tick" => v.pc \in {u.pc, "finish"} /\ (v.gen => u.gen)
      BY <2>7, <2>8 DEF Cleared
    <3> QED
      BY <2>7, <2>8, <3>2, <3>3 DEF Cleared
  <2>10. Mere(Task("replan", "start")) /\ Mere(Task("bay", "start"))
    BY Mild, StepNames
  <2>11. \A v \in tasks' : v \in Q \cup {x} \/ Mere(v)
    BY <2>1, <2>10
  <2>12. \A u \in tasks : u.kind = "tick" => /\ u.pc \notin {"turn", "reenter", "begin"}
                                             /\ u.pc \in {"anchor", "escape"} => ~u.gen
    <3>1. CASE t.kind = "tick"
      BY <2>7, <3>1 DEF OneTick
    <3>2. CASE t.kind = "result"
      BY <2>2, <3>2 DEF TInv, Apart, Chained, Preparing
    <3> QED
      BY <3>1, <3>2
  <2>13. \A v \in Q \cup {x} : v.kind = "tick" /\ v.pc = "escape" => ~v.gen
    BY <2>9, <2>12 DEF Cleared
  <2>14. TInv(tasks)'
    BY <2>4, <2>5, <2>6, <2>9, <2>11, <2>12, <2>13, ClearStep
  <2>15. state' # "PLANNING"
    BY <2>1, <2>2
  <2> QED
    BY <2>4, <2>5, <2>14, <2>15 DEF Holds
<1> QED
  BY <1>2, <1>3

-----------------------------------------------------------------------------
(* The actions.                                                            *)

\* A thread that a state PLANNING waits for.
Attends(t) == t.kind = "recover" \/ (t.kind = "op" /\ t.pc = "resuming")

LEMMA Attending ==
  ASSUME IInv, NEW S, \A u \in tasks : Attends(u) => u \in S, Holds(S)
  PROVE  Kept
<1>1. Leaves
  <2> SUFFICES ASSUME state' = "PLANNING", ~PlanningThread'
               PROVE  state = "PLANNING" /\ ~PlanningThread
    BY DEF Leaves
  <2>1. state = "PLANNING" /\ Keeping(S, tasks')
    BY DEF Holds
  <2>2. ASSUME NEW u \in tasks, Attends(u) PROVE FALSE
    <3>1. PICK v \in tasks' : v.kind = u.kind /\ v.pc = u.pc
      BY <2>1, <2>2 DEF Keeping, Attends
    <3> QED
      BY <2>2, <3>1 DEF Attends, PlanningThread
  <2> QED
    BY <2>1, <2>2 DEF Attends, PlanningThread
<1> QED
  BY <1>1 DEF Kept, IInv, Holds

\* Steps that leave PLANNING, enter it with a thread, or leave it without one by design
\* of the code.
LEMMA Leaving ==
  ASSUME Plain', TInv(tasks)', Advances,
         state' # "PLANNING" \/ PlanningThread' \/ \E t \in tasks : StartRefused(t)
  PROVE  Kept
BY DEF Kept, IInv, Leaves

\* Steps that a thread takes on what the others left.
LEMMA Others ==
  ASSUME IInv, NEW t \in tasks
  PROVE  /\ Plain /\ TInv(tasks) /\ TInv(tasks \ {t}) /\ t \in Tasks
         /\ ~Attends(t) => \A u \in tasks : Attends(u) => u \in tasks \ {t}
BY Fewer DEF IInv, TInv

LEMMA AllThere ==
  ASSUME IInv
  PROVE  Plain /\ TInv(tasks) /\ \A u \in tasks : Attends(u) => u \in tasks
BY DEF IInv

\* The kind of a thread that its step gives away.
LEMMA Kinds ==
  ASSUME NEW t \in Tasks
  PROVE  /\ t.pc \in {"starting", "selected", "pausing", "cancel_ack", "pause_ack", "resume",
                      "resuming"} => t.kind = "op"
         /\ t.pc = "persist" => t.kind \in {"op", "record"}
<1>1. t.kind \in DOMAIN Steps /\ t.pc \in Steps[t.kind]
  BY TaskFields
<1> QED
  BY <1>1, StepNames

\* A command begins.
LEMMA CommandBegins ==
  ASSUME IInv, NEW p \in {"starting", "selected", "resume"},
         canceled' = FALSE, tasks' = tasks \cup {Task("op", p)},
         UNCHANGED <<state, phase, owner, goal, Route, active, handle, context, record>>
  PROVE  Kept
<1>1. UNCHANGED <<state, phase, owner, goal, last, index, pos, relocation, active, handle,
                  context, record>>
  BY DEF Route
<1>2. Plain'
  BY <1>1 DEF IInv, Plain
<1>3. Mere(Task("op", p))
  BY Mild, StepNames DEF IInv
<1>4. \A x \in tasks' : x \in tasks \/ Mere(x)
  BY <1>3
<1>5. TInv(tasks)'
  BY <1>1, <1>2, <1>4, KeepStep DEF IInv
<1>6. Keeping(tasks, tasks')
  BY DEF Keeping
<1> QED
  BY <1>1, <1>2, <1>5, <1>6, AllThere, Attending DEF Holds, Advances

LEMMA StartStep == ASSUME IInv, Start \/ SelectRoute \/ Resume PROVE Kept
<1>1. PICK p \in {"starting", "selected", "resume"} :
        /\ canceled' = FALSE /\ tasks' = tasks \cup {Task("op", p)}
        /\ UNCHANGED <<state, phase, owner, goal, Route, active, handle, context, record>>
  BY DEF Start, SelectRoute, Resume
<1> QED
  BY <1>1, CommandBegins

LEMMA StartedStep == ASSUME IInv, NEW t \in tasks, Started(t) PROVE Kept
<1>1. ~Attends(t) /\ UNCHANGED canceled
  BY DEF Started, Attends
<1>2. CASE Navigate("op", tasks \ {t})
  BY <1>1, <1>2, Others, Navigates, Attending
<1>3. CASE Ignore(tasks \ {t})
  BY <1>1, <1>3, Others, Ignored, Attending
<1> QED
  BY <1>1, <1>2, <1>3 DEF Started, Ignore

\* Everything that ends a mission makes both counters new.
LEMMA Ending ==
  ASSUME IInv, phase' = "IDLE", Revoke, state' \in States \ {"PLANNING"},
         goal' \in BOOLEAN, record' \in {"none", "auto", "held"}, context' \in {"none", "due", "begun"},
         UNCHANGED <<Route, canceled>>,
         \A x \in tasks' : x \in NewGeneration(Revoked(tasks)) \/ Mere(x)
  PROVE  Kept
<1>1. /\ handle' = "none" /\ owner' = FALSE /\ active' = FALSE
      /\ UNCHANGED <<last, index, pos, relocation, canceled>>
  BY DEF Revoke, Route
<1>2. Plain'
  BY <1>1 DEF IInv, Plain, Phases
<1>3. last' > 0 => last > 0 /\ relocation' = relocation
  BY <1>1
<1>4. phase' \notin Turning /\ phase' # "STRAIGHT"
  BY DEF Turning
<1>5. TInv(tasks)'
  BY <1>1, <1>2, <1>3, <1>4, Clears, ClearStep DEF IInv, ClearedAll
<1> QED
  BY <1>1, <1>2, <1>5, AllThere, Attending DEF Holds, Advances

LEMMA CancelStep == ASSUME IInv, Pause \/ Cancel PROVE Kept
<1>1. PICK target \in {"PAUSED", "CANCELED"}, p \in {"pausing", "pause_ack", "canceling", "cancel_ack"} :
        CancelBegins(target, p)
  BY DEF Pause, Cancel
<1>2. Mere(Task("op", p))
  BY Mild, StepNames DEF IInv
<1>3. \A x \in tasks' : x \in NewGeneration(Revoked(tasks)) \/ Mere(x)
  BY <1>1, <1>2 DEF CancelBegins
<1>4. /\ phase' = "IDLE" /\ Revoke /\ state' \in States \ {"PLANNING"}
      /\ goal' = goal /\ record' = record /\ context' = "none"
      /\ UNCHANGED <<Route, canceled>>
  BY <1>1 DEF CancelBegins, States
<1>5. goal \in BOOLEAN /\ record \in {"none", "auto", "held"}
  BY DEF IInv, Plain
<1> QED
  BY <1>3, <1>4, <1>5, Ending

LEMMA StopStep == ASSUME IInv, HandOver \/ Estop \/ LocalizationLost PROVE Kept
<1>1. /\ phase' = "IDLE" /\ Revoke
      /\ goal' = goal /\ UNCHANGED <<Route, canceled>>
      /\ tasks' = NewGeneration(Revoked(tasks))
  BY DEF HandOver, Estop, LocalizationLost
<1>2. goal \in BOOLEAN /\ record \in {"none", "auto", "held"} /\ context \in {"none", "due", "begun"}
      /\ state \in States
  BY DEF IInv, Plain
<1>3. state' \in States \ {"PLANNING"}
  BY <1>2 DEF HandOver, Estop, LocalizationLost, States
<1>4. record' \in {"none", "auto", "held"} /\ context' \in {"none", "due", "begun"}
  BY <1>2 DEF HandOver, Estop, LocalizationLost
<1> QED
  BY <1>1, <1>2, <1>3, <1>4, Ending

LEMMA TakeOverStep == ASSUME IInv, TakeOver PROVE Kept
<1>1. /\ state # "PLANNING" /\ context' = "none" /\ tasks' = NewGeneration(tasks)
      /\ UNCHANGED <<state, phase, owner, goal, last, index, pos, relocation, active, handle,
                     record, canceled>>
  BY DEF TakeOver, Route
<1>2. Plain'
  BY <1>1 DEF IInv, Plain
<1>3. last' > 0 => last > 0 /\ relocation' = relocation
  BY <1>1
<1>4. state' \in Stopped => phase' # "STRAIGHT"
  BY <1>1 DEF IInv, TInv, Quiet
<1>5. \A x \in tasks' : x \in NewGeneration(tasks) \/ Mere(x)
  BY <1>1
<1>6. TInv(tasks)'
  BY <1>1, <1>2, <1>3, <1>4, <1>5, Clears, ClearStep DEF IInv, ClearedAll
<1> QED
  BY <1>1, <1>2, <1>6, AllThere, Attending DEF Holds, Advances

LEMMA CrashStep == ASSUME IInv, Crash PROVE Kept
<1>1. /\ state' = "LOCALIZATION_LOST" /\ phase' = "IDLE"
      /\ handle' = "none" /\ owner' = FALSE /\ active' = FALSE
      /\ goal' = (record # "none") /\ context' \in {"due", "none"}
      /\ last' = 0 /\ index' = 0 /\ pos' = 0 /\ relocation' = "none"
      /\ tasks' = {} /\ record' = record /\ canceled' = canceled
  BY DEF Crash, Revoke
<1>2. 0 \in 0 .. Segments /\ 0 < Segments
  BY SegmentAssumption
<1>3. Plain'
  BY <1>1, <1>2 DEF IInv, Plain, Relocations, States, Phases
<1>4. TInv(tasks)'
  BY <1>1, <1>2 DEF TInv, Bounded, Apart, OneTick, OneGoal, OneSender, Within, Unsent, Held,
       Quiet, Driven
<1> QED
  BY <1>1, <1>3, <1>4, Leaving DEF Advances

LEMMA AcknowledgedStep == ASSUME IInv, NEW t \in tasks, Acknowledged(t) PROVE Kept
<1>1. t.kind = "op" /\ t.pc \in {"pause_ack", "cancel_ack"} /\ ~Attends(t)
  BY Others, Kinds DEF Acknowledged, Attends
<1>2. CASE tasks' = tasks \ {t}
  <2>1. Ignore(tasks \ {t})
    BY <1>2 DEF Acknowledged, Ignore
  <2> QED
    BY <1>1, <2>1, Others, Ignored, Attending
<1>3. ASSUME NEW p \in {"pausing", "canceling"}, tasks' = (tasks \ {t}) \cup {Goes(t, p)}
      PROVE  Kept
  <2>1. UNCHANGED <<state, phase, owner, goal, last, index, pos, relocation, active, handle,
                    context, record, canceled>>
    BY DEF Acknowledged, Route
  <2>2. Plain'
    BY <2>1 DEF IInv, Plain
  <2>3. p \in Steps[t.kind] /\ t.kind \notin {"tick", "goal"} /\ p \notin {"complete", "SUCCEEDED"}
    BY <1>1, StepNames
  <2>4. TInv(tasks)'
    BY <1>3, <2>1, <2>2, <2>3, Others, GoesOn
  <2>5. Keeping(tasks \ {t}, tasks')
    BY <1>3 DEF Keeping
  <2> QED
    BY <1>1, <2>1, <2>2, <2>4, <2>5, Others, Attending DEF Holds, Advances
<1> QED
  BY <1>2, <1>3 DEF Acknowledged

LEMMA CancelEndsStep == ASSUME IInv, NEW t \in tasks, CancelEnds(t) PROVE Kept
<1>1. /\ last' = 0 /\ index' = 0 /\ pos' = 0 /\ relocation' = "none"
      /\ goal' \in BOOLEAN /\ record' \in {"none", "held", record} /\ canceled' \in BOOLEAN
      /\ tasks' = tasks \ {t}
      /\ UNCHANGED <<state, phase, owner, active, handle, context>>
  BY DEF CancelEnds, Forgets, IInv, Plain
<1>2. ~Attends(t)
  BY DEF CancelEnds, Attends
<1>3. 0 \in 0 .. Segments /\ 0 < Segments
  BY SegmentAssumption
<1>4. Plain'
  BY <1>1, <1>3 DEF IInv, Plain, Relocations
<1>5. TInv(tasks \ {t})
  BY Others
<1>6. TInv(tasks)'
  BY <1>1, <1>3, <1>5 DEF TInv, Bounded, Apart, Chained, OneTick, OneGoal, OneSender, Within, Unsent,
       Held, Quiet, Driven
<1>7. Keeping(tasks \ {t}, tasks')
  BY <1>1 DEF Keeping
<1> QED
  BY <1>1, <1>2, <1>4, <1>6, <1>7, Others, Attending DEF Holds, Advances

LEMMA ResumingStep == ASSUME IInv, NEW t \in tasks, Resuming(t) PROVE Kept
<1>1. /\ t.kind = "op" /\ state' = "PLANNING" /\ tasks' = (tasks \ {t}) \cup {Goes(t, "resuming")}
      /\ UNCHANGED <<phase, owner, goal, last, index, pos, relocation, active, handle, context,
                     record, canceled>>
  BY DEF Resuming, Route
<1>2. Plain'
  BY <1>1 DEF IInv, Plain, States
<1>3. "resuming" \in Steps[t.kind] /\ state' \notin Stopped
  BY <1>1, StepNames DEF Stopped
<1>4. TInv(tasks)'
  BY <1>1, <1>2, <1>3, Others, GoesOn
<1>5. Goes(t, "resuming").kind = "op" /\ Goes(t, "resuming").pc = "resuming"
  BY <1>1, <1>3, Others, GoesFields
<1> QED
  BY <1>1, <1>2, <1>4, <1>5, Leaving DEF Advances, PlanningThread

LEMMA ResumedStep == ASSUME IInv, NEW t \in tasks, Resumed(t) PROVE Kept
<1>1. CASE Navigate("op", tasks \ {t})
  <2>1. UNCHANGED canceled /\ state' = "NAVIGATING"
    BY <1>1 DEF Resumed, StartRefused, Navigate
  <2>2. Holds(tasks \ {t})
    BY <1>1, <2>1, Others, Navigates
  <2> QED
    BY <2>1, <2>2, Leaving DEF Holds
<1>2. CASE StartRefused(t)
  <2>1. Ignore(tasks \ {t})
    BY <1>2 DEF StartRefused, Ignore
  <2>2. Holds(tasks \ {t})
    BY <2>1, Others, Ignored
  <2> QED
    BY <1>2, <2>2, Leaving DEF Holds
<1>3. CASE ~Navigate("op", tasks \ {t}) /\ ~StartRefused(t)
  <2>1. /\ state' = "MANUAL_BYPASS" /\ tasks' = tasks \ {t}
        /\ UNCHANGED <<phase, owner, goal, last, index, pos, relocation, active, handle, context,
                       record, canceled>>
    BY <1>3 DEF Resumed, Route
  <2>2. Plain'
    BY <2>1 DEF IInv, Plain, States
  <2>3. state' \notin Stopped /\ (\A x \in tasks' : x \in tasks \ {t} \/ Mere(x))
    BY <2>1 DEF Stopped
  <2>4. TInv(tasks)'
    BY <2>1, <2>2, <2>3, Others, KeepStep
  <2> QED
    BY <2>1, <2>2, <2>4, Leaving DEF Advances
<1> QED
  BY <1>1, <1>2, <1>3

LEMMA PersistStep == ASSUME IInv, NEW t \in tasks, Persist(t) PROVE Kept
<1>1. /\ record' \in {"auto", record} /\ tasks' = tasks \ {t}
      /\ UNCHANGED <<state, phase, owner, goal, last, index, pos, relocation, active, handle,
                     context, canceled>>
  BY DEF Persist, Route
<1>2. ~Attends(t)
  BY Others, Kinds DEF Persist, Attends
<1>3. Plain'
  BY <1>1 DEF IInv, Plain
<1>4. \A x \in tasks' : x \in tasks \ {t} \/ Mere(x)
  BY <1>1
<1>5. TInv(tasks)'
  BY <1>1, <1>3, <1>4, Others, KeepStep
<1>6. Keeping(tasks \ {t}, tasks')
  BY <1>1 DEF Keeping
<1> QED
  BY <1>1, <1>2, <1>3, <1>5, <1>6, Others, Attending DEF Holds, Advances

LEMMA VerifiedStep == ASSUME IInv, LocalizationVerified PROVE Kept
<1>1. /\ state' = "READY"
      /\ UNCHANGED <<phase, owner, goal, last, index, pos, relocation, active, handle, context,
                     record, tasks, canceled>>
  BY DEF LocalizationVerified, Route
<1>2. Plain'
  BY <1>1 DEF IInv, Plain, States
<1>3. state' \notin Stopped /\ (\A x \in tasks' : x \in tasks \/ Mere(x))
  BY <1>1 DEF Stopped
<1>4. TInv(tasks)'
  BY <1>1, <1>2, <1>3, AllThere, KeepStep
<1> QED
  BY <1>1, <1>2, <1>4, Leaving DEF Advances

LEMMA ResumeMissionStep == ASSUME IInv, ResumeMission PROVE Kept
<1>1. /\ state' = "PLANNING" /\ context' = "begun" /\ tasks' = tasks \cup {Task("recover", "planned")}
      /\ UNCHANGED <<phase, owner, goal, last, index, pos, relocation, active, handle, record, canceled>>
  BY DEF ResumeMission, Route
<1>2. Plain'
  BY <1>1 DEF IInv, Plain, States
<1>3. Mere(Task("recover", "planned")) /\ Task("recover", "planned").kind = "recover"
  BY Mild, StepNames DEF IInv, Task
<1>4. state' \notin Stopped /\ (\A x \in tasks' : x \in tasks \/ Mere(x))
  BY <1>1, <1>3 DEF Stopped
<1>5. TInv(tasks)'
  BY <1>1, <1>2, <1>4, AllThere, KeepStep
<1> QED
  <2>1. PlanningThread'
    BY <1>1, <1>3 DEF PlanningThread
  <2> QED
    BY <1>1, <1>2, <1>5, <2>1, Leaving DEF Advances

-----------------------------------------------------------------------------
(* The timers.                                                             *)

\* A new tick.
LEMMA NewTick ==
  ASSUME Plain, NEW p \in Steps["tick"]
  PROVE  /\ Task("tick", p) \in Tasks /\ Task("tick", p).kind = "tick" /\ Task("tick", p).pc = p
         /\ Task("tick", p).token => p \in {"complete", "clear"} /\ Task("tick", p).index = index
<1>1. "tick" \in DOMAIN Steps /\ index \in 0 .. Segments
  BY StepNames DEF Plain
<1>2. Segmental("tick", p) => p \in {"complete", "clear"}
  BY DEF Segmental
<1> QED
  BY <1>1, <1>2, NewTask

\* A tick leaves for a step, in a mission.
LEMMA TickLeaves ==
  ASSUME Plain, Plain', NEW S, TInv(S), \A u \in S : u.kind # "tick", NEW p \in Steps["tick"],
         tasks' = S \cup {Task("tick", p)},
         UNCHANGED <<last, index, pos, relocation, handle, state>>, state \notin Stopped,
         phase' = phase \/ (phase' \in Turning /\ index < Segments /\ \A u \in S : ~Chained(u)),
         p \in Preparing => \A u \in S : ~Chained(u),
         p \in {"turn", "reenter", "begin", "anchor", "escape", "clear"} => index < Segments,
         p = "complete" => index < pos,
         last > 0 /\ p \in {"escape", "clear"} => relocation # "none"
  PROVE  Holds(S)
<1> DEFINE x == Task("tick", p)
<1>1. x \in Tasks /\ x.kind = "tick" /\ x.pc = p /\ (x.token => p \in {"complete", "clear"} /\ x.index = index)
  BY NewTick
<1>2. index < pos => index < Segments
  BY SegmentAssumption DEF Plain
<1> HIDE DEF x
<1>3. x.token => x.index < Segments
  BY <1>1, <1>2
<1>4. tasks' = S \cup {x}
  BY DEF x
<1>5. TInv(tasks)'
  BY <1>1, <1>3, <1>4, TickStep
<1> QED
  BY <1>4, <1>5 DEF Holds, Advances, Keeping

LEMMA TicksHold ==
  ASSUME Plain, TInv(tasks), ~Running("tick"), NEW p \in Steps["tick"], Ticks(p),
         state \notin Stopped,
         p \in Preparing => \A u \in tasks : ~Chained(u),
         p \in {"turn", "reenter", "begin", "anchor"} => index < Segments,
         p = "complete" => index < pos, p \notin {"escape", "clear"}
  PROVE  Holds(tasks)
<1>1. /\ tasks' = tasks \cup {Task("tick", p)}
      /\ UNCHANGED <<state, phase, owner, goal, last, index, pos, relocation, active, handle,
                     context, record, canceled>>
  BY DEF Ticks, Route
<1>2. Plain'
  BY <1>1 DEF Plain
<1>3. \A u \in tasks : u.kind # "tick"
  BY DEF Running
<1> QED
  BY <1>1, <1>2, <1>3, TickLeaves

\* The end of a step of the turn: S has no segment at FollowPath.
LEMMA TurnsHold ==
  ASSUME Plain, NEW S, TInv(S), NEW Q, NEW next \in Phases, NEW b \in BOOLEAN, Turns(Q, next, b),
         \A x \in Q : x \in S \/ Mere(x), S \subseteq Q,
         \A u \in S : ~Chained(u), index < Segments, next # "STRAIGHT"
  PROVE  Holds(S)
<1>1. /\ phase' = next /\ owner' = b /\ tasks' = Q
      /\ UNCHANGED <<state, goal, last, index, pos, relocation, active, handle, context, record,
                     canceled>>
  BY DEF Turns, Route
<1>2. Plain'
  BY <1>1 DEF Plain
<1>3. TInv(tasks)'
  BY <1>1, <1>2, KeepStep
<1> QED
  BY <1>1, <1>2, <1>3 DEF Holds, Advances, Keeping

\* The phases of a turn, seen from a tick.
LEMMA Turnable ==
  ASSUME Plain, TInv(tasks)
  PROVE  /\ phase \in Turning => index < Segments
         /\ phase \in Between => \A u \in tasks : ~Chained(u)
BY DEF TInv, Within, Apart

LEMMA TickPrepareStep ==
  ASSUME IInv, ~Running("tick"), state = "NAVIGATING", TickPrepare PROVE Kept
<1>1. /\ phase = "STRAIGHT_PREPARE" /\ owner' = FALSE
      /\ UNCHANGED <<state, phase, goal, last, index, pos, relocation, active, handle, context,
                     record, canceled>>
  BY DEF TickPrepare, Route
<1>2. Plain'
  BY <1>1 DEF IInv, Plain
<1>3. \A u \in tasks : ~Chained(u) /\ u.kind # "tick"
  BY <1>1, AllThere, Turnable DEF Between, Running
<1>4. state \notin Stopped
  BY DEF Stopped
<1>5. CASE tasks' = tasks
  <2>1. \A x \in tasks' : x \in tasks \/ Mere(x)
    BY <1>5
  <2>2. TInv(tasks)'
    BY <1>1, <1>2, <2>1, <1>4, AllThere, KeepStep
  <2> QED
    BY <1>1, <1>2, <1>5, <2>2, AllThere, Attending DEF Holds, Advances, Keeping
<1>6. ASSUME NEW p \in {"prepare", "finish"}, tasks' = tasks \cup {Task("tick", p)}
      PROVE  Kept
  <2>1. p \in Steps["tick"]
    BY StepNames
  <2> QED
    BY <1>1, <1>2, <1>3, <1>4, <1>6, <2>1, AllThere, TickLeaves, Attending
<1> QED
  BY <1>5, <1>6 DEF TickPrepare

LEMMA TickStraightStep ==
  ASSUME IInv, ~Running("tick"), state = "NAVIGATING", TickStraight PROVE Kept
<1>1. PICK p \in {"restart", "complete", "replan", "finish"} :
        Ticks(p) /\ (p = "complete" => pos > index)
  BY DEF TickStraight
<1>2. p \in Steps["tick"] /\ state \notin Stopped /\ p \notin Preparing
  BY StepNames DEF Stopped, Preparing
<1>3. pos > index => index < pos
  BY DEF IInv, Plain
<1> QED
  BY <1>1, <1>2, <1>3, AllThere, TicksHold, Attending

LEMMA TickSettlingStep ==
  ASSUME IInv, ~Running("tick"), state = "NAVIGATING", TickSettling PROVE Kept
<1>1. phase = "TURN_SETTLING" /\ index < Segments /\ \A u \in tasks : ~Chained(u) /\ u.kind # "tick"
  BY AllThere, Turnable DEF TickSettling, Between, Turning, Running
<1>2. state \notin Stopped
  BY DEF Stopped
<1>3. CASE Turns(tasks, "TURN_SETTLING", FALSE)
  <2>1. "TURN_SETTLING" \in Phases
    BY DEF Phases
  <2> QED
    BY <1>1, <1>3, <2>1, AllThere, TurnsHold, Attending
<1>4. CASE Turns(tasks \cup {Task("tick", "reenter")}, "TURN_SETTLING", FALSE)
  <2>1. /\ phase' = phase /\ owner' = FALSE /\ tasks' = tasks \cup {Task("tick", "reenter")}
        /\ UNCHANGED <<state, goal, last, index, pos, relocation, active, handle, context, record,
                       canceled>>
    BY <1>1, <1>4 DEF Turns, Route
  <2>2. Plain'
    BY <2>1 DEF IInv, Plain
  <2>3. "reenter" \in Steps["tick"]
    BY StepNames
  <2> QED
    BY <1>1, <1>2, <2>1, <2>2, <2>3, AllThere, TickLeaves, Attending
<1>5. CASE /\ phase' = "STRAIGHT_PREPARE" /\ owner' = FALSE /\ active' = FALSE
           /\ UNCHANGED <<state, goal, Route, handle, context, record, tasks, canceled>>
  <2>1. UNCHANGED <<state, goal, last, index, pos, relocation, handle, context, record, tasks, canceled>>
    BY <1>5 DEF Route
  <2>2. Plain'
    BY <1>5, <2>1 DEF IInv, Plain, Phases
  <2>3. (\A x \in tasks' : x \in tasks \/ Mere(x)) /\ phase' # "STRAIGHT"
    BY <1>5, <2>1
  <2>4. TInv(tasks)'
    BY <1>1, <1>2, <2>1, <2>2, <2>3, AllThere, KeepStep
  <2> QED
    BY <2>1, <2>2, <2>4, AllThere, Attending DEF Holds, Advances, Keeping
<1>6. CASE Turns(tasks \cup {Task("sender", "start")}, "DISPATCHING_STRAIGHT", FALSE)
  <2>1. /\ phase' = "DISPATCHING_STRAIGHT" /\ owner' = FALSE
        /\ tasks' = tasks \cup {Task("sender", "start")}
        /\ UNCHANGED <<state, goal, last, index, pos, relocation, active, handle, context, record,
                       canceled>>
    BY <1>6 DEF Turns, Route
  <2>2. Plain'
    BY <2>1 DEF IInv, Plain, Phases
  <2>3. phase' \notin Between /\ phase' # "STRAIGHT"
    BY <2>1 DEF Between, Turning
  <2>4. TInv(tasks)'
    BY <1>1, <1>2, <2>1, <2>2, <2>3, AllThere, SenderBegins
  <2> QED
    BY <2>1, <2>2, <2>4, AllThere, Attending DEF Holds, Advances, Keeping
<1> QED
  BY <1>3, <1>4, <1>5, <1>6 DEF TickSettling

LEMMA TickTurnStep ==
  ASSUME IInv, ~Running("tick"), state = "NAVIGATING", TickTurn PROVE Kept
<1>1. index < Segments /\ \A u \in tasks : ~Chained(u)
  BY AllThere, Turnable DEF TickTurn, Between, Turning
<1>2. state \notin Stopped
  BY DEF Stopped
<1>3. CASE Turns(tasks, "WAIT_FOR_TURN_CLEAR", FALSE)
  <2>1. "WAIT_FOR_TURN_CLEAR" \in Phases
    BY DEF Phases
  <2> QED
    BY <1>1, <1>3, <2>1, AllThere, TurnsHold, Attending
<1>4. CASE Ticks("turn")
  <2>1. "turn" \in Steps["tick"]
    BY StepNames
  <2> QED
    BY <1>1, <1>2, <1>4, <2>1, AllThere, TicksHold, Attending
<1> QED
  BY <1>3, <1>4 DEF TickTurn

LEMMA SegmentTickStep == ASSUME IInv, SegmentTick PROVE Kept
<1>1. ~Running("tick") /\ state = "NAVIGATING"
  BY DEF SegmentTick
<1>2. CASE /\ owner' = FALSE
           /\ UNCHANGED <<state, phase, goal, Route, active, handle, context, record, tasks, canceled>>
  <2>1. UNCHANGED <<state, phase, goal, last, index, pos, relocation, active, handle, context,
                    record, tasks, canceled>>
    BY <1>2 DEF Route
  <2>2. Plain'
    BY <1>2, <2>1 DEF IInv, Plain
  <2>3. (\A x \in tasks' : x \in tasks \/ Mere(x)) /\ state' \notin Stopped
    BY <1>1, <2>1 DEF Stopped
  <2>4. TInv(tasks)'
    BY <2>1, <2>2, <2>3, AllThere, KeepStep
  <2> QED
    BY <2>1, <2>2, <2>4, AllThere, Attending DEF Holds, Advances, Keeping
<1> QED
  BY <1>1, <1>2, TickPrepareStep, TickStraightStep, TickSettlingStep, TickTurnStep DEF SegmentTick

LEMMA DynamicTickStep == ASSUME IInv, DynamicTick PROVE Kept
<1>1. ~Running("tick")
  BY DEF DynamicTick
<1>2. ASSUME NEW p \in {"wait", "classified"}, Ticks(p), state \notin Stopped
      PROVE  Kept
  <2>1. p \in Steps["tick"] /\ p \notin Preparing
    BY StepNames DEF Preparing
  <2> QED
    BY <1>1, <1>2, <2>1, AllThere, TicksHold, Attending
<1>3. CASE /\ state' = "AUTO_SELECTION" /\ tasks' = tasks \cup {Task("auto", "start")}
           /\ UNCHANGED <<phase, owner, goal, Route, active, handle, context, record, canceled>>
  <2>1. UNCHANGED <<phase, owner, goal, last, index, pos, relocation, active, handle, context,
                    record, canceled>>
    BY <1>3 DEF Route
  <2>2. Plain'
    BY <1>3, <2>1 DEF IInv, Plain, States
  <2>3. Mere(Task("auto", "start"))
    BY Mild, StepNames DEF IInv
  <2>4. (\A x \in tasks' : x \in tasks \/ Mere(x)) /\ state' \notin Stopped
    BY <1>3, <2>3 DEF Stopped
  <2>5. TInv(tasks)'
    BY <2>1, <2>2, <2>4, AllThere, KeepStep
  <2> QED
    BY <1>3, <2>1, <2>2, <2>5, AllThere, Attending DEF Holds, Advances
<1> QED
  BY <1>2, <1>3 DEF DynamicTick, Stopped

-----------------------------------------------------------------------------
(* The ends of a tick.                                                     *)

\* What a tick leaves has no tick; while it prepares a segment, none is at FollowPath.
LEMMA Alone ==
  ASSUME IInv, NEW t \in tasks, t.kind = "tick"
  PROVE  /\ ~Attends(t) /\ Plain /\ TInv(tasks) /\ TInv(tasks \ {t}) /\ t \in Tasks
         /\ \A u \in tasks : Attends(u) => u \in tasks \ {t}
         /\ \A u \in tasks \ {t} : u.kind # "tick"
         /\ t.pc \in Preparing => \A u \in tasks : ~Chained(u)
         /\ t.pc \in {"turn", "reenter", "begin"} => index < Segments
         /\ t.pc \in {"anchor", "escape"} /\ t.gen => index < Segments
         /\ t.pc \in {"prepare", "anchor", "escape"} /\ t.gen => state \notin Stopped
<1>1. ~Attends(t)
  BY DEF Attends
<1>2. Plain /\ TInv(tasks) /\ TInv(tasks \ {t}) /\ t \in Tasks
  BY Others
<1>3. \A u \in tasks : Attends(u) => u \in tasks \ {t}
  BY <1>1
<1>4. \A u \in tasks \ {t} : u.kind # "tick"
  BY <1>2 DEF TInv, OneTick
<1>5. t.pc \in Preparing => \A u \in tasks : ~Chained(u)
  BY <1>2 DEF TInv, Apart
<1>6. /\ t.pc \in {"turn", "reenter", "begin"} => index < Segments
      /\ t.pc \in {"anchor", "escape"} /\ t.gen => index < Segments
  BY <1>2 DEF TInv, Within
<1>7. t.pc \in {"prepare", "anchor", "escape"} /\ t.gen => state \notin Stopped
  BY <1>2 DEF TInv, Quiet
<1> QED
  BY <1>1, <1>2, <1>3, <1>4, <1>5, <1>6, <1>7

LEMMA Prepares ==
  ASSUME IInv, NEW t \in tasks, t.kind = "tick", t.pc = "prepare", Prepare(t, tasks \ {t})
  PROVE  Holds(tasks \ {t})
<1> DEFINE S == tasks \ {t}
<1> SUFFICES Holds(S)
  OBVIOUS
<1>1. Plain /\ TInv(S) /\ TInv(tasks) /\ t \in Tasks /\ (\A u \in S : u.kind # "tick")
      /\ (\A u \in S : ~Chained(u)) /\ (t.gen => state \notin Stopped)
  BY Alone DEF Preparing
<1>2. CASE Ignore(S)
  BY <1>1, <1>2, Ignored
<1>3. CASE Finish(t, S, {"NAVIGATING"})
  BY <1>1, <1>3, Finishes
<1>4. CASE ScheduleReplan(t, S)
  BY <1>1, <1>4, Replanning
<1>5. CASE t.gen /\ pos > index /\ Ignore(S \cup {Task("tick", "complete")})
  <2>1. /\ tasks' = S \cup {Task("tick", "complete")}
        /\ UNCHANGED <<state, phase, owner, goal, last, index, pos, relocation, active, handle,
                       context, record, canceled>>
    BY <1>5 DEF Ignore, Route
  <2>2. Plain'
    BY <1>1, <2>1 DEF Plain
  <2>3. "complete" \in Steps["tick"] /\ "complete" \notin Preparing
    BY StepNames DEF Preparing
  <2>4. index < pos
    BY <1>1, <1>5 DEF Plain
  <2> HIDE DEF S
  <2> QED
    BY <1>1, <1>5, <2>1, <2>2, <2>3, <2>4, TickLeaves
<1>6. ASSUME NEW p \in {"anchor", "escape"}, t.gen, index < last,
             p = "escape" => relocation # "none", Ignore(S \cup {Goes(t, p)})
      PROVE  Holds(S)
  <2> DEFINE x == Goes(t, p)
  <2>1. /\ tasks' = S \cup {x}
        /\ UNCHANGED <<state, phase, owner, goal, last, index, pos, relocation, active, handle,
                       context, record, canceled>>
    BY <1>6 DEF Ignore, Route
  <2>2. Plain' /\ index < Segments
    BY <1>1, <1>6, <2>1, SegmentAssumption DEF Plain
  <2>3. p \in Steps[t.kind]
    BY StepNames
  <2>4. x \in Tasks /\ x.kind = "tick" /\ x.pc = p /\ x.token = t.token /\ x.index = t.index
    BY <1>1, <2>3, GoesFields
  <2>5. x.token => x.index < Segments
    BY <1>1, <2>4 DEF TInv, Bounded
  <2> HIDE DEF S, x
  <2>6. TInv(tasks)'
    BY <1>1, <1>6, <2>1, <2>2, <2>4, <2>5, TickStep
  <2> QED
    BY <2>1, <2>2, <2>6 DEF Holds, Advances, Keeping
<1>7. CASE /\ t.gen /\ index < last
           /\ Ignore(S \cup {Goes(t, IF relocation = "START_ESCAPE" THEN "escape" ELSE "anchor")})
  <2>1. CASE relocation = "START_ESCAPE"
    BY <1>6, <1>7, <2>1
  <2>2. CASE relocation # "START_ESCAPE"
    BY <1>6, <1>7, <2>2
  <2> QED
    BY <2>1, <2>2
<1> QED
  BY Zenon, <1>2, <1>3, <1>4, <1>5, <1>7 DEF Prepare

LEMMA Anchors ==
  ASSUME IInv, NEW t \in tasks, t.kind = "tick", t.pc = "anchor", Anchor(t, tasks \ {t})
  PROVE  Holds(tasks \ {t})
<1> DEFINE S == tasks \ {t}
<1> SUFFICES Holds(S)
  OBVIOUS
<1> DEFINE Q == NewToken(S)
<1>1. Plain /\ TInv(S) /\ (\A u \in S : u.kind # "tick")
      /\ (t.gen => state \notin Stopped /\ index < Segments)
  BY Alone
<1> HIDE DEF S
<1>2. Cleared(S, Q) /\ Keeping(S, Q)
  BY <1>1, Clears, TokenKeeping
<1>3. TInv(Q)
  BY <1>1, <1>2, ClearedHolds
<1>4. (\A u \in Q : ~Chained(u)) /\ (\A u \in Q : u.kind # "tick")
  BY <1>1, <1>2 DEF Cleared, Chained
<1> HIDE DEF Q
<1>5. ASSUME Holds(Q) PROVE Holds(S)
  BY <1>2, <1>5 DEF Holds, Advances, Keeping
<1>6. CASE ScheduleReplan(t, S)
  BY <1>1, <1>6, Replanning
<1>7. CASE ScheduleReplan(t, Q)
  BY <1>1, <1>3, <1>5, <1>7, Replanning
<1>8. CASE /\ active' = TRUE /\ tasks' = Q /\ phase' = phase
           /\ UNCHANGED <<state, owner, goal, Route, handle, context, record, canceled>>
  <2>1. UNCHANGED <<state, owner, goal, last, index, pos, relocation, handle, context, record, canceled>>
    BY <1>8 DEF Route
  <2>2. Plain'
    BY <1>1, <1>8, <2>1 DEF Plain, Phases
  <2>3. \A v \in tasks' : v \in Q \/ Mere(v)
    BY <1>8
  <2>4. TInv(tasks)'
    BY <1>1, <1>3, <1>8, <2>1, <2>2, <2>3, KeepStep
  <2> QED
    BY <1>5, <1>8, <2>1, <2>2, <2>4 DEF Holds, Advances, Keeping
<1>9. CASE /\ t.gen /\ active' = TRUE /\ phase' = phase /\ tasks' = Q \cup {Task("tick", "begin")}
           /\ UNCHANGED <<state, owner, goal, Route, handle, context, record, canceled>>
  <2>1. UNCHANGED <<state, owner, goal, last, index, pos, relocation, handle, context, record, canceled>>
    BY <1>9 DEF Route
  <2>2. Plain' /\ "begin" \in Steps["tick"]
    BY <1>1, <1>9, <2>1, StepNames DEF Plain
  <2> QED
    BY <1>1, <1>3, <1>4, <1>5, <1>9, <2>1, <2>2, TickLeaves
<1>10. CASE /\ t.gen /\ active' = TRUE /\ phase' = "TURN_SETTLING" /\ tasks' = Q
            /\ UNCHANGED <<state, owner, goal, Route, handle, context, record, canceled>>
  <2>1. UNCHANGED <<state, owner, goal, last, index, pos, relocation, handle, context, record, canceled>>
    BY <1>10 DEF Route
  <2>2. Plain'
    BY <1>1, <1>10, <2>1 DEF Plain, Phases
  <2>3. (\A v \in tasks' : v \in Q \/ Mere(v)) /\ phase' # "STRAIGHT"
    BY <1>10
  <2>4. TInv(tasks)'
    BY <1>1, <1>3, <1>4, <1>10, <2>1, <2>2, <2>3, KeepStep
  <2> QED
    BY <1>5, <1>10, <2>1, <2>2, <2>4 DEF Holds, Advances, Keeping
<1>11. CASE /\ t.gen /\ active' = TRUE /\ phase' = "DISPATCHING_STRAIGHT"
            /\ tasks' = Q \cup {Task("sender", "start")}
            /\ UNCHANGED <<state, owner, goal, Route, handle, context, record, canceled>>
  <2>1. UNCHANGED <<state, owner, goal, last, index, pos, relocation, handle, context, record, canceled>>
    BY <1>11 DEF Route
  <2>2. Plain'
    BY <1>1, <1>11, <2>1 DEF Plain, Phases
  <2>3. phase' \notin Between /\ phase' # "STRAIGHT"
    BY <1>11 DEF Between, Turning
  <2>4. TInv(tasks)'
    BY <1>1, <1>3, <1>4, <1>11, <2>1, <2>2, <2>3, SenderBegins
  <2> QED
    BY <1>5, <1>11, <2>1, <2>2, <2>4 DEF Holds, Advances, Keeping
<1>12. Anchor(t, S)
  BY DEF S
<1> QED
  BY <1>6, <1>7, <1>8, <1>9, <1>10, <1>11, <1>12 DEF Anchor, Q

LEMMA Escapes ==
  ASSUME IInv, NEW t \in tasks, t.kind = "tick", t.pc = "escape", Escape(t, tasks \ {t})
  PROVE  Holds(tasks \ {t})
<1> DEFINE S == tasks \ {t}
<1> SUFFICES Holds(S)
  OBVIOUS
<1> DEFINE Q == NewToken(S)
<1>1. Plain /\ TInv(S) /\ (\A u \in S : u.kind # "tick")
      /\ (t.gen => state \notin Stopped /\ index < Segments)
  BY Alone
<1>2. t.gen /\ last > 0 => relocation # "none"
  BY DEF IInv, TInv, Driven
<1> HIDE DEF S
<1>3. Cleared(S, Q) /\ Keeping(S, Q)
  BY <1>1, Clears, TokenKeeping
<1>4. TInv(Q)
  BY <1>1, <1>3, ClearedHolds
<1>5. (\A u \in Q : ~Chained(u)) /\ (\A u \in Q : u.kind # "tick")
  BY <1>1, <1>3 DEF Cleared, Chained
<1> HIDE DEF Q
<1>6. ASSUME Holds(Q) PROVE Holds(S)
  BY <1>3, <1>6 DEF Holds, Keeping
<1>7. CASE t.gen /\ Ignore(S \cup {Task("tick", "clear")})
  <2>1. /\ tasks' = S \cup {Task("tick", "clear")}
        /\ UNCHANGED <<state, phase, owner, goal, last, index, pos, relocation, active, handle,
                       context, record, canceled>>
    BY <1>7 DEF Ignore, Route
  <2>2. Plain'
    BY <1>1, <2>1 DEF Plain
  <2>3. "clear" \in Steps["tick"] /\ "clear" \notin Preparing
    BY StepNames DEF Preparing
  <2> QED
    BY <1>1, <1>2, <1>7, <2>1, <2>2, <2>3, TickLeaves
<1>8. CASE EnterWait(S)
  BY <1>1, <1>8, Waiting
<1>9. CASE EnterWait(Q)
  BY <1>1, <1>4, <1>6, <1>9, Waiting
<1>10. CASE ScheduleReplan(t, S)
  BY <1>1, <1>10, Replanning
<1>11. CASE /\ active' = TRUE /\ phase' = "DISPATCHING_STRAIGHT"
            /\ tasks' = Q \cup (IF t.gen THEN {Task("sender", "start")} ELSE {})
            /\ UNCHANGED <<state, owner, goal, Route, handle, context, record, canceled>>
  <2>1. UNCHANGED <<state, owner, goal, last, index, pos, relocation, handle, context, record, canceled>>
    BY <1>11 DEF Route
  <2>2. Plain'
    BY <1>1, <1>11, <2>1 DEF Plain, Phases
  <2>3. phase' \notin Between /\ phase' \notin Turning /\ phase' # "STRAIGHT"
    BY <1>11 DEF Between, Turning
  <2>4. CASE t.gen
    <3>1. tasks' = Q \cup {Task("sender", "start")}
      BY <1>11, <2>4
    <3>2. TInv(tasks)'
      BY <1>1, <1>4, <1>5, <2>1, <2>2, <2>3, <2>4, <3>1, SenderBegins
    <3> QED
      BY <1>6, <2>1, <2>2, <3>1, <3>2 DEF Holds, Advances, Keeping
  <2>5. CASE ~t.gen
    <3>1. tasks' = Q
      BY <1>11, <2>5
    <3>2. TInv(tasks)'
      BY <1>1, <1>4, <2>1, <2>2, <2>3, <3>1, KeepStep
    <3> QED
      BY <1>6, <2>1, <2>2, <3>1, <3>2 DEF Holds, Advances, Keeping
  <2> QED
    BY <2>4, <2>5
<1>12. Escape(t, S)
  BY DEF S
<1> QED
  BY <1>7, <1>8, <1>9, <1>10, <1>11, <1>12 DEF Escape, Q

LEMMA Classifies ==
  ASSUME Plain, NEW S, TInv(S), Classified(S)
  PROVE  Holds(S)
<1>1. CASE Finish(Task("tick", "classified"), S, {"WAIT_FOR_DYNAMIC_CLEAR"})
  BY <1>1, Finishes
<1>2. ASSUME NEW v \in {"WAIT_FOR_DYNAMIC_CLEAR", "DYNAMIC_REPLAN"}, state' = v,
             S \subseteq tasks', \A x \in tasks' : x \in S \/ Mere(x),
             UNCHANGED <<phase, owner, goal, Route, active, handle, context, record, canceled>>
      PROVE  Holds(S)
  <2>1. UNCHANGED <<phase, owner, goal, last, index, pos, relocation, active, handle, context,
                    record, canceled>>
    BY <1>2 DEF Route
  <2>2. Plain'
    BY <1>2, <2>1 DEF Plain, States
  <2>3. state' \notin Stopped /\ state' # "PLANNING"
    BY <1>2 DEF Stopped
  <2>4. TInv(tasks)'
    BY <1>2, <2>1, <2>2, <2>3, KeepStep
  <2> QED
    BY <2>1, <2>2, <2>3, <2>4 DEF Holds, Advances
<1>3. CASE /\ state' = "WAIT_FOR_DYNAMIC_CLEAR" /\ tasks' = S
           /\ UNCHANGED <<phase, owner, goal, Route, active, handle, context, record, canceled>>
  <2>1. S \subseteq tasks' /\ \A x \in tasks' : x \in S \/ Mere(x)
    BY <1>3
  <2> QED
    BY <1>2, <1>3, <2>1
<1>4. ASSUME NEW k \in {"dynamic", "bypass"}, state' = "DYNAMIC_REPLAN",
             tasks' = S \cup {Task(k, "start")},
             UNCHANGED <<phase, owner, goal, Route, active, handle, context, record, canceled>>
      PROVE  Holds(S)
  <2>1. Mere(Task(k, "start"))
    BY Mild, StepNames
  <2>2. S \subseteq tasks' /\ \A x \in tasks' : x \in S \/ Mere(x)
    BY <1>4, <2>1
  <2> QED
    BY <1>2, <1>4, <2>2
<1> QED
  BY Zenon, <1>1, <1>3, <1>4 DEF Classified

\* The step of a turn ends, whatever happened meanwhile.
LEMMA TurnEnds ==
  ASSUME IInv, NEW t \in tasks, t.kind = "tick", t.pc \in {"reenter", "turn", "begin"},
         NEW next \in {"TURN", "TURN_SETTLING", "WAIT_FOR_TURN_CLEAR"}, NEW b \in BOOLEAN,
         Turns(tasks \ {t}, next, b)
  PROVE  Holds(tasks \ {t})
<1> DEFINE S == tasks \ {t}
<1>1. Plain /\ TInv(S) /\ (\A u \in S : ~Chained(u)) /\ index < Segments
  BY Alone DEF Preparing
<1>2. next \in Phases /\ next # "STRAIGHT"
  BY DEF Phases
<1>3. (\A x \in S : x \in S \/ Mere(x)) /\ S \subseteq S
  OBVIOUS
<1>4. Turns(S, next, b)
  OBVIOUS
<1> HIDE DEF S
<1>5. Holds(S)
  BY <1>1, <1>2, <1>3, <1>4, TurnsHold
<1> QED
  BY <1>5 DEF S

LEMMA TurnGoes ==
  ASSUME IInv, NEW t \in tasks, t.kind = "tick", t.pc = "turn", Turn(t, tasks \ {t})
  PROVE  Holds(tasks \ {t})
<1> DEFINE S == tasks \ {t}
<1> SUFFICES Holds(S)
  OBVIOUS
<1>1. Plain /\ TInv(S) /\ (\A u \in S : ~Chained(u)) /\ index < Segments
  BY Alone DEF Preparing
<1>2. ASSUME NEW next \in {"TURN", "TURN_SETTLING", "WAIT_FOR_TURN_CLEAR"}, NEW b \in BOOLEAN,
             Turns(S, next, b)
      PROVE  Holds(S)
  BY <1>2, TurnEnds
<1>3. CASE /\ t.gen /\ phase' = "TURN_BAY_SEARCH" /\ state' = "TURN_BAY_RECOVERY" /\ owner' = FALSE
           /\ tasks' = S \cup {Task("bay", "start")}
           /\ UNCHANGED <<goal, Route, active, handle, context, record, canceled>>
  <2>1. UNCHANGED <<goal, last, index, pos, relocation, active, handle, context, record, canceled>>
    BY <1>3 DEF Route
  <2>2. Plain'
    BY <1>1, <1>3, <2>1 DEF Plain, States, Phases
  <2>3. Mere(Task("bay", "start"))
    BY <1>1, Mild, StepNames
  <2>4. (\A x \in tasks' : x \in S \/ Mere(x)) /\ state' \notin Stopped
    BY <1>3, <2>3 DEF Stopped
  <2> HIDE DEF S
  <2>5. TInv(tasks)'
    BY <1>1, <2>1, <2>2, <2>4, KeepStep
  <2> QED
    BY <1>3, <2>1, <2>2, <2>5 DEF Holds, Advances
<1>4. CASE /\ ~t.gen /\ Turns(S, "WAIT_FOR_TURN_CLEAR", FALSE)
  BY <1>2, <1>4
<1>5. CASE /\ phase' = IF t.gen THEN "TURN_BAY_SEARCH" ELSE "WAIT_FOR_TURN_CLEAR"
           /\ state' = IF t.gen THEN "TURN_BAY_RECOVERY" ELSE state
           /\ owner' = FALSE
           /\ tasks' = S \cup (IF t.gen THEN {Task("bay", "start")} ELSE {})
           /\ UNCHANGED <<goal, Route, active, handle, context, record, canceled>>
  <2>1. CASE t.gen
    BY <1>3, <1>5, <2>1
  <2>2. CASE ~t.gen
    BY <1>4, <1>5, <2>2 DEF Turns
  <2> QED
    BY <2>1, <2>2
<1> QED
  BY <1>2, <1>5 DEF Turn

LEMMA TickEndsStep == ASSUME IInv, NEW t \in tasks, TickEnds(t) PROVE Kept
<1> DEFINE S == tasks \ {t}
<1>1. t.kind = "tick" /\ Plain /\ TInv(S) /\ TInv(tasks) /\ \A u \in tasks : Attends(u) => u \in S
  BY Alone DEF TickEnds
<1>2. ASSUME Holds(S) PROVE Kept
  BY <1>1, <1>2, Attending
<1>3. CASE t.pc = "finish" /\ Finish(t, S, {"NAVIGATING"})
  BY <1>1, <1>2, <1>3, Finishes
<1>4. CASE t.pc = "prepare" /\ Prepare(t, S)
  BY <1>1, <1>2, <1>4, Prepares
<1>5. CASE t.pc = "anchor" /\ Anchor(t, S)
  BY <1>1, <1>2, <1>5, Anchors
<1>6. CASE t.pc \in {"complete", "clear"} /\ Complete(t, S)
  BY <1>1, <1>2, <1>6, Completes
<1>7. CASE t.pc = "restart" /\ RestartSegment(t, S)
  BY <1>1, <1>2, <1>7, SegmentRestarts
<1>8. CASE t.pc \in {"replan", "begin"} /\ ScheduleReplan(t, S)
  BY <1>1, <1>2, <1>8, Replanning
<1>9. CASE t.pc = "wait" /\ EnterWait(S)
  BY <1>1, <1>2, <1>9, Waiting
<1>10. CASE t.pc = "classified" /\ Classified(S)
  BY <1>1, <1>2, <1>10, Classifies
<1>11. CASE t.pc = "turn" /\ Turn(t, S)
  BY <1>1, <1>2, <1>11, TurnGoes
<1>12. ASSUME t.pc \in {"reenter", "begin"}, NEW next \in {"TURN", "WAIT_FOR_TURN_CLEAR"},
              NEW b \in BOOLEAN, Turns(S, next, b)
       PROVE  Kept
  BY <1>1, <1>2, <1>12, TurnEnds
<1>13. CASE t.pc = "reenter" /\ Reenter(S)
  <2>1. owner \in BOOLEAN
    BY <1>1 DEF Plain
  <2> QED
    BY <1>12, <1>13, <2>1 DEF Reenter
<1>14. CASE t.pc = "begin" /\ BeginTurn(t, S)
  BY <1>8, <1>12, <1>14 DEF BeginTurn
<1>15. CASE t.pc = "escape" /\ Escape(t, S)
  BY <1>1, <1>2, <1>15, Escapes
<1> QED
  BY Zenon, <1>3, <1>4, <1>5, <1>6, <1>7, <1>8, <1>9, <1>10, <1>11, <1>13, <1>14, <1>15 DEF TickEnds

-----------------------------------------------------------------------------
(* FollowPath.                                                             *)

LEMMA SendStep == ASSUME IInv, NEW t \in tasks, Send(t) PROVE Kept
<1>1. t.kind = "sender" /\ ~Attends(t)
  BY DEF Send, Attends
<1>2. CASE Ignore(tasks \ {t})
  BY <1>1, <1>2, Others, Ignored, Attending
<1>3. CASE Ignore((tasks \ {t}) \cup {Goes(t, "sent")})
  <2>1. /\ tasks' = (tasks \ {t}) \cup {Goes(t, "sent")}
        /\ UNCHANGED <<state, phase, owner, goal, last, index, pos, relocation, active, handle,
                       context, record, canceled>>
    BY <1>3 DEF Ignore, Route
  <2>2. Plain'
    BY <2>1 DEF IInv, Plain
  <2>3. "sent" \in Steps[t.kind]
    BY <1>1, StepNames
  <2>4. TInv(tasks)'
    BY <1>1, <2>1, <2>2, <2>3, Others, GoesOn
  <2>5. Keeping(tasks \ {t}, tasks')
    BY <2>1 DEF Keeping
  <2> QED
    BY <1>1, <2>1, <2>2, <2>4, <2>5, Others, Attending DEF Holds, Advances
<1> QED
  BY <1>2, <1>3 DEF Send

\* A thread that becomes one of another kind.
As(t, k, p) == [t EXCEPT !.kind = k, !.pc = p]

LEMMA Renamed ==
  ASSUME NEW t \in Tasks, NEW k \in DOMAIN Steps, NEW p \in Steps[k]
  PROVE  /\ As(t, k, p) \in Tasks /\ As(t, k, p).kind = k /\ As(t, k, p).pc = p
         /\ As(t, k, p).gen = t.gen /\ As(t, k, p).token = t.token /\ As(t, k, p).index = t.index
<1>1. /\ t = [kind |-> t.kind, pc |-> t.pc, gen |-> t.gen, token |-> t.token, index |-> t.index]
      /\ t.gen \in BOOLEAN /\ t.token \in BOOLEAN /\ t.index \in 0 .. Segments
  BY TaskFields
<1>2. PICK r : r = [t EXCEPT !.kind = k]
  OBVIOUS
<1>3. r = [kind |-> k, pc |-> t.pc, gen |-> t.gen, token |-> t.token, index |-> t.index]
  BY <1>1, <1>2
<1>4. /\ r = [kind |-> r.kind, pc |-> r.pc, gen |-> r.gen, token |-> r.token, index |-> r.index]
      /\ r.kind = k /\ r.gen = t.gen /\ r.token = t.token /\ r.index = t.index
  BY <1>3
<1>5. [r EXCEPT !.pc = p] = [kind |-> r.kind, pc |-> p, gen |-> r.gen, token |-> r.token,
                             index |-> r.index]
  BY <1>4
<1>6. [t EXCEPT !.kind = k, !.pc = p] = [r EXCEPT !.pc = p]
  BY Zenon, <1>2
<1>7. As(t, k, p) = [kind |-> k, pc |-> p, gen |-> t.gen, token |-> t.token, index |-> t.index]
  BY Zenon, <1>4, <1>5, <1>6 DEF As
<1>8. [kind |-> k, pc |-> p, gen |-> t.gen, token |-> t.token, index |-> t.index] \in Tasks
  BY <1>1, MakeTask
<1> QED
  BY <1>7, <1>8

\* The goal a sender is answered with.
LEMMA GoalFields ==
  ASSUME NEW t \in Tasks, t.kind = "sender"
  PROVE  LET x == [t EXCEPT !.kind = "goal", !.pc = "accepted", !.gen = t.token]
         IN x \in Tasks /\ x.kind = "goal" /\ x.pc = "accepted" /\ x.token = t.token /\ x.index = t.index
<1>1. PICK q : q = As(t, "goal", "accepted")
  OBVIOUS
<1>2. "goal" \in DOMAIN Steps /\ "accepted" \in Steps["goal"]
  BY StepNames
<1>3. q \in Tasks /\ q.kind = "goal" /\ q.pc = "accepted" /\ q.token = t.token /\ q.index = t.index
  BY <1>1, <1>2, Renamed
<1>4. /\ q = [kind |-> q.kind, pc |-> q.pc, gen |-> q.gen, token |-> q.token, index |-> q.index]
      /\ q.token \in BOOLEAN /\ q.index \in 0 .. Segments
  BY <1>3, TaskFields
<1>5. PICK g \in BOOLEAN : g = t.token
  BY TaskFields
<1>6. [q EXCEPT !.gen = g] = [kind |-> q.kind, pc |-> q.pc, gen |-> g, token |-> q.token,
                              index |-> q.index]
  BY <1>4
<1>7. [t EXCEPT !.kind = "goal", !.pc = "accepted", !.gen = t.token] = [q EXCEPT !.gen = g]
  BY Zenon, <1>1, <1>5 DEF As
<1>8. [kind |-> q.kind, pc |-> q.pc, gen |-> g, token |-> q.token, index |-> q.index] \in Tasks
  BY <1>2, <1>3, <1>4, MakeTask
<1> QED
  BY <1>3, <1>6, <1>7, <1>8

LEMMA AcceptStep == ASSUME IInv, NEW t \in tasks, Accept(t) PROVE Kept
<1> DEFINE s == Goes(t, "accepted")
<1> DEFINE g == [t EXCEPT !.kind = "goal", !.pc = "accepted", !.gen = t.token]
<1> DEFINE kept == {u \in tasks \ {t} : u.kind # "goal"}
<1>1. /\ t.kind = "sender" /\ t.pc = "sent"
      /\ tasks' = kept \cup {s, g}
      /\ handle' \in {"old", handle}
      /\ UNCHANGED <<state, phase, owner, goal, last, index, pos, relocation, active, context,
                     record, canceled>>
  BY DEF Accept, Route
<1>2. Plain /\ Plain' /\ TInv(tasks) /\ t \in Tasks
  BY <1>1 DEF IInv, Plain, TInv
<1>3. /\ s \in Tasks /\ s.kind = "sender" /\ s.pc = "accepted" /\ s.token = t.token
      /\ s.index = t.index
  BY <1>1, <1>2, GoesFields, StepNames
<1>4. /\ g \in Tasks /\ g.kind = "goal" /\ g.pc = "accepted" /\ g.token = t.token
      /\ g.index = t.index
  BY <1>1, <1>2, GoalFields
<1> HIDE DEF s, g
<1>5. \A v \in tasks' : (v \in tasks /\ v # t /\ v.kind # "goal") \/ v = s \/ v = g
  BY <1>1
<1>6. tasks' \subseteq Tasks /\ Bounded(tasks)'
  BY <1>1, <1>2, <1>3, <1>4, <1>5 DEF Bounded, TInv
<1>7. OneTick(tasks)' /\ OneGoal(tasks)'
  BY <1>2, <1>3, <1>4, <1>5 DEF OneTick, OneGoal, TInv
<1>8. OneSender(tasks)'
  BY <1>1, <1>2, <1>3, <1>4, <1>5 DEF OneSender, TInv
<1>9. Apart(tasks)'
  BY <1>1, <1>2, <1>3, <1>4, <1>5 DEF Apart, Chained, TInv
<1>10. Within(tasks)'
  BY <1>1, <1>2, <1>3, <1>4, <1>5 DEF Within, TInv
<1>11. Unsent(tasks)' /\ Held(tasks)'
  BY <1>3, <1>4, <1>5 DEF Unsent, Held
<1>12. Quiet(tasks)'
  BY <1>1, <1>2, <1>3, <1>4, <1>5 DEF Quiet, Chained, TInv
<1>13. Driven(tasks)'
  BY <1>1, <1>2, <1>3, <1>4, <1>5 DEF Driven, TInv
<1>14. TInv(tasks)'
  BY <1>6, <1>7, <1>8, <1>9, <1>10, <1>11, <1>12, <1>13 DEF TInv
<1> DEFINE S == kept
<1>15. Keeping(S, tasks') /\ \A u \in tasks : Attends(u) => u \in S
  BY <1>1 DEF Keeping, Attends
<1> QED
  BY <1>1, <1>2, <1>14, <1>15, Attending DEF Holds, Advances

LEMMA SendFailsStep == ASSUME IInv, NEW t \in tasks, SendFails(t) PROVE Kept
<1>1. ~Attends(t)
  BY DEF SendFails, Attends
<1> QED
  BY <1>1, Others, Replanning, Attending DEF SendFails

\* The goals of S go on to the step p.
LEMMA GoalsGo ==
  ASSUME Plain, TInv(tasks), NEW p \in {"running", "canceling"}, NEW t \in tasks,
         t.kind = "sender",
         tasks' = ((tasks \ Mine(t)) \ {t}) \cup {Goes(u, p) : u \in Mine(t)}
  PROVE  /\ tasks' \subseteq Tasks /\ OneTick(tasks)' /\ OneGoal(tasks)'
         /\ \A v \in tasks' : \/ v \in tasks /\ v # t /\ v \notin Mine(t)
                              \/ \E u \in Mine(t) : v = Goes(u, p)
         /\ \A u \in Mine(t) : /\ u \in tasks /\ u.kind = "goal" /\ u.token = t.token
                               /\ Goes(u, p).kind = "goal" /\ Goes(u, p).pc = p
                               /\ Goes(u, p).token = u.token /\ Goes(u, p).index = u.index
<1>1. ASSUME NEW u \in Mine(t)
      PROVE  /\ u \in tasks /\ u.kind = "goal" /\ u.token = t.token /\ Goes(u, p) \in Tasks
             /\ Goes(u, p).kind = "goal" /\ Goes(u, p).pc = p
             /\ Goes(u, p).token = u.token /\ Goes(u, p).index = u.index
  <2>1. u \in tasks /\ u.kind = "goal" /\ u.token = t.token /\ u \in Tasks
    BY DEF Mine, TInv
  <2>2. p \in Steps[u.kind]
    BY <2>1, StepNames
  <2> QED
    BY <2>1, <2>2, GoesFields
<1>2. \A v \in tasks' : \/ v \in tasks /\ v # t /\ v \notin Mine(t)
                        \/ \E u \in Mine(t) : v = Goes(u, p)
  OBVIOUS
<1>3. tasks' \subseteq Tasks
  BY <1>1, <1>2 DEF TInv
<1>4. OneTick(tasks)'
  BY <1>1, <1>2 DEF OneTick, TInv
<1>5. OneGoal(tasks)'
  <2> SUFFICES ASSUME NEW v \in tasks', NEW w \in tasks', v.kind = "goal", w.kind = "goal"
               PROVE  v = w
    BY DEF OneGoal
  <2>1. PICK a \in tasks : a.kind = "goal" /\ ((v = a /\ a \notin Mine(t)) \/ (a \in Mine(t) /\ v = Goes(a, p)))
    BY <1>1, <1>2
  <2>2. PICK b \in tasks : b.kind = "goal" /\ ((w = b /\ b \notin Mine(t)) \/ (b \in Mine(t) /\ w = Goes(b, p)))
    BY <1>1, <1>2
  <2>3. a = b
    BY <2>1, <2>2 DEF TInv, OneGoal
  <2> QED
    BY <2>1, <2>2, <2>3
<1> QED
  BY <1>1, <1>2, <1>3, <1>4, <1>5

LEMMA StoredStep == ASSUME IInv, NEW t \in tasks, Stored(t) PROVE Kept
<1> DEFINE S == (tasks \ Mine(t)) \ {t}
<1>1. t.kind = "sender" /\ t.pc = "accepted" /\ Plain /\ TInv(tasks) /\ t \in Tasks
  BY Others DEF Stored
<1>2. \A u \in tasks : Attends(u) => u \in S
  BY <1>1 DEF Attends, Mine
<1>3. CASE Ignore(S \cup {Goes(u, "canceling") : u \in Mine(t)})
  <2> DEFINE p == "canceling"
  <2>1. /\ tasks' = S \cup {Goes(u, p) : u \in Mine(t)}
        /\ UNCHANGED <<state, phase, owner, goal, last, index, pos, relocation, active, handle,
                       context, record, canceled>>
    BY <1>3 DEF Ignore, Route
  <2>2. Plain'
    BY <1>1, <2>1 DEF Plain
  <2>3. /\ tasks' \subseteq Tasks /\ OneTick(tasks)' /\ OneGoal(tasks)'
        /\ \A v \in tasks' : \/ v \in tasks /\ v # t /\ v \notin Mine(t)
                             \/ \E u \in Mine(t) : v = Goes(u, p)
        /\ \A u \in Mine(t) : /\ u \in tasks /\ u.kind = "goal" /\ u.token = t.token
                              /\ Goes(u, p).kind = "goal" /\ Goes(u, p).pc = p
                              /\ Goes(u, p).token = u.token /\ Goes(u, p).index = u.index
    BY <1>1, <2>1, GoalsGo
  <2>4. \A v \in tasks' : \/ v \in tasks
                          \/ \E u \in tasks : /\ u.kind = "goal" /\ v.kind = "goal" /\ v.pc = "canceling"
                                              /\ v.token = u.token /\ v.index = u.index
    BY <2>3
  <2>5. Bounded(tasks)'
    BY <1>1, <2>1, <2>4 DEF TInv, Bounded
  <2>6. Apart(tasks)'
    BY <1>1, <2>1, <2>4 DEF TInv, Apart, Chained
  <2>7. OneSender(tasks)' /\ Within(tasks)'
    BY <1>1, <2>1, <2>4 DEF TInv, OneSender, Within
  <2>8. Unsent(tasks)' /\ Held(tasks)'
    BY <1>1, <2>1, <2>4 DEF TInv, Unsent, Held
  <2>9. Quiet(tasks)'
    BY <1>1, <2>1, <2>4 DEF TInv, Quiet, Chained
  <2>10. Driven(tasks)'
    BY <1>1, <2>1, <2>4 DEF TInv, Driven
  <2>11. TInv(tasks)'
    BY <2>3, <2>5, <2>6, <2>7, <2>8, <2>9, <2>10 DEF TInv
  <2>12. Holds(S)
    BY <2>1, <2>2, <2>11 DEF Holds, Advances, Keeping
  <2> QED
    BY <1>2, <2>12, Attending
<1>4. CASE /\ Current(t)
           /\ tasks' = S \cup {Goes(u, "running") : u \in Mine(t)}
           /\ handle' = IF Mine(t) = {} THEN "old" ELSE "goal"
           /\ phase' = "STRAIGHT" /\ owner' = TRUE
           /\ UNCHANGED <<state, goal, Route, active, context, record, canceled>>
  <2> DEFINE p == "running"
  <2>1. /\ tasks' = S \cup {Goes(u, p) : u \in Mine(t)}
        /\ UNCHANGED <<state, goal, last, index, pos, relocation, active, context, record, canceled>>
    BY <1>4 DEF Route
  <2>2. Plain'
    BY <1>1, <1>4, <2>1 DEF Plain, Phases
  <2>3. /\ tasks' \subseteq Tasks /\ OneTick(tasks)' /\ OneGoal(tasks)'
        /\ \A v \in tasks' : \/ v \in tasks /\ v # t /\ v \notin Mine(t)
                             \/ \E u \in Mine(t) : v = Goes(u, p)
        /\ \A u \in Mine(t) : /\ u \in tasks /\ u.kind = "goal" /\ u.token = t.token
                              /\ Goes(u, p).kind = "goal" /\ Goes(u, p).pc = p
                              /\ Goes(u, p).token = u.token /\ Goes(u, p).index = u.index
    BY <1>1, <2>1, GoalsGo
  <2>4. t.token /\ Chained(t)
    BY <1>1, <1>4 DEF Current, Chained
  <2>5. \A v \in tasks' : \/ v \in tasks /\ v # t
                          \/ \E u \in tasks : /\ u.kind = "goal" /\ v.kind = "goal" /\ v.pc = "running"
                                              /\ v.token = u.token /\ v.index = u.index
                                              /\ handle' = "goal"
    BY <1>4, <2>3
  <2>6. Bounded(tasks)'
    BY <1>1, <2>1, <2>5 DEF TInv, Bounded
  <2>7. phase' \notin Between
    BY <1>4 DEF Between, Turning
  <2>8. Apart(tasks)'
    BY <1>1, <2>5, <2>7 DEF TInv, Apart, Chained
  <2>9. OneSender(tasks)'
    BY <1>1, <2>5 DEF TInv, OneSender
  <2>10. Within(tasks)'
    BY <1>1, <2>1, <2>5, <2>7 DEF TInv, Within, Between
  <2>11. \A v \in tasks' : v.kind = "sender" => ~v.token
    BY <1>1, <2>4, <2>5 DEF TInv, OneSender
  <2>12. Unsent(tasks)'
    BY <2>11 DEF Unsent
  <2>13. Held(tasks)'
    BY <1>1, <2>4, <2>5 DEF TInv, Unsent, Held
  <2>14. Quiet(tasks)'
    BY <1>1, <2>1, <2>4 DEF TInv, Quiet
  <2>15. Driven(tasks)'
    BY <1>1, <2>1, <2>5 DEF TInv, Driven
  <2>16. TInv(tasks)'
    BY <2>3, <2>6, <2>8, <2>9, <2>10, <2>12, <2>13, <2>14, <2>15 DEF TInv
  <2>17. Holds(S)
    BY <2>1, <2>2, <2>16 DEF Holds, Advances, Keeping
  <2> QED
    BY <1>2, <2>17, Attending
<1> QED
  BY <1>3, <1>4 DEF Stored

LEMMA MoveStep == ASSUME IInv, NEW g \in tasks, Move(g) PROVE Kept
<1>1. /\ g.token /\ pos = g.index /\ pos' = pos + 1
      /\ UNCHANGED <<state, phase, owner, goal, last, index, relocation, active, handle, context,
                     record, tasks, canceled>>
  BY DEF Move
<1>2. Plain /\ TInv(tasks)
  BY DEF IInv
<1>3. pos < Segments
  BY <1>1, <1>2 DEF TInv, Bounded
<1>4. pos' \in 0 .. Segments /\ (index < pos => index < pos')
  BY <1>1, <1>2, <1>3, SegmentAssumption DEF Plain
<1>5. Plain'
  BY <1>1, <1>2, <1>4 DEF Plain
<1>6. Driven(tasks)'
  BY <1>1, <1>2, <1>4 DEF TInv, Driven
<1>7. TInv(tasks)'
  BY <1>1, <1>2, <1>6 DEF TInv, Bounded, Apart, OneTick, OneGoal, OneSender, Within, Unsent, Held, Quiet
<1> QED
  BY <1>1, <1>2, <1>5, <1>7, Attending DEF Holds, Advances, Keeping

LEMMA GoalEndsStep == ASSUME IInv, NEW g \in tasks, GoalEnds(g) PROVE Kept
<1> DEFINE S == tasks \ {g}
<1>1. g.kind = "goal" /\ ~Attends(g) /\ Plain /\ TInv(tasks) /\ TInv(S) /\ g \in Tasks
  BY Others DEF GoalEnds, Goals, Attends
<1>2. CASE Ignore(S)
  BY <1>1, <1>2, Others, Ignored, Attending
<1>3. CASE g.pc = "running"
  <2> DEFINE x(p) == As(g, "result", p)
  <2>1. PICK p \in {"ABORTED", "CANCELED", "SUCCEEDED"} :
          /\ p = "SUCCEEDED" => pos > g.index
          /\ tasks' = S \cup (IF g.token THEN {x(p)} ELSE {})
    BY <1>3 DEF GoalEnds, As
  <2>2. /\ handle' \in {"old", handle} /\ (handle = "old" \/ handle' = "old" \/ handle # "goal")
        /\ UNCHANGED <<state, phase, owner, goal, last, index, pos, relocation, active, context,
                       record, canceled>>
    BY <1>3 DEF GoalEnds, Route
  <2>3. Plain'
    BY <1>1, <2>2 DEF Plain
  <2>4. /\ x(p) \in Tasks /\ x(p).kind = "result" /\ x(p).pc = p /\ x(p).token = g.token
        /\ x(p).index = g.index
    <3>1. "result" \in DOMAIN Steps /\ p \in Steps["result"]
      BY StepNames
    <3> QED
      BY <1>1, <3>1, Renamed
  <2> HIDE DEF x
  <2>5. \A v \in tasks' : (v \in tasks /\ v # g) \/ (v = x(p) /\ g.token)
    BY <2>1
  <2>6. tasks' \subseteq Tasks /\ Bounded(tasks)'
    BY <1>1, <2>2, <2>4, <2>5 DEF TInv, Bounded
  <2>7. OneTick(tasks)' /\ OneGoal(tasks)' /\ OneSender(tasks)'
    BY <1>1, <2>4, <2>5 DEF TInv, OneTick, OneGoal, OneSender
  <2>8. Apart(tasks)'
    BY <1>1, <2>2, <2>4, <2>5 DEF TInv, Apart, Chained
  <2>9. Within(tasks)'
    BY <1>1, <2>2, <2>4, <2>5 DEF TInv, Within
  <2>10. \A v \in tasks' : v.kind # "goal"
    BY <1>1, <2>4, <2>5 DEF TInv, OneGoal
  <2>11. Unsent(tasks)' /\ Held(tasks)'
    BY <2>10 DEF Unsent, Held
  <2>12. Quiet(tasks)'
    BY <1>1, <2>2, <2>4, <2>5 DEF TInv, Quiet, Chained
  <2>13. p = "SUCCEEDED" => g.index < pos
    BY <1>1, <2>1, TaskFields DEF Plain
  <2>14. Driven(tasks)'
    BY <1>1, <2>2, <2>4, <2>5, <2>13 DEF TInv, Driven
  <2>15. TInv(tasks)'
    BY <2>6, <2>7, <2>8, <2>9, <2>11, <2>12, <2>14 DEF TInv
  <2>16. Keeping(S, tasks')
    BY <2>1 DEF Keeping
  <2> QED
    BY <1>1, <2>2, <2>3, <2>15, <2>16, Others, Attending DEF Holds, Advances
<1> QED
  BY <1>2, <1>3 DEF GoalEnds

LEMMA ResultStep == ASSUME IInv, NEW t \in tasks, Result(t) PROVE Kept
<1> DEFINE S == tasks \ {t}
<1>1. /\ t.kind = "result" /\ Plain /\ TInv(S) /\ TInv(tasks)
      /\ \A u \in tasks : Attends(u) => u \in S
  BY Others DEF Result, Attends
<1>2. ASSUME Holds(S) PROVE Kept
  BY <1>1, <1>2, Attending
<1>3. CASE Finish(t, S, {"NAVIGATING"})
  BY <1>1, <1>2, <1>3, Finishes
<1>4. CASE Ignore(S)
  BY <1>1, <1>2, <1>4, Ignored
<1>5. CASE t.pc = "SUCCEEDED" /\ Complete(t, S)
  BY <1>1, <1>2, <1>5, Completes
<1>6. CASE /\ state = "PAUSED" /\ phase' = "IDLE" /\ tasks' = S
           /\ UNCHANGED <<state, owner, goal, Route, active, handle, context, record, canceled>>
  <2>1. UNCHANGED <<state, owner, goal, last, index, pos, relocation, active, handle, context,
                    record, canceled>>
    BY <1>6 DEF Route
  <2>2. Plain'
    BY <1>1, <1>6, <2>1 DEF Plain, Phases
  <2>3. (\A x \in tasks' : x \in S \/ Mere(x)) /\ phase' \notin Between /\ phase' \notin Turning
        /\ phase' # "STRAIGHT"
    BY <1>6 DEF Between, Turning
  <2> HIDE DEF S
  <2>4. TInv(tasks)'
    BY <1>1, <2>1, <2>2, <2>3, KeepStep
  <2>5. Holds(S)
    BY <1>6, <2>1, <2>2, <2>4 DEF Holds, Advances, Keeping
  <2> QED
    BY <1>2, <2>5 DEF S
<1>7. CASE RestartSegment(t, S)
  BY <1>1, <1>2, <1>7, SegmentRestarts
<1>8. CASE EnterWait(S)
  BY <1>1, <1>2, <1>8, Waiting
<1>9. CASE ScheduleReplan(t, S)
  BY <1>1, <1>2, <1>9, Replanning
<1>10. CASE /\ state' = "NAVIGATING" /\ phase' = "STRAIGHT_PREPARE" /\ Revoke
            /\ tasks' = NewToken(Revoked(S))
            /\ UNCHANGED <<goal, Route, context, record, canceled>>
  BY <1>1, <1>2, <1>10, Restarting
<1> QED
  BY Zenon, <1>3, <1>4, <1>5, <1>6, <1>7, <1>8, <1>9, <1>10 DEF Result

-----------------------------------------------------------------------------
(* What the sensors cause, and the workers.                                *)

LEMMA SafetyStopStep == ASSUME IInv, SafetyStop PROVE Kept
<1>1. EnterWait(tasks) \/ StartBay(Task("bay", "start"), tasks)
        \/ ScheduleReplan(Task("replan", "start"), tasks)
  BY DEF SafetyStop
<1>2. Holds(tasks)
  BY <1>1, AllThere, Waiting, BayStarts, Replanning
<1> QED
  BY <1>2, AllThere, Attending

LEMMA CorridorBlockedStep == ASSUME IInv, CorridorBlocked PROVE Kept
<1>1. /\ handle' = "none" /\ owner' = FALSE /\ active' = FALSE
      /\ UNCHANGED <<goal, last, index, pos, relocation, context, record, canceled>>
  BY DEF CorridorBlocked, Revoke, Route
<1>2. /\ state' \in {"WAIT_FOR_DYNAMIC_CLEAR", "TURN_BAY_RECOVERY"}
      /\ phase' \in {"WAIT_FOR_DYNAMIC_CLEAR", "TURN_BAY_SEARCH"}
      /\ tasks' \subseteq NewToken(Revoked(tasks)) \cup {Task("bay", "start")}
  BY DEF CorridorBlocked
<1>3. Plain'
  BY <1>1, <1>2 DEF IInv, Plain, States, Phases
<1>4. last' > 0 => last > 0 /\ relocation' = relocation
  BY <1>1
<1>5. Mere(Task("bay", "start"))
  BY Mild, StepNames DEF IInv
<1>6. /\ \A x \in tasks' : x \in NewToken(Revoked(tasks)) \/ Mere(x)
      /\ state' \notin Stopped /\ phase' \notin Turning /\ state' # "PLANNING"
  BY <1>2, <1>5 DEF Stopped, Turning
<1>7. TInv(tasks)'
  BY <1>1, <1>3, <1>4, <1>6, Clears, ClearStep DEF IInv
<1> QED
  BY <1>1, <1>3, <1>6, <1>7, AllThere, Attending DEF Holds, Advances

\* A worker has its plan to make.
LEMMA Planning ==
  ASSUME IInv, NEW t \in tasks, t.kind \in {"replan", "dynamic", "bypass", "auto", "bay"},
         Ignore((tasks \ {t}) \cup {Goes(t, "planned")})
  PROVE  Kept
<1>1. /\ tasks' = (tasks \ {t}) \cup {Goes(t, "planned")}
      /\ UNCHANGED <<state, phase, owner, goal, last, index, pos, relocation, active, handle,
                     context, record, canceled>>
  BY DEF Ignore, Route
<1>2. Plain'
  BY <1>1 DEF IInv, Plain
<1>3. "planned" \in Steps[t.kind]
  BY StepNames
<1>4. TInv(tasks)'
  BY <1>1, <1>2, <1>3, Others, GoesOn
<1>5. Keeping(tasks \ {t}, tasks') /\ ~Attends(t)
  BY <1>1 DEF Keeping, Attends
<1> QED
  BY <1>1, <1>2, <1>4, <1>5, Others, Attending DEF Holds, Advances

\* What the workers have in common.
LEMMA WorkerStep ==
  ASSUME IInv, NEW t \in tasks, t.kind \in {"replan", "dynamic", "bypass", "auto", "bay"},
         \/ Ignore(tasks \ {t}) \/ Ignore((tasks \ {t}) \cup {Goes(t, "planned")})
         \/ EnterWait(tasks \ {t}) \/ StartBay(t, tasks \ {t})
         \/ Navigate("record", tasks \ {t}) /\ canceled' = canceled
         \/ \E c \in BOOLEAN : BlockedNoRoute(tasks \ {t}, c)
  PROVE  Kept
<1> DEFINE S == tasks \ {t}
<1>1. Plain /\ TInv(S) /\ \A u \in tasks : Attends(u) => u \in S
  BY Others DEF Attends
<1>2. ASSUME Holds(S) PROVE Kept
  BY <1>1, <1>2, Attending
<1>3. CASE Ignore((tasks \ {t}) \cup {Goes(t, "planned")})
  BY <1>3, Planning
<1>4. CASE Ignore(S) \/ EnterWait(S) \/ StartBay(t, S)
  BY <1>1, <1>2, <1>4, Ignored, Waiting, BayStarts
<1>5. CASE Navigate("record", S) /\ canceled' = canceled
  BY <1>1, <1>2, <1>5, Navigates
<1>6. CASE \E c \in BOOLEAN : BlockedNoRoute(S, c)
  BY <1>1, <1>2, <1>6, NoRoute
<1> QED
  BY <1>3, <1>4, <1>5, <1>6

LEMMA ReplanStep == ASSUME IInv, NEW t \in tasks, Replan(t) PROVE Kept
<1>1. t.kind = "replan"
  BY DEF Replan
<1>2. \/ Ignore(tasks \ {t}) \/ Ignore((tasks \ {t}) \cup {Goes(t, "planned")})
      \/ EnterWait(tasks \ {t})
      \/ Navigate("record", tasks \ {t}) /\ canceled' = canceled
  BY DEF Replan
<1> QED
  BY <1>1, <1>2, WorkerStep

LEMMA DynamicReplanStep == ASSUME IInv, NEW t \in tasks, DynamicReplan(t) PROVE Kept
<1>1. t.kind = "dynamic"
  BY DEF DynamicReplan
<1>2. \/ Ignore(tasks \ {t}) \/ Ignore((tasks \ {t}) \cup {Goes(t, "planned")})
      \/ EnterWait(tasks \ {t})
      \/ Navigate("record", tasks \ {t}) /\ canceled' = canceled
  BY DEF DynamicReplan
<1> QED
  BY <1>1, <1>2, WorkerStep

LEMMA BypassStep == ASSUME IInv, NEW t \in tasks, Bypass(t) PROVE Kept
<1> DEFINE S == tasks \ {t}
<1>1. t.kind = "bypass" /\ ~Attends(t)
  BY DEF Bypass, Attends
<1>2. CASE \/ Ignore(S) \/ Ignore(S \cup {Goes(t, "planned")})
           \/ StartBay(t, S) \/ BlockedNoRoute(S, TRUE)
           \/ Navigate("record", S) /\ canceled' = canceled
  BY <1>1, <1>2, WorkerStep
<1>3. CASE Present(S)
  <2>1. /\ state' = "ROUTE_SELECTION" /\ phase' = "IDLE" /\ owner' = FALSE /\ record' = "held"
        /\ tasks' = S
        /\ UNCHANGED <<goal, last, index, pos, relocation, active, handle, context, canceled>>
    BY <1>3 DEF Present, Route
  <2>2. Plain'
    BY <2>1 DEF IInv, Plain, States, Phases
  <2>3. (\A x \in tasks' : x \in S \/ Mere(x)) /\ phase' \notin Between /\ phase' \notin Turning
        /\ state' \notin Stopped
    BY <2>1 DEF Between, Turning, Stopped
  <2>4. TInv(S) /\ Plain
    BY Others
  <2> HIDE DEF S
  <2>5. TInv(tasks)'
    BY <2>1, <2>2, <2>3, <2>4, KeepStep
  <2>6. Holds(S)
    BY <2>1, <2>2, <2>5 DEF Holds, Advances
  <2> QED
    BY <1>1, <2>6, Others, Attending DEF S
<1> QED
  BY <1>2, <1>3 DEF Bypass

LEMMA AutoSelectStep == ASSUME IInv, NEW t \in tasks, AutoSelect(t) PROVE Kept
<1>1. t.kind = "auto" /\ goal \in BOOLEAN
  BY DEF AutoSelect, IInv, Plain
<1>2. \/ Ignore((tasks \ {t}) \cup {Goes(t, "planned")})
      \/ \E c \in BOOLEAN : BlockedNoRoute(tasks \ {t}, c)
      \/ Navigate("record", tasks \ {t}) /\ canceled' = canceled
  BY <1>1 DEF AutoSelect
<1> QED
  BY <1>1, <1>2, WorkerStep

LEMMA BayStep == ASSUME IInv, NEW t \in tasks, Bay(t) PROVE Kept
<1> DEFINE S == tasks \ {t}
<1>1. t.kind = "bay" /\ Plain /\ TInv(S) /\ \A u \in tasks : Attends(u) => u \in S
  BY Others DEF Bay, Attends
<1>2. ASSUME Holds(S) PROVE Kept
  BY <1>1, <1>2, Attending
<1>3. CASE Ignore(S) \/ Ignore(S \cup {Goes(t, "planned")}) \/ EnterWait(S)
  BY <1>1, <1>3, WorkerStep
<1>4. CASE /\ state' = "WAIT_FOR_DYNAMIC_CLEAR" /\ tasks' = S
           /\ UNCHANGED <<phase, owner, goal, Route, active, handle, context, record, canceled>>
  <2>1. UNCHANGED <<phase, owner, goal, last, index, pos, relocation, active, handle, context,
                    record, canceled>>
    BY <1>4 DEF Route
  <2>2. Plain'
    BY <1>1, <1>4, <2>1 DEF Plain, States
  <2>3. (\A x \in tasks' : x \in S \/ Mere(x)) /\ state' \notin Stopped
    BY <1>4 DEF Stopped
  <2> HIDE DEF S
  <2>4. TInv(tasks)'
    BY <1>1, <2>1, <2>2, <2>3, KeepStep
  <2> QED
    BY <1>2, <1>4, <2>1, <2>2, <2>4 DEF Holds, Advances
<1>5. CASE /\ state' = "NAVIGATING" /\ phase' = "STRAIGHT_PREPARE"
           /\ active' = FALSE /\ last' = 1 /\ index' = 0 /\ pos' = 0
           /\ relocation' = "TURN_BAY"
           /\ tasks' = NewToken(S)
           /\ UNCHANGED <<owner, goal, handle, context, record, canceled>>
  <2>1. last' \in 0 .. Segments /\ index' \in 0 .. Segments /\ pos' \in 0 .. Segments
        /\ index' < Segments
    BY <1>5, SegmentAssumption
  <2>2. Plain'
    BY <1>1, <1>5, <2>1 DEF Plain, Relocations, States, Phases
  <2>3. (\A x \in tasks' : x \in NewToken(S) \/ Mere(x)) /\ state' \notin Stopped
    BY <1>5 DEF Stopped
  <2> HIDE DEF S
  <2>4. TInv(tasks)'
    BY <1>1, <1>5, <2>1, <2>2, <2>3, Clears, ClearStep
  <2> QED
    BY <1>2, <1>5, <2>2, <2>4 DEF Holds, Advances
<1> QED
  BY <1>3, <1>4, <1>5 DEF Bay

LEMMA RecoverStep == ASSUME IInv, NEW t \in tasks, Recover(t) PROVE Kept
<1> DEFINE S == tasks \ {t}
<1>1. Plain /\ TInv(S)
  BY Others
<1>2. CASE /\ state' = "WAIT_FOR_DYNAMIC_CLEAR" /\ context' = "due" /\ tasks' = S
           /\ UNCHANGED <<phase, owner, goal, Route, active, handle, record, canceled>>
  <2>1. UNCHANGED <<phase, owner, goal, last, index, pos, relocation, active, handle, record,
                    canceled>>
    BY <1>2 DEF Route
  <2>2. Plain'
    BY <1>1, <1>2, <2>1 DEF Plain, States
  <2>3. (\A x \in tasks' : x \in S \/ Mere(x)) /\ state' \notin Stopped
    BY <1>2 DEF Stopped
  <2> HIDE DEF S
  <2>4. TInv(tasks)'
    BY <1>1, <2>1, <2>2, <2>3, KeepStep
  <2> QED
    BY <1>2, <2>1, <2>2, <2>4, Leaving DEF Advances
<1>3. CASE /\ state' = "NAVIGATING" /\ phase' = "STRAIGHT_PREPARE"
           /\ handle' = "none" /\ owner' = FALSE /\ active' = FALSE
           /\ goal' = TRUE /\ context' = "none"
           /\ last' = Segments /\ index' = 0 /\ pos' = 0 /\ relocation' = "none"
           /\ tasks' = NewGeneration(S) \cup {Task("record", "persist")}
           /\ UNCHANGED <<record, canceled>>
  <2>1. last' \in 0 .. Segments /\ index' \in 0 .. Segments /\ pos' \in 0 .. Segments
        /\ index' < Segments
    BY <1>3, SegmentAssumption
  <2>2. Plain'
    BY <1>1, <1>3, <2>1 DEF Plain, Relocations, States, Phases
  <2>3. Mere(Task("record", "persist"))
    BY <1>1, Mild, StepNames
  <2>4. (\A x \in tasks' : x \in NewGeneration(S) \/ Mere(x)) /\ state' \notin Stopped
    BY <1>3, <2>3 DEF Stopped
  <2> HIDE DEF S
  <2>5. TInv(tasks)'
    BY <1>1, <2>1, <2>2, <2>4, Clears, ClearStep DEF ClearedAll
  <2> QED
    BY <1>3, <2>2, <2>5, Leaving DEF Advances
<1> QED
  BY <1>2, <1>3 DEF Recover

-----------------------------------------------------------------------------
(* The theorems.                                                           *)

LEMMA InitHolds == Init => IInv
<1> SUFFICES ASSUME Init PROVE IInv
  OBVIOUS
<1>1. Plain
  <2>1. 0 \in 0 .. Segments
    BY SegmentAssumption
  <2> QED
    BY <2>1 DEF Init, Plain, Relocations, States, Phases
<1>2. TInv(tasks)
  BY SegmentAssumption DEF Init, TInv, Bounded, Apart, OneTick, OneGoal, OneSender, Within, Unsent,
     Held, Quiet, Driven
<1> QED
  BY <1>1, <1>2 DEF Init, IInv

LEMMA NextHolds == IInv /\ [Next]_vars => Kept
<1> SUFFICES ASSUME IInv, [Next]_vars PROVE Kept
  OBVIOUS
<1>1. CASE \/ Start \/ SelectRoute \/ Pause \/ Cancel \/ HandOver \/ TakeOver \/ Estop \/ Resume
           \/ SegmentTick \/ DynamicTick \/ SafetyStop \/ CorridorBlocked
           \/ LocalizationLost \/ LocalizationVerified \/ ResumeMission \/ Crash
  BY <1>1, StartStep, CancelStep, StopStep, TakeOverStep, SegmentTickStep, DynamicTickStep,
     SafetyStopStep, CorridorBlockedStep, VerifiedStep, ResumeMissionStep, CrashStep
<1>2. ASSUME NEW t \in tasks,
             \/ Started(t) \/ Acknowledged(t) \/ CancelEnds(t) \/ Resuming(t) \/ Resumed(t)
             \/ Persist(t) \/ TickEnds(t)
      PROVE  Kept
  BY <1>2, StartedStep, AcknowledgedStep, CancelEndsStep, ResumingStep, ResumedStep, PersistStep,
     TickEndsStep
<1>3. ASSUME NEW t \in tasks,
             \/ Send(t) \/ Accept(t) \/ SendFails(t) \/ Stored(t) \/ Move(t) \/ GoalEnds(t)
             \/ Result(t)
      PROVE  Kept
  BY <1>3, SendStep, AcceptStep, SendFailsStep, StoredStep, MoveStep, GoalEndsStep, ResultStep
<1>4. ASSUME NEW t \in tasks,
             \/ Replan(t) \/ DynamicReplan(t) \/ Bypass(t) \/ AutoSelect(t) \/ Bay(t) \/ Recover(t)
      PROVE  Kept
  BY <1>4, ReplanStep, DynamicReplanStep, BypassStep, AutoSelectStep, BayStep, RecoverStep
<1>5. CASE UNCHANGED vars
  BY <1>5 DEF vars, Kept, Advances, Leaves, PlanningThread, IInv, Plain, TInv, Bounded, Apart, Chained, OneTick, OneGoal, OneSender,
     Within, Unsent, Held, Quiet, Driven
<1> QED
  BY Zenon, <1>1, <1>2, <1>3, <1>4, <1>5 DEF Next

LEMMA Invariance == Spec => []IInv
<1>1. IInv /\ [Next]_vars => IInv'
  BY NextHolds DEF Kept
<1> QED
  BY <1>1, InitHolds, PTL DEF Spec

\* Every variable keeps its type: no thread ever holds a segment the route does not have.
THEOREM TypeCorrect == Spec => []TypeOK
<1>1. IInv => TypeOK
  BY DEF IInv, Plain, TInv, TypeOK
<1> QED
  BY <1>1, Invariance, PTL

\* No segment of the route is passed over: whoever completes one, the tick, the result
\* or the next preparation, a completion that still counts is of the segment whose end
\* the robot has reached, and it takes the token from the others
\* (_complete_active_segment).  Undriven is completed only a leg that makes room.
THEOREM RouteIsFollowed == Spec => SegmentsAreDriven
<1>1. IInv /\ [Next]_vars =>
        [last > 0 /\ index' > index =>
           index' = index + 1 /\ (index' <= pos \/ relocation # "none")]_vars
  <2> SUFFICES ASSUME IInv, [Next]_vars, last > 0, index' > index
               PROVE  index' = index + 1 /\ (index' <= pos \/ relocation # "none")
    OBVIOUS
  <2>1. Advances
    BY NextHolds DEF Kept
  <2>2. index \in 0 .. Segments
    BY DEF IInv, Plain
  <2> QED
    BY <2>1, <2>2, SegmentAssumption DEF Advances
<1> QED
  BY <1>1, Invariance, PTL DEF Spec, SegmentsAreDriven

\* However late FollowPath answers, a mission that is paused, cancelled, finished or
\* without localization has no straight segment in force, and no goal with a current
\* token (_send_current_straight_segment).
THEOREM StoppedIsStopped == Spec => []StoppedFollowsNothing
<1>1. IInv => StoppedFollowsNothing
  BY DEF IInv, TInv, Quiet, Chained, Stopped, StoppedFollowsNothing, Goals
<1> QED
  BY <1>1, Invariance, PTL

\* Whatever the order of answers, cancels and replans, what FollowPath drives for the
\* mission is what current_goal_handle cancels: a sender that comes late finds its token
\* out of date and cancels its goal itself (_segment_callback_current).
THEOREM DrivingCanBeRevoked == Spec => []DrivingIsRevocable
<1>1. IInv => DrivingIsRevocable
  BY DEF IInv, TInv, Held, DrivingIsRevocable, Goals
<1> QED
  BY <1>1, Invariance, PTL

\* What makes the generation of a planning thread old, or ends the thread, leaves
\* PLANNING in the same step; only a resume whose start is refused does not
\* (_resume_auto_from_current_pose).
THEOREM PlanningIsLeftAlone == Spec => PlanningIsLeft
<1>1. IInv /\ [Next]_vars =>
        [state' = "PLANNING" /\ ~PlanningThread' =>
           \/ state = "PLANNING" /\ ~PlanningThread
           \/ \E t \in tasks : StartRefused(t)]_vars
  BY NextHolds DEF Kept, Leaves
<1> QED
  BY <1>1, Invariance, PTL DEF Spec, PlanningIsLeft
=============================================================================
