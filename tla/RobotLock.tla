------------------------------ MODULE RobotLock ------------------------------
(***************************************************************************)
(* What the control-session lock promises while the center runs: a robot   *)
(* is held by one session or by none, and a session that let go never      *)
(* holds a robot again.  SessionLock implements it.                        *)
(***************************************************************************)
CONSTANTS Robots, Sessions, NoSession

VARIABLES
  holder,  \* the session that holds a robot
  past     \* sessions that have held one

Init ==
  /\ holder = [r \in Robots |-> NoSession]
  /\ past = {}

\* The robots of D are let go.
Without(D) == [r \in Robots |-> IF r \in D THEN NoSession ELSE holder[r]]

Release(D) ==
  /\ holder' = Without(D)
  /\ past' = past

\* A session that never held a robot takes a free one, possibly freed by the
\* same step: opening a session first ends the expired ones.
Acquire(D, r, s) ==
  /\ s \notin past
  /\ Without(D)[r] = NoSession
  /\ holder' = [Without(D) EXCEPT ![r] = s]
  /\ past' = past \cup {s}

Next ==
  \E D \in SUBSET Robots :
    \/ Release(D)
    \/ \E r \in Robots, s \in Sessions : Acquire(D, r, s)

Spec == Init /\ [][Next]_<<holder, past>>
=============================================================================
