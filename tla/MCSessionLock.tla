---------------------------- MODULE MCSessionLock ----------------------------
(* Instances of SessionLock for TLC.                                       *)
EXTENDS SessionLock

\* Nothing reads the connection flags of a session that is not active, so two
\* states that differ only there are one state to TLC.
Live(s, v) == IF Active(s) THEN v ELSE FALSE
LockView ==
  <<[s \in Sessions |-> Live(s, <<connected[s], ever[s], robotGone[s], due[s]>>)],
    status, robotOf, row, creator, closer, known, online, availability,
    robotSession, monitor, restarts>>
=============================================================================
