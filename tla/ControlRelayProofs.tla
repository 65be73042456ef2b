------------------------- MODULE ControlRelayProofs -------------------------
(***************************************************************************)
(* The stop of an ended session is its last word, for every number of      *)
(* sessions, tabs and robot connections.  The property speaks of sessions  *)
(* whose stop has gone; to prove it, StopInv says what leads there: while  *)
(* the ending task waits with its stop, what the session sent the robot    *)
(* is either ahead of it in the queue of the send lock or on the wire, on  *)
(* the same connection.  QueueInv ties each entry of the queue to the one  *)
(* task that waits in it, and EndInv an ending task to an ended session,   *)
(* for which no handler sends a velocity any more.                         *)
(*                                                                         *)
(* The second half of the module is about a robot that moves while its     *)
(* session lasts.  MotionHasOwner needs to know that a velocity waits with *)
(* the handler that accepted it (VelocityInv), that this handler is the    *)
(* registered controller as long as its socket is open (ListenInv), that   *)
(* the registered controller is a connected one (FlagFollowsSocket), that  *)
(* a stop which waits is for the present connection (OrderInv), and that   *)
(* a registered controller has a handler, unless that died of its own      *)
(* control.ready (RegisteredInv).                                          *)
(***************************************************************************)
EXTENDS ControlRelay, TLAPS

-----------------------------------------------------------------------------
(* The invariants.                                                         *)

\* What an entry of the send queue says of the task that waits there.
Entry(m) ==
  /\ m.to <= links
  /\ m.task \in Conns => pc[m.task] \in {"forwarding", "requesting", "leaving"}
  /\ m.task \in Sessions =>
       /\ m.session = m.task
       /\ \/ m.kind = "cancel" /\ ender[m.task] = "cancelling"
          \/ m.kind = "stop" /\ ender[m.task] = "stopping"

\* A task waits for one message at a time.
QueueInv ==
  \A i \in DOMAIN sendQ :
    /\ Entry(sendQ[i])
    /\ \A j \in DOMAIN sendQ : sendQ[j].task = sendQ[i].task => j = i

\* The robot has its newest connection or none.
LinkInv == link \in {0, links}

\* Only the end of a session starts its ending task.
EndInv == \A s \in Sessions : ender[s] # "none" => status[s] = "ended"

\* The i-th message in the queue is a velocity of s that can still be delivered.
LiveVelocity(i, s) ==
  sendQ[i].kind = "velocity" /\ sendQ[i].session = s /\ sendQ[i].to = link

\* The stop that the task of s waits to send comes after what s sent the robot
\* on its present link, and goes there too.
StopInv ==
  \A s \in Sessions : ender[s] = "stopping" =>
    \A i \in DOMAIN sendQ : sendQ[i].task = s =>
      /\ \A j \in DOMAIN sendQ : LiveVelocity(j, s) => j < i /\ sendQ[i].to = link
      /\ Moving /\ wire.session = s => sendQ[i].to = link

\* Where a handler is while its message waits for the send lock.
Waiting == {"forwarding", "requesting", "leaving"}

\* The inductive invariant.
RelayInv == QueueInv /\ LinkInv /\ EndInv /\ StopInv /\ StopIsLastWord

-----------------------------------------------------------------------------
(* The queue and its tasks.                                                *)

\* The queue holds messages.
LEMMA QueueTypes ==
  ASSUME TypeOK
  PROVE  /\ sendQ \in Seq(Sends)
         /\ \A i \in DOMAIN sendQ : sendQ[i] \in Sends
         /\ DOMAIN sendQ = 1 .. Len(sendQ)
         /\ Len(sendQ) \in Nat
BY DEF TypeOK

\* The queue after the head has gone.
LEMMA TailEntries ==
  ASSUME TypeOK, sendQ # <<>>
  PROVE  /\ Tail(sendQ) \in Seq(Sends)
         /\ Len(sendQ) >= 1
         /\ Len(Tail(sendQ)) = Len(sendQ) - 1
         /\ DOMAIN Tail(sendQ) = 1 .. Len(sendQ) - 1
         /\ \A i \in 1 .. Len(sendQ) - 1 : Tail(sendQ)[i] = sendQ[i + 1]
         /\ Head(sendQ) = sendQ[1] /\ 1 \in DOMAIN sendQ
         /\ Head(sendQ) \in Sends
BY QueueTypes

\* The queue with another message at its end.
LEMMA AppendEntries ==
  ASSUME NEW q \in Seq(Sends), NEW m \in Sends
  PROVE  /\ Append(q, m) \in Seq(Sends)
         /\ Len(Append(q, m)) = Len(q) + 1
         /\ DOMAIN Append(q, m) = 1 .. Len(q) + 1
         /\ DOMAIN q = 1 .. Len(q)
         /\ Len(q) \in Nat
         /\ \A i \in 1 .. Len(q) : Append(q, m)[i] = q[i]
         /\ Append(q, m)[Len(q) + 1] = m
OBVIOUS

\* A task that forwards a message joins the queue with it.
LEMMA ForwardIsSend ==
  ASSUME TypeOK, LinkInv, ~NoLink, NEW kind \in {"velocity", "stop", "cancel"}, NEW s \in Sessions,
         NEW t \in Conns \cup Sessions, Forward(kind, s, t)
  PROVE  \E m \in Sends : /\ m.to = link /\ m.kind = kind /\ m.session = s /\ m.task = t
                          /\ sendQ' = Append(sendQ, m)
                          /\ sendQ' \in Seq(Sends)
<1> DEFINE m == [to |-> link, kind |-> kind, session |-> s, task |-> t]
<1>1. m \in Sends
  BY LinksAssumption DEF Sends, TypeOK, NoLink
<1>2. sendQ' = Append(sendQ, m)
  BY DEF Forward, Joined
<1> QED
  BY <1>1, <1>2, AppendEntries, QueueTypes

\* The steps of a handler and those of an ending task.
PcNames == {"new", "closingOld", "ready", "loop", "forwarding", "requesting", "awaiting",
            "acking", "leaving", "done", "dead"}

EnderNames == {"none", "scheduled", "cancelling", "stopping", "notifying", "closing", "done"}

\* The ending task of s starts to stop the robot.
LEMMA StartTypes ==
  ASSUME TypeOK, LinkInv, NEW s \in Sessions, StartStopping(s)
  PROVE  ender' \in [Sessions -> EnderNames] /\ sendQ' \in Seq(Sends)
<1>1. CASE NoLink
  BY <1>1 DEF StartStopping, TypeOK, EnderNames
<1>2. CASE ~NoLink
  <2>1. sendQ' \in Seq(Sends)
    BY <1>2, ForwardIsSend DEF StartStopping
  <2> QED
    BY <1>2, <2>1 DEF StartStopping, TypeOK, EnderNames
<1> QED
  BY <1>1, <1>2

\* What becomes of the task whose message has gone.
LEMMA TransmitCases ==
  ASSUME TypeOK, QueueInv, LinkInv, Transmit
  PROVE  /\ sendQ # <<>>
         /\ wire' = IF Delivered(Head(sendQ)) /\ Head(sendQ).kind # "cancel"
                      THEN [kind |-> Head(sendQ).kind, session |-> Head(sendQ).session]
                      ELSE wire
         /\ \/ /\ Head(sendQ).task \in Sessions
               /\ EnderGoesOn(Head(sendQ))
               /\ UNCHANGED pc
            \/ /\ Head(sendQ).task \in Conns
               /\ HandlerGoesOn(Head(sendQ).task)
               /\ sendQ' = Tail(sendQ)
               /\ UNCHANGED ender
         /\ Entry(Head(sendQ)) /\ Head(sendQ) \in Sends
         /\ UNCHANGED <<status, connected, lastFrom, controller, sess, old, sock,
                        link, links, linkDead>>
<1>1. sendQ # <<>>
  BY DEF Transmit
<1>2. Entry(Head(sendQ)) /\ Head(sendQ) \in Sends
  BY <1>1, TailEntries DEF QueueInv
<1> QED
  BY <1>1, <1>2 DEF Transmit, linkVars

\* Where a handler goes when its message has gone.
LEMMA HandlerPc ==
  ASSUME TypeOK, NEW c \in Conns, HandlerGoesOn(c),
         pc[c] \in {"forwarding", "requesting", "leaving"}
  PROVE  \E to \in {"acking", "awaiting", "done"} : pc' = [pc EXCEPT ![c] = to]
<1>1. CASE pc[c] = "forwarding"
  BY <1>1 DEF HandlerGoesOn
<1>2. CASE pc[c] = "requesting"
  BY <1>2 DEF HandlerGoesOn
<1>3. CASE pc[c] = "leaving"
  BY <1>3 DEF HandlerGoesOn
<1> QED
  BY <1>1, <1>2, <1>3

\* The ending task has sent one message: it sends the stop behind the cancel, or
\* goes on to tell the browsers.
LEMMA EnderCases ==
  ASSUME TypeOK, QueueInv, LinkInv, sendQ # <<>>, Head(sendQ).task \in Sessions,
         EnderGoesOn(Head(sendQ)), UNCHANGED <<link, links>>
  PROVE  LET s == Head(sendQ).session IN
         /\ s = Head(sendQ).task
         /\ \/ /\ Head(sendQ).kind = "cancel" /\ ender[s] = "cancelling"
               /\ link # 0
               /\ ender' = [ender EXCEPT ![s] = "stopping"]
               /\ \E m \in Sends : /\ m.kind = "stop" /\ m.to = link
                                   /\ m.session = s /\ m.task = s
                                   /\ sendQ' = Append(Tail(sendQ), m)
            \/ /\ (Head(sendQ).kind = "stop" /\ ender[s] = "stopping") \/ link = 0
               /\ ender' = [ender EXCEPT ![s] = "notifying"]
               /\ sendQ' = Tail(sendQ)
<1> DEFINE h == Head(sendQ)
<1>1. h \in Sends /\ Entry(h)
  BY TailEntries DEF QueueInv
<1>2. /\ h.session = h.task
      /\ \/ h.kind = "cancel" /\ ender[h.task] = "cancelling"
         \/ h.kind = "stop" /\ ender[h.task] = "stopping"
  BY <1>1 DEF Entry
<1>3. CASE h.kind = "cancel" /\ ~NoLink
  <2> DEFINE m == [h EXCEPT !.kind = "stop", !.to = link]
  <2>1. link \in 1 .. MaxLinks
    BY <1>3, LinksAssumption DEF NoLink, TypeOK
  <2>2. m \in Sends /\ m.kind = "stop" /\ m.to = link /\ m.session = h.session /\ m.task = h.task
    BY <1>1, <2>1 DEF Sends
  <2>3. sendQ' = Append(Tail(sendQ), m) /\ ender' = [ender EXCEPT ![h.session] = "stopping"]
    BY <1>3 DEF EnderGoesOn, Joined
  <2> QED
    BY <1>2, <1>3, <2>2, <2>3 DEF NoLink
<1>4. CASE h.kind = "stop" \/ NoLink
  BY <1>2, <1>4 DEF EnderGoesOn, NoLink
<1> QED
  BY <1>2, <1>3, <1>4

-----------------------------------------------------------------------------
(* Types.                                                                  *)

LEMMA TypeStep ==
  ASSUME TypeOK, QueueInv, LinkInv, [Next]_vars
  PROVE  TypeOK'
<1>1. CASE Transmit
  <2>1. /\ sendQ # <<>> /\ Entry(Head(sendQ)) /\ Head(sendQ) \in Sends
        /\ UNCHANGED <<status, connected, lastFrom, controller, sess, old, sock,
                       link, links, linkDead>>
    BY <1>1, TransmitCases
  <2>2. wire' \in Motion
    <3>1. \/ wire' = wire
          \/ /\ Head(sendQ).kind # "cancel"
             /\ wire' = [kind |-> Head(sendQ).kind, session |-> Head(sendQ).session]
      BY <1>1, TransmitCases
    <3> QED
      BY <2>1, <3>1 DEF Motion, Sends, TypeOK
  <2>3. Tail(sendQ) \in Seq(Sends)
    BY <2>1, TailEntries
  <2>4. CASE Head(sendQ).task \in Sessions /\ EnderGoesOn(Head(sendQ)) /\ UNCHANGED pc
    <3>1. sendQ' \in Seq(Sends)
      BY <2>1, <2>3, <2>4, EnderCases, AppendEntries
    <3>2. ender' \in [Sessions -> EnderNames]
      BY <2>1, <2>4, EnderCases DEF EnderNames, TypeOK
    <3> QED
      BY <2>1, <2>2, <2>4, <3>1, <3>2 DEF TypeOK, EnderNames
  <2>5. CASE /\ Head(sendQ).task \in Conns /\ HandlerGoesOn(Head(sendQ).task)
             /\ sendQ' = Tail(sendQ) /\ UNCHANGED ender
    <3>1. pc' \in [Conns -> PcNames]
      BY <2>1, <2>5, HandlerPc DEF Entry, PcNames, TypeOK
    <3> QED
      BY <2>1, <2>2, <2>3, <2>5, <3>1 DEF TypeOK, PcNames
  <2> QED
    BY <1>1, <2>4, <2>5, TransmitCases
<1>2. ASSUME NEW s \in Sessions, CreateSession(s) PROVE TypeOK'
  BY <1>2 DEF CreateSession, TypeOK, handlerVars, linkVars
<1>3. ASSUME NEW s \in Sessions, EndSession(s) \/ FinalizeExpired(s) PROVE TypeOK'
  <2>1. ender' \in [Sessions -> EnderNames] /\ sendQ' \in Seq(Sends)
    BY <1>3, StartTypes DEF EndSession, FinalizeExpired
  <2> QED
    BY <1>3, <2>1 DEF EndSession, FinalizeExpired, TypeOK, EnderNames, handlerVars, linkVars
<1>4. ASSUME NEW s \in Sessions, ExpireSession(s) PROVE TypeOK'
  BY <1>4 DEF ExpireSession, Scheduled, TypeOK, handlerVars, linkVars
<1>5. ASSUME NEW s \in Sessions, Notify(s) \/ Notified(s) PROVE TypeOK'
  BY <1>5 DEF Notify, Notified, TypeOK, handlerVars, linkVars
<1>6. ASSUME NEW c \in Conns, Claim(c) PROVE TypeOK'
  <2>1. sess[c] \in Sessions /\ Registered(c) \in Conns \cup {NoConn}
    BY DEF Registered, TypeOK
  <2>2. /\ controller' \in [Sessions -> Conns \cup {NoConn}]
        /\ lastFrom' \in [Sessions -> Conns \cup {NoConn}]
        /\ pc' \in [Conns -> PcNames] /\ old' \in [Conns -> Conns \cup {NoConn}]
    BY <1>6, <2>1, SMTT(30) DEF Claim, PcNames, TypeOK
  <2>3. connected' \in [Sessions -> BOOLEAN]
    BY <1>6 DEF Claim, TypeOK
  <2>4. sock' \in [Conns -> {"open", "closing", "closed"}]
    BY <1>6, <2>1 DEF Claim, TypeOK
  <2> QED
    BY <1>6, <2>2, <2>3, <2>4 DEF Claim, TypeOK, PcNames, linkVars
<1>7. ASSUME NEW c \in Conns, Refuse(c) \/ SendReady(c) \/ Reject(c) \/ Answered(c) \/ Ack(c)
      PROVE  TypeOK'
  BY <1>7 DEF Refuse, SendReady, Reject, Answered, Ack, TypeOK, sessionVars, linkVars
<1>8. ASSUME NEW c \in Conns, OldClosed(c) PROVE TypeOK'
  BY <1>8 DEF OldClosed, FreshSequence, TypeOK, linkVars
<1>9. ASSUME NEW c \in Conns, Accept(c) PROVE TypeOK'
  <2>1. sendQ' \in Seq(Sends)
    <3>1. sess[c] \in Sessions
      BY DEF TypeOK
    <3> QED
      BY <1>9, <3>1, ForwardIsSend DEF Accept, TypeOK
  <2> QED
    BY <1>9, <2>1 DEF Accept, TypeOK, linkVars
<1>10. ASSUME NEW c \in Conns, Leave(c) PROVE TypeOK'
  <2>1. sendQ' \in Seq(Sends)
    <3>1. sess[c] \in Sessions
      BY DEF TypeOK
    <3> QED
      BY <1>10, <3>1, ForwardIsSend DEF Leave, TypeOK
  <2>2. controller' \in [Sessions -> Conns \cup {NoConn}]
    BY <1>10 DEF Leave, TypeOK
  <2>3. connected' \in [Sessions -> BOOLEAN]
    BY <1>10 DEF Leave, Stays, Owns, TypeOK
  <2> QED
    BY <1>10, <2>1, <2>2, <2>3 DEF Leave, TypeOK, linkVars
<1>11. ASSUME NEW c \in Conns, BrowserLeaves(c) PROVE TypeOK'
  BY <1>11 DEF BrowserLeaves, TypeOK, sessionVars, linkVars
<1>12. CASE RobotConnects \/ LinkBreaks \/ RobotUnregisters
  <2>1. /\ link' \in 0 .. MaxLinks /\ links' \in 0 .. MaxLinks
        /\ wire' \in Motion
    BY <1>12, LinksAssumption DEF RobotConnects, LinkBreaks, RobotUnregisters, TypeOK, Motion
  <2>2. linkDead' \in BOOLEAN
    BY <1>12, Zenon DEF RobotConnects, LinkBreaks, RobotUnregisters
  <2> QED
    BY <1>12, <2>1, <2>2 DEF RobotConnects, LinkBreaks, RobotUnregisters, TypeOK, sessionVars,
       handlerVars
<1>13. CASE UNCHANGED vars
  BY <1>13 DEF vars, TypeOK
<1> QED
  BY <1>1, <1>2, <1>3, <1>4, <1>5, <1>6, <1>7, <1>8, <1>9, <1>10, <1>11, <1>12, <1>13
  DEF Next, Enders, Handler

-----------------------------------------------------------------------------
(* The invariant, one kind of step at a time.                              *)

\* A task that waits in the queue goes on waiting there.
LEMMA EntriesKept ==
  ASSUME TypeOK, links' \in Nat, links <= links',
         NEW m \in Sends, Entry(m),
         m.task \in Conns /\ pc[m.task] \in Waiting => pc'[m.task] = pc[m.task],
         m.task \in Sessions /\ ender[m.task] \in {"cancelling", "stopping"} =>
           ender'[m.task] = ender[m.task]
  PROVE  Entry(m)'
<1>1. m.to <= links'
  BY LinksAssumption DEF Entry, Sends, TypeOK
<1>2. m.task \in Conns => pc'[m.task] \in {"forwarding", "requesting", "leaving"}
  BY DEF Entry, Waiting
<1>3. m.task \in Sessions =>
       /\ m.session = m.task
       /\ \/ m.kind = "cancel" /\ ender'[m.task] = "cancelling"
          \/ m.kind = "stop" /\ ender'[m.task] = "stopping"
  BY DEF Entry
<1> QED
  BY <1>1, <1>2, <1>3 DEF Entry

\* The messages of the new queue come from the old one or are in order.
LEMMA QueueKept ==
  ASSUME \A i \in DOMAIN sendQ' : \E m \in Sends : m = sendQ'[i] /\ Entry(m)',
         \A i, j \in DOMAIN sendQ' : sendQ'[j].task = sendQ'[i].task => j = i
  PROVE  QueueInv'
<1>1. ASSUME NEW i \in DOMAIN sendQ'
      PROVE  Entry(sendQ[i])'
  <2>1. PICK m \in Sends : m = sendQ'[i] /\ Entry(m)'
    OBVIOUS
  <2> QED
    BY <2>1 DEF Entry
<1> QED
  BY <1>1 DEF QueueInv

\* Steps that leave the queue and the link alone.
LEMMA QuietStep ==
  ASSUME TypeOK, RelayInv,
         UNCHANGED <<sendQ, link, links, linkDead, wire>>,
         \A c \in Conns : pc[c] \in Waiting => pc'[c] = pc[c],
         \A s \in Sessions :
           \/ ender'[s] = ender[s]
           \/ ender[s] \notin {"cancelling", "stopping"} /\ ender'[s] \in {"scheduled"}
           \/ ender[s] \in {"none", "scheduled"} /\ ender'[s] = "notifying" /\ link = 0
           \/ ender[s] \in {"notifying", "closing"} /\ ender'[s] \in {"closing", "done"},
         \A s \in Sessions : ender'[s] # "none" => status'[s] = "ended"
  PROVE  RelayInv'
<1>1. QueueInv'
  <2>1. \A i \in DOMAIN sendQ : sendQ[i] \in Sends /\ Entry(sendQ[i])
    BY QueueTypes DEF RelayInv, QueueInv
  <2>2. links' \in Nat /\ links <= links'
    BY LinksAssumption DEF TypeOK
  <2>3. \A m \in Sends : Entry(m) => Entry(m)'
    BY <2>2, EntriesKept
  <2> QED
    BY <2>1, <2>3, QueueKept DEF RelayInv, QueueInv
<1>2. LinkInv' /\ EndInv'
  BY DEF RelayInv, LinkInv, EndInv
<1>3. StopInv'
  <2> SUFFICES ASSUME NEW s \in Sessions, ender'[s] = "stopping",
                      NEW i \in DOMAIN sendQ, sendQ[i].task = s
               PROVE  /\ \A j \in DOMAIN sendQ : LiveVelocity(j, s)' => j < i /\ sendQ[i].to = link
                      /\ Moving' /\ wire'.session = s => sendQ[i].to = link
    BY DEF StopInv
  <2>1. ender[s] = "stopping"
    OBVIOUS
  <2> QED
    BY <2>1 DEF RelayInv, StopInv, LiveVelocity, Moving, NoLink
<1>4. StopIsLastWord'
  <2> SUFFICES ASSUME NEW s \in Sessions, ender'[s] \in {"notifying", "closing", "done"}
               PROVE  /\ Moving => wire.session # s
                      /\ \A i \in 1 .. Len(sendQ) :
                           sendQ[i].kind = "velocity" /\ sendQ[i].session = s => sendQ[i].to # link
    BY DEF StopIsLastWord, Moving, NoLink
  <2>1. CASE link = 0
    BY <2>1, QueueTypes DEF Moving, NoLink, Sends
  <2>2. CASE ender[s] \in {"notifying", "closing", "done"}
    BY <2>2 DEF RelayInv, StopIsLastWord
  <2> QED
    BY <2>1, <2>2
<1> QED
  BY <1>1, <1>2, <1>3, <1>4 DEF RelayInv

\* Steps that put a message behind the others.
LEMMA AppendStep ==
  ASSUME TypeOK, RelayInv, NEW m \in Sends, m.to = link, link # 0,
         sendQ' = Append(sendQ, m),
         UNCHANGED <<link, links, linkDead, wire>>,
         Entry(m)',
         \A i \in DOMAIN sendQ : sendQ[i].task # m.task,
         \A c \in Conns : pc[c] \in Waiting => pc'[c] = pc[c],
         \A s \in Sessions :
           \/ ender'[s] = ender[s]
           \/ ender[s] \in {"none", "scheduled"} /\ ender'[s] = "cancelling",
         \A s \in Sessions : ender'[s] # "none" => status'[s] = "ended",
         m.kind = "velocity" => ender[m.session] = "none",
         m.task \in Sessions => ender'[m.task] = "cancelling"
  PROVE  RelayInv'
<1>1. /\ DOMAIN sendQ' = 1 .. Len(sendQ) + 1 /\ DOMAIN sendQ = 1 .. Len(sendQ)
      /\ Len(sendQ) \in Nat /\ Len(sendQ') = Len(sendQ) + 1
      /\ \A i \in 1 .. Len(sendQ) : sendQ'[i] = sendQ[i]
      /\ sendQ'[Len(sendQ) + 1] = m
  BY QueueTypes, AppendEntries
<1>2. QueueInv'
  <2>1. \A i \in DOMAIN sendQ : sendQ[i] \in Sends /\ Entry(sendQ[i])
    BY QueueTypes DEF RelayInv, QueueInv
  <2>2. links' \in Nat /\ links <= links'
    BY LinksAssumption DEF TypeOK
  <2>3. \A n \in Sends : Entry(n) => Entry(n)'
    BY <2>2, EntriesKept
  <2>4. \A i \in DOMAIN sendQ' : \E n \in Sends : n = sendQ'[i] /\ Entry(n)'
    BY <1>1, <2>1, <2>3
  <2>5. \A i, j \in DOMAIN sendQ' : sendQ'[j].task = sendQ'[i].task => j = i
    BY <1>1 DEF RelayInv, QueueInv
  <2> QED
    BY <2>4, <2>5, QueueKept
<1>3. LinkInv' /\ EndInv'
  BY DEF RelayInv, LinkInv, EndInv
<1>4. StopInv'
  <2> SUFFICES ASSUME NEW s \in Sessions, ender'[s] = "stopping",
                      NEW i \in DOMAIN sendQ', sendQ'[i].task = s
               PROVE  /\ \A j \in DOMAIN sendQ' : LiveVelocity(j, s)' => j < i /\ sendQ'[i].to = link
                      /\ Moving' /\ wire'.session = s => sendQ'[i].to = link
    BY DEF StopInv
  <2>1. ender[s] = "stopping"
    OBVIOUS
  <2>2. i \in DOMAIN sendQ /\ sendQ'[i] = sendQ[i]
    BY <1>1
  <2>3. Moving' <=> Moving
    BY DEF Moving, NoLink
  <2>4. \A j \in DOMAIN sendQ' : LiveVelocity(j, s)' => j \in DOMAIN sendQ /\ LiveVelocity(j, s)
    BY <1>1, <2>1 DEF LiveVelocity
  <2> QED
    BY <2>1, <2>2, <2>3, <2>4 DEF RelayInv, StopInv
<1>5. StopIsLastWord'
  <2> SUFFICES ASSUME NEW s \in Sessions, ender'[s] \in {"notifying", "closing", "done"}
               PROVE  /\ Moving => wire.session # s
                      /\ \A i \in 1 .. Len(sendQ') :
                           sendQ'[i].kind = "velocity" /\ sendQ'[i].session = s => sendQ'[i].to # link
    BY DEF StopIsLastWord, Moving, NoLink
  <2>1. ender[s] \in {"notifying", "closing", "done"}
    OBVIOUS
  <2> QED
    BY <1>1, <2>1 DEF RelayInv, StopIsLastWord
<1> QED
  BY <1>2, <1>3, <1>4, <1>5 DEF RelayInv

\* The head of the queue goes; its task goes on.
LEMMA TransmitStep ==
  ASSUME TypeOK, RelayInv, Transmit
  PROVE  RelayInv'
<1> DEFINE h == Head(sendQ)
<1> DEFINE n == Len(sendQ)
<1>1. /\ sendQ # <<>> /\ Entry(h) /\ h \in Sends
      /\ wire' = wire \/ (h.to = link /\ wire' = [kind |-> h.kind, session |-> h.session])
      /\ UNCHANGED <<status, link, links, linkDead>>
  BY TransmitCases DEF RelayInv, Delivered
<1>2. /\ n \in Nat /\ n >= 1 /\ DOMAIN sendQ = 1 .. n /\ 1 \in DOMAIN sendQ /\ h = sendQ[1]
      /\ Tail(sendQ) \in Seq(Sends) /\ Len(Tail(sendQ)) = n - 1
      /\ DOMAIN Tail(sendQ) = 1 .. n - 1
      /\ \A i \in 1 .. n - 1 : Tail(sendQ)[i] = sendQ[i + 1]
  BY <1>1, TailEntries, QueueTypes
<1>3. \A i \in DOMAIN sendQ : /\ sendQ[i] \in Sends /\ Entry(sendQ[i])
                              /\ sendQ[i].task = h.task => i = 1
  BY <1>2, QueueTypes DEF RelayInv, QueueInv
<1>4. links \in Nat /\ links' \in Nat /\ links <= links'
  BY <1>1, LinksAssumption DEF TypeOK
<1> HIDE DEF h, n
<1>5. CASE h.task \in Conns
  <2>1. HandlerGoesOn(h.task) /\ sendQ' = Tail(sendQ) /\ UNCHANGED ender
    BY <1>1, <1>5, TransmitCases, TaskAssumption DEF RelayInv, h
  <2>2. PICK to \in {"acking", "awaiting", "done"} : pc' = [pc EXCEPT ![h.task] = to]
    BY <1>1, <1>5, <2>1, HandlerPc DEF Entry
  <2>3. QueueInv'
    <3>1. \A m \in Sends : Entry(m) /\ m.task # h.task => Entry(m)'
      BY <1>4, <2>1, <2>2, EntriesKept DEF TypeOK
    <3>2. \A i \in DOMAIN sendQ' : \E m \in Sends : m = sendQ'[i] /\ Entry(m)'
      BY <1>2, <1>3, <2>1, <3>1
    <3>3. \A i, j \in DOMAIN sendQ' : sendQ'[j].task = sendQ'[i].task => j = i
      BY <1>2, <2>1 DEF RelayInv, QueueInv
    <3> QED
      BY <3>2, <3>3, QueueKept
  <2>4. StopInv'
    <3> SUFFICES ASSUME NEW s \in Sessions, ender[s] = "stopping",
                        NEW i \in DOMAIN sendQ', sendQ'[i].task = s
                 PROVE  /\ \A j \in DOMAIN sendQ' : LiveVelocity(j, s)' => j < i /\ sendQ'[i].to = link
                        /\ Moving' /\ wire'.session = s => sendQ'[i].to = link
      BY <1>1, <2>1 DEF StopInv
    <3>1. i \in 1 .. n - 1 /\ i + 1 \in DOMAIN sendQ /\ sendQ'[i] = sendQ[i + 1]
      BY <1>2, <2>1
    <3>2. \A j \in DOMAIN sendQ : LiveVelocity(j, s) => j < i + 1 /\ sendQ[i + 1].to = link
      BY <3>1 DEF RelayInv, StopInv
    <3>3. Moving /\ wire.session = s => sendQ[i + 1].to = link
      BY <3>1 DEF RelayInv, StopInv
    <3>4. ASSUME NEW j \in DOMAIN sendQ', LiveVelocity(j, s)'
          PROVE  j < i /\ sendQ'[i].to = link
      <4>1. j \in 1 .. n - 1 /\ j + 1 \in DOMAIN sendQ /\ sendQ'[j] = sendQ[j + 1]
        BY <1>2, <2>1
      <4>2. LiveVelocity(j + 1, s)
        BY <1>1, <3>4, <4>1 DEF LiveVelocity
      <4> QED
        BY <1>2, <3>1, <3>2, <4>1, <4>2
    <3>5. ASSUME Moving', wire'.session = s
          PROVE  sendQ'[i].to = link
      <4>1. CASE wire' = wire
        BY <1>1, <3>1, <3>3, <3>5, <4>1 DEF Moving, NoLink
      <4>2. CASE h.to = link /\ wire' = [kind |-> h.kind, session |-> h.session]
        BY <1>2, <3>1, <3>2, <3>5, <4>2 DEF Moving, LiveVelocity
      <4> QED
        BY <1>1, <4>1, <4>2
    <3> QED
      BY <3>4, <3>5
  <2>5. StopIsLastWord'
    <3> SUFFICES ASSUME NEW s \in Sessions, ender[s] \in {"notifying", "closing", "done"}
                 PROVE  /\ Moving' => wire'.session # s
                        /\ \A i \in 1 .. Len(sendQ') :
                             sendQ'[i].kind = "velocity" /\ sendQ'[i].session = s => sendQ'[i].to # link
      BY <1>1, <2>1 DEF StopIsLastWord
    <3>1. \A i \in DOMAIN sendQ : ~LiveVelocity(i, s)
      BY <1>2 DEF RelayInv, StopIsLastWord, LiveVelocity, n
    <3>2. Moving => wire.session # s
      BY DEF RelayInv, StopIsLastWord
    <3>3. Moving' => wire'.session # s
      BY <1>1, <1>2, <3>1, <3>2 DEF Moving, NoLink, LiveVelocity
    <3> QED
      BY <1>2, <2>1, <3>1, <3>3 DEF LiveVelocity
  <2> QED
    BY <1>1, <2>1, <2>3, <2>4, <2>5 DEF RelayInv, LinkInv, EndInv
<1>6. CASE h.task \in Sessions
  <2>1. EnderGoesOn(h) /\ UNCHANGED pc
    BY <1>1, <1>6, TransmitCases, TaskAssumption DEF RelayInv, h
  <2> DEFINE s0 == h.task
  <2>2. s0 \in Sessions /\ h.session = s0 /\ h.kind \in {"cancel", "stop"}
          /\ ender[s0] \in {"cancelling", "stopping"}
    BY <1>1, <1>6 DEF Entry
  <2>3. \/ /\ h.kind = "cancel" /\ link # 0
           /\ ender' = [ender EXCEPT ![s0] = "stopping"]
           /\ \E m \in Sends : /\ m.kind = "stop" /\ m.to = link
                               /\ m.session = s0 /\ m.task = s0
                               /\ sendQ' = Append(Tail(sendQ), m)
        \/ /\ (h.kind = "stop" /\ ender[s0] = "stopping") \/ link = 0
           /\ ender' = [ender EXCEPT ![s0] = "notifying"]
           /\ sendQ' = Tail(sendQ)
    BY <1>1, <1>6, <2>1, <2>2, EnderCases DEF RelayInv, h
  <2> HIDE DEF s0
  <2>4. \A m \in Sends : Entry(m) /\ m.task # s0 => Entry(m)'
    BY <1>4, <2>1, <2>2, <2>3, EntriesKept DEF TypeOK
  <2>5. EndInv' /\ LinkInv'
    BY <1>1, <2>2, <2>3 DEF RelayInv, EndInv, LinkInv, TypeOK
  <2>6. \A s \in Sessions : s # s0 => ender'[s] = ender[s]
    BY <2>3 DEF TypeOK
  <2>7. Moving' => Moving /\ wire' = wire
    BY <1>1, <2>2 DEF Moving, NoLink
  <2>8. \A s \in Sessions : ender[s] \in {"notifying", "closing", "done"} =>
          /\ Moving' => wire'.session # s
          /\ \A i \in DOMAIN sendQ : ~LiveVelocity(i, s)
    BY <1>2, <2>7 DEF RelayInv, StopIsLastWord, LiveVelocity, n
  <2>9. CASE h.kind = "cancel" /\ link # 0 /\ ender' = [ender EXCEPT ![s0] = "stopping"]
             /\ \E m \in Sends : /\ m.kind = "stop" /\ m.to = link
                                 /\ m.session = s0 /\ m.task = s0
                                 /\ sendQ' = Append(Tail(sendQ), m)
    <3>1. PICK m \in Sends : /\ m.kind = "stop" /\ m.to = link /\ m.session = s0
                             /\ m.task = s0 /\ sendQ' = Append(Tail(sendQ), m)
      BY <2>9
    <3>2. /\ DOMAIN sendQ' = 1 .. n /\ Len(sendQ') = n
          /\ \A i \in 1 .. n - 1 : i + 1 \in DOMAIN sendQ /\ sendQ'[i] = sendQ[i + 1]
          /\ sendQ'[n] = m
      BY <1>2, <3>1, AppendEntries
    <3>3. \A i \in DOMAIN sendQ' : i = n \/ (i \in 1 .. n - 1 /\ sendQ'[i].task # s0)
      BY <1>2, <1>3, <3>2 DEF s0
    <3>4. QueueInv'
      <4>1. ender'[s0] = "stopping"
        BY <2>2, <2>9 DEF TypeOK
      <4>2. Entry(m)'
        BY <1>1, <2>2, <3>1, <4>1, TaskAssumption, LinksAssumption DEF Entry, RelayInv, LinkInv, TypeOK
      <4>3. \A i \in DOMAIN sendQ' : \E k \in Sends : k = sendQ'[i] /\ Entry(k)'
        BY <1>2, <1>3, <2>4, <3>2, <3>3, <4>2
      <4>4. \A i, j \in DOMAIN sendQ' : sendQ'[j].task = sendQ'[i].task => j = i
        BY <1>2, <3>1, <3>2, <3>3 DEF RelayInv, QueueInv
      <4> QED
        BY <4>3, <4>4, QueueKept
    <3>5. StopInv'
      <4> SUFFICES ASSUME NEW s \in Sessions, ender'[s] = "stopping",
                          NEW i \in DOMAIN sendQ', sendQ'[i].task = s
                   PROVE  /\ \A j \in DOMAIN sendQ' : LiveVelocity(j, s)' => j < i /\ sendQ'[i].to = link
                          /\ Moving' /\ wire'.session = s => sendQ'[i].to = link
        BY <1>1 DEF StopInv
      <4>1. CASE s = s0
        BY <1>2, <3>1, <3>2, <3>3, <4>1 DEF LiveVelocity
      <4>2. CASE s # s0
        <5>1. ender[s] = "stopping" /\ i \in 1 .. n - 1 /\ i + 1 \in DOMAIN sendQ
                /\ sendQ'[i] = sendQ[i + 1]
          BY <2>6, <3>1, <3>2, <3>3, <4>2
        <5>2. \A j \in DOMAIN sendQ : LiveVelocity(j, s) => j < i + 1 /\ sendQ[i + 1].to = link
          BY <5>1 DEF RelayInv, StopInv
        <5>3. Moving' /\ wire'.session = s => sendQ'[i].to = link
          BY <2>7, <5>1 DEF RelayInv, StopInv
        <5>4. ASSUME NEW j \in DOMAIN sendQ', LiveVelocity(j, s)'
              PROVE  j < i /\ sendQ'[i].to = link
          <6>1. j \in 1 .. n - 1 /\ j + 1 \in DOMAIN sendQ /\ sendQ'[j] = sendQ[j + 1]
            BY <3>1, <3>2, <3>3, <5>4 DEF LiveVelocity
          <6>2. LiveVelocity(j + 1, s)
            BY <1>1, <5>4, <6>1 DEF LiveVelocity
          <6> QED
            BY <1>2, <5>1, <5>2, <6>1, <6>2
        <5> QED
          BY <5>3, <5>4
      <4> QED
        BY <4>1, <4>2
    <3>6. StopIsLastWord'
      <4> SUFFICES ASSUME NEW s \in Sessions, ender'[s] \in {"notifying", "closing", "done"}
                   PROVE  /\ Moving' => wire'.session # s
                          /\ \A i \in 1 .. Len(sendQ') :
                               sendQ'[i].kind = "velocity" /\ sendQ'[i].session = s => sendQ'[i].to # link
        BY <1>1 DEF StopIsLastWord
      <4>1. ender[s] \in {"notifying", "closing", "done"}
        BY <2>2, <2>6, <2>9 DEF TypeOK
      <4> QED
        BY <1>2, <2>8, <3>1, <3>2, <4>1 DEF LiveVelocity
    <3> QED
      BY <2>5, <3>4, <3>5, <3>6 DEF RelayInv
  <2>10. CASE /\ (h.kind = "stop" /\ ender[s0] = "stopping") \/ link = 0
              /\ ender' = [ender EXCEPT ![s0] = "notifying"]
              /\ sendQ' = Tail(sendQ)
    <3>1. /\ DOMAIN sendQ' = 1 .. n - 1 /\ Len(sendQ') = n - 1
          /\ \A i \in 1 .. n - 1 : i + 1 \in DOMAIN sendQ /\ sendQ'[i] = sendQ[i + 1]
      BY <1>2, <2>10
    <3>2. ender'[s0] = "notifying"
      BY <2>2, <2>10 DEF TypeOK
    <3>3. QueueInv'
      <4>1. \A i \in DOMAIN sendQ' : \E k \in Sends : k = sendQ'[i] /\ Entry(k)'
        BY <1>2, <1>3, <2>4, <3>1 DEF s0
      <4>2. ASSUME NEW i \in DOMAIN sendQ', NEW j \in DOMAIN sendQ', sendQ'[j].task = sendQ'[i].task
            PROVE  j = i
        <5>1. i \in 1 .. n - 1 /\ j \in 1 .. n - 1 /\ sendQ[j + 1].task = sendQ[i + 1].task
          BY <3>1, <4>2
        <5>2. j + 1 = i + 1
          BY <3>1, <5>1 DEF RelayInv, QueueInv
        <5> QED
          BY <1>2, <5>1, <5>2
      <4> QED
        BY <4>1, <4>2, QueueKept
    <3>4. StopInv'
      <4> SUFFICES ASSUME NEW s \in Sessions, ender'[s] = "stopping",
                          NEW i \in DOMAIN sendQ', sendQ'[i].task = s
                   PROVE  /\ \A j \in DOMAIN sendQ' : LiveVelocity(j, s)' => j < i /\ sendQ'[i].to = link
                          /\ Moving' /\ wire'.session = s => sendQ'[i].to = link
        BY <1>1 DEF StopInv
      <4>1. ender[s] = "stopping" /\ i \in 1 .. n - 1 /\ i + 1 \in DOMAIN sendQ
              /\ sendQ'[i] = sendQ[i + 1]
        BY <2>6, <3>1, <3>2
      <4>2. \A j \in DOMAIN sendQ : LiveVelocity(j, s) => j < i + 1 /\ sendQ[i + 1].to = link
        BY <4>1 DEF RelayInv, StopInv
      <4>3. Moving' /\ wire'.session = s => sendQ'[i].to = link
        BY <2>7, <4>1 DEF RelayInv, StopInv
      <4>4. ASSUME NEW j \in DOMAIN sendQ', LiveVelocity(j, s)'
            PROVE  j < i /\ sendQ'[i].to = link
        <5>1. j \in 1 .. n - 1 /\ j + 1 \in DOMAIN sendQ /\ sendQ'[j] = sendQ[j + 1]
          BY <3>1
        <5>2. LiveVelocity(j + 1, s)
          BY <1>1, <4>4, <5>1 DEF LiveVelocity
        <5> QED
          BY <1>2, <4>1, <4>2, <5>1, <5>2
      <4> QED
        BY <4>3, <4>4
    <3>5. (Moving' => wire'.session # s0) /\ \A i \in DOMAIN sendQ : ~LiveVelocity(i, s0)
      <4>1. CASE link = 0
        BY <1>1, <1>3, <4>1 DEF Moving, NoLink, LiveVelocity, Sends
      <4>2. CASE h.kind = "stop" /\ ender[s0] = "stopping" /\ link # 0
        <5>1. /\ \A j \in DOMAIN sendQ : LiveVelocity(j, s0) => j < 1
              /\ Moving /\ wire.session = s0 => h.to = link
          BY <1>2, <2>2, <4>2 DEF RelayInv, StopInv, s0
        <5>2. ASSUME Moving', wire'.session = s0
              PROVE  FALSE
          <6>1. Moving /\ wire.session = s0 /\ wire' = wire /\ ~linkDead /\ h.to = link
            BY <2>7, <5>1, <5>2 DEF Moving
          <6>2. wire' = [kind |-> h.kind, session |-> h.session]
            BY <1>1, <4>2, <6>1, TransmitCases DEF RelayInv, Delivered, h
          <6> QED
            BY <4>2, <5>2, <6>2 DEF Moving
        <5> QED
          BY <1>2, <5>1, <5>2
      <4> QED
        BY <2>10, <4>1, <4>2
    <3>6. StopIsLastWord'
      <4> SUFFICES ASSUME NEW s \in Sessions, ender'[s] \in {"notifying", "closing", "done"}
                   PROVE  /\ Moving' => wire'.session # s
                          /\ \A i \in 1 .. Len(sendQ') :
                               sendQ'[i].kind = "velocity" /\ sendQ'[i].session = s => sendQ'[i].to # link
        BY <1>1 DEF StopIsLastWord
      <4>1. (Moving' => wire'.session # s) /\ \A i \in DOMAIN sendQ : ~LiveVelocity(i, s)
        BY <2>6, <2>8, <3>5
      <4> QED
        BY <1>2, <3>1, <4>1 DEF LiveVelocity
    <3> QED
      BY <2>5, <3>3, <3>4, <3>6 DEF RelayInv
  <2> QED
    BY <2>3, <2>9, <2>10
<1> QED
  BY <1>1, <1>5, <1>6 DEF Sends

\* A new connection has a number that no waiting message knows; without one no
\* message is for it.
LEMMA LinkStep ==
  ASSUME TypeOK, RelayInv, RobotConnects \/ LinkBreaks \/ RobotUnregisters
  PROVE  RelayInv'
<1>1. UNCHANGED <<sendQ, pc, ender, status>>
  BY DEF RobotConnects, LinkBreaks, RobotUnregisters, sessionVars, handlerVars
<1>2. link \in Nat /\ links \in Nat /\ links' \in Nat /\ links <= links'
  BY LinksAssumption DEF RobotConnects, LinkBreaks, RobotUnregisters, TypeOK
<1>3. \A i \in DOMAIN sendQ : sendQ[i] \in Sends /\ Entry(sendQ[i])
  BY QueueTypes DEF RelayInv, QueueInv
<1>4. QueueInv'
  <2>1. \A m \in Sends : Entry(m) => Entry(m)'
    BY <1>1, <1>2, EntriesKept
  <2> QED
    BY <1>1, <1>3, <2>1, QueueKept DEF RelayInv, QueueInv
<1>5. LinkInv' /\ EndInv'
  BY <1>1 DEF RobotConnects, LinkBreaks, RobotUnregisters, RelayInv, LinkInv, EndInv
<1>6. \A i \in DOMAIN sendQ : \A s \in Sessions : LiveVelocity(i, s)' => LiveVelocity(i, s) /\ link' = link
  <2>1. ASSUME NEW i \in DOMAIN sendQ
        PROVE  sendQ[i].to \in Nat /\ sendQ[i].to >= 1 /\ sendQ[i].to <= links
    BY <1>3, LinksAssumption DEF Sends, Entry
  <2>2. link' = link \/ link' = 0 \/ link' = links + 1
    BY DEF RobotConnects, LinkBreaks, RobotUnregisters
  <2> QED
    BY <1>1, <1>2, <2>1, <2>2 DEF LiveVelocity
<1>7. Moving' => Moving /\ wire' = wire /\ link' = link
  BY DEF RobotConnects, LinkBreaks, RobotUnregisters, Moving, NoLink, Quiet
<1>8. StopInv'
  <2> SUFFICES ASSUME NEW s \in Sessions, ender[s] = "stopping",
                      NEW i \in DOMAIN sendQ, sendQ[i].task = s
               PROVE  /\ \A j \in DOMAIN sendQ : LiveVelocity(j, s)' => j < i /\ sendQ[i].to = link'
                      /\ Moving' /\ wire'.session = s => sendQ[i].to = link'
    BY <1>1 DEF StopInv
  <2> QED
    BY <1>6, <1>7 DEF RelayInv, StopInv
<1>9. StopIsLastWord'
  <2> SUFFICES ASSUME NEW s \in Sessions, ender[s] \in {"notifying", "closing", "done"}
               PROVE  /\ Moving' => wire'.session # s
                      /\ \A i \in 1 .. Len(sendQ) :
                           sendQ[i].kind = "velocity" /\ sendQ[i].session = s => sendQ[i].to # link'
    BY <1>1 DEF StopIsLastWord
  <2>1. /\ Moving => wire.session # s
        /\ \A i \in DOMAIN sendQ : ~LiveVelocity(i, s)
    BY QueueTypes DEF RelayInv, StopIsLastWord, LiveVelocity
  <2> QED
    BY <1>1, <1>6, <1>7, <2>1, QueueTypes DEF LiveVelocity
<1> QED
  BY <1>4, <1>5, <1>8, <1>9 DEF RelayInv

\* A task that is not in the queue yet puts its message there.
LEMMA ForwardStep ==
  ASSUME TypeOK, RelayInv, ~NoLink,
         NEW kind \in {"velocity", "stop", "cancel"}, NEW s \in Sessions,
         NEW t \in Conns \cup Sessions, Forward(kind, s, t),
         UNCHANGED <<link, links, linkDead, wire>>,
         t \in Conns => pc[t] \notin Waiting /\ pc'[t] \in Waiting /\ UNCHANGED ender
                           /\ (kind = "velocity" => Active(s)),
         t \in Sessions => /\ t = s /\ kind = "cancel" /\ ender[t] \in {"none", "scheduled"}
                           /\ ender' = [ender EXCEPT ![t] = "cancelling"]
                           /\ status'[s] = "ended" /\ UNCHANGED pc,
         \A c \in Conns : c # t => pc'[c] = pc[c],
         \A u \in Sessions : status[u] = "ended" => status'[u] = "ended"
  PROVE  RelayInv'
<1>1. PICK m \in Sends : /\ m.to = link /\ m.kind = kind /\ m.session = s /\ m.task = t
                         /\ sendQ' = Append(sendQ, m)
  BY ForwardIsSend DEF RelayInv
<1>2. link # 0 /\ link <= links
  BY LinksAssumption DEF NoLink, RelayInv, LinkInv, TypeOK
<1>3. Entry(m)'
  BY <1>1, <1>2, TaskAssumption DEF Entry, Waiting, TypeOK
<1>4. ASSUME NEW i \in DOMAIN sendQ
      PROVE  sendQ[i].task # t
  <2>1. Entry(sendQ[i])
    BY DEF RelayInv, QueueInv
  <2> QED
    BY <2>1, TaskAssumption DEF Entry, Waiting
<1>5. \A c \in Conns : pc[c] \in Waiting => pc'[c] = pc[c]
  BY TaskAssumption
<1>6. \A u \in Sessions :
        \/ ender'[u] = ender[u]
        \/ ender[u] \in {"none", "scheduled"} /\ ender'[u] = "cancelling"
  BY TaskAssumption DEF TypeOK
<1>7. \A u \in Sessions : ender'[u] # "none" => status'[u] = "ended"
  BY TaskAssumption DEF TypeOK, RelayInv, EndInv
<1>8. kind = "velocity" => ender[s] = "none"
  BY TaskAssumption DEF RelayInv, EndInv, Active
<1>9. t \in Sessions => ender'[t] = "cancelling"
  BY DEF TypeOK
<1> QED
  BY <1>1, <1>2, <1>3, <1>4, <1>5, <1>6, <1>7, <1>8, <1>9, AppendStep

-----------------------------------------------------------------------------
(* The step, the start and the theorems.                                   *)

LEMMA RelayStep ==
  ASSUME TypeOK, RelayInv, [Next]_vars
  PROVE  RelayInv'
<1>1. CASE Transmit
  BY <1>1, TransmitStep
<1>2. ASSUME NEW s \in Sessions, EndSession(s) \/ FinalizeExpired(s)
      PROVE  RelayInv'
  <2>1. /\ StartStopping(s) /\ UNCHANGED <<pc, link, links, linkDead, wire>>
        /\ ender[s] \in {"none", "scheduled"}
        /\ status' = [status EXCEPT ![s] = "ended"]
    BY <1>2 DEF EndSession, FinalizeExpired, Active, handlerVars, linkVars, RelayInv, EndInv, TypeOK
  <2>2. CASE NoLink
    BY <2>1, <2>2, QuietStep DEF StartStopping, NoLink, RelayInv, EndInv, TypeOK
  <2>3. CASE ~NoLink
    BY <2>1, <2>3, ForwardStep, TaskAssumption DEF StartStopping, TypeOK
  <2> QED
    BY <2>2, <2>3
<1>3. ASSUME NEW s \in Sessions, CreateSession(s) \/ ExpireSession(s)
      PROVE  RelayInv'
  BY <1>3, QuietStep DEF CreateSession, ExpireSession, Scheduled, Active, handlerVars, linkVars,
     RelayInv, EndInv, TypeOK
<1>4. ASSUME NEW s \in Sessions, Notify(s) \/ Notified(s)
      PROVE  RelayInv'
  BY <1>4, QuietStep DEF Notify, Notified, handlerVars, linkVars, RelayInv, EndInv, TypeOK
<1>5. ASSUME NEW c \in Conns,
             \/ Claim(c) \/ Refuse(c) \/ OldClosed(c) \/ SendReady(c) \/ Reject(c)
             \/ Answered(c) \/ Ack(c) \/ BrowserLeaves(c)
      PROVE  RelayInv'
  <2>1. /\ UNCHANGED <<status, ender, sendQ, link, links, linkDead, wire>>
        /\ \A d \in Conns : pc[d] \in Waiting => pc'[d] = pc[d]
    BY <1>5 DEF Claim, Refuse, OldClosed, SendReady, Reject, Answered, AnswerOrTimeout, Ack,
       BrowserLeaves, Waiting, sessionVars, linkVars, TypeOK
  <2> QED
    BY <2>1, QuietStep DEF RelayInv, EndInv
<1>6. ASSUME NEW c \in Conns, Accept(c) \/ Leave(c)
      PROVE  RelayInv'
  <2>1. /\ sess[c] \in Sessions /\ pc[c] \in {"loop", "acking"}
        /\ UNCHANGED <<status, ender, link, links, linkDead, wire>>
        /\ \A d \in Conns : d # c => pc'[d] = pc[d]
    BY <1>6 DEF Accept, Leave, linkVars, TypeOK
  <2>2. CASE UNCHANGED sendQ
    BY <2>1, <2>2, QuietStep DEF RelayInv, EndInv, Waiting
  <2>3. CASE /\ ~NoLink
             /\ pc'[c] \in Waiting
             /\ \/ Active(sess[c]) /\ Forward("velocity", sess[c], c)
                \/ Forward("stop", sess[c], c)
    BY <2>1, <2>3, ForwardStep, TaskAssumption DEF Waiting
  <2> QED
    BY <1>6, <2>2, <2>3 DEF Accept, MayAccept, Leave, Waiting, TypeOK
<1>7. CASE RobotConnects \/ LinkBreaks \/ RobotUnregisters
  BY <1>7, LinkStep
<1>8. CASE UNCHANGED vars
  BY <1>8, QuietStep DEF vars, RelayInv, EndInv
<1> QED
  BY <1>1, <1>2, <1>3, <1>4, <1>5, <1>6, <1>7, <1>8 DEF Next, Enders, Handler

LEMMA Initially == Init => TypeOK /\ RelayInv
<1> SUFFICES ASSUME Init PROVE TypeOK /\ RelayInv
  OBVIOUS
<1>1. TypeOK
  <2>1. link \in 0 .. MaxLinks /\ links \in 0 .. MaxLinks /\ sendQ \in Seq(Sends)
    BY LinksAssumption DEF Init
  <2> QED
    BY <2>1 DEF Init, TypeOK, Motion
<1>2. RelayInv
  BY DEF Init, RelayInv, QueueInv, LinkInv, EndInv, StopInv, StopIsLastWord, Moving, Quiet
<1> QED
  BY <1>1, <1>2

LEMMA RelayHolds == Spec => [](TypeOK /\ RelayInv)
<1>1. TypeOK /\ RelayInv /\ [Next]_vars => TypeOK' /\ RelayInv'
  BY TypeStep, RelayStep DEF RelayInv
<1> QED
  BY <1>1, Initially, PTL DEF Spec

\* Every variable of the relay keeps its type, for every number of sessions,
\* tabs and connections: no task of user_control or stop_session_robot gets to a
\* step, and no message into the queue of a send lock, that the code does not know.
THEOREM TypeCorrect == Spec => []TypeOK
<1>1. TypeOK /\ RelayInv => TypeOK
  OBVIOUS
<1> QED
  BY <1>1, RelayHolds, PTL

\* Once stop_session_robot has sent the stop of an ended session, no velocity of
\* that session is the last motion message of the robot's connection or waits for
\* its send lock, whichever handlers, replaced tabs and robot connections were
\* under way when the session ended.
THEOREM StopIsLast == Spec => []StopIsLastWord
<1>1. TypeOK /\ RelayInv => StopIsLastWord
  BY DEF RelayInv
<1> QED
  BY <1>1, RelayHolds, PTL

-----------------------------------------------------------------------------
(* Who answers for a robot that moves.                                     *)

\* A handler that has claimed its session and not left it yet.
Listening == {"closingOld", "ready", "loop", "forwarding", "requesting", "awaiting", "acking"}

\* A session that has not begun has no controller; one that has ended, an ending task.
SessionInv ==
  /\ \A s \in Sessions : status[s] = "none" => ~connected[s] /\ controller[s] = NoConn
  /\ \A c \in Conns : pc[c] # "new" => status[sess[c]] # "none"
  /\ \A s \in Sessions : status[s] = "ended" => ender[s] # "none"

\* ListenerIsRegistered, from the moment the session is claimed.
ListenInv ==
  \A c \in Conns : pc[c] \in Listening /\ sock[c] = "open" /\ Active(sess[c]) => Registered(c) = c

\* A velocity waits with the handler that accepted it.
VelocityInv ==
  \A i \in DOMAIN sendQ : sendQ[i].kind = "velocity" =>
    /\ sendQ[i].task \in Conns
    /\ sess[sendQ[i].task] = sendQ[i].session
    /\ pc[sendQ[i].task] = "forwarding"

\* The messages wait in the order of the connections they are for: none for an
\* older one waits once a velocity has gone out on the present one.
OrderInv ==
  /\ \A i, j \in DOMAIN sendQ : i <= j => sendQ[i].to <= sendQ[j].to
  /\ Moving => \A i \in DOMAIN sendQ : sendQ[i].to = link

\* MotionHasOwner in the words of the flag: a robot that moves has a session with a
\* connected controller, or a stop is coming.
FlagOwned ==
  Moving =>
    \/ Active(wire.session) /\ connected[wire.session]
    \/ StopComing(wire.session)

\* The registered controller of a session is one of its own handlers, which has not
\* left; it may have died of its control.ready.
RegisteredInv ==
  \A s \in Sessions, c \in Conns :
    controller[s] = c => sess[c] = s /\ pc[c] \in Listening \cup {"dead"}

\* The inductive invariant of MotionHasOwner.
OwnerInv ==
  /\ SessionInv
  /\ FlagFollowsSocket
  /\ ListenInv
  /\ VelocityInv
  /\ OrderInv
  /\ FlagOwned
  /\ RegisteredInv

\* A handler that still reads a replaced socket has a successor that waits for
\* the socket's close handshake.
ReplacedInv ==
  \A d \in Conns : pc[d] \in Listening /\ sock[d] # "closed" /\ Active(sess[d]) =>
    \/ Registered(d) = d
    \/ \E e \in Conns : pc[e] = "closingOld" /\ old[e] = d /\ sess[e] = sess[d]

\* OwnSequence, from the moment the controller is ready.
SequenceInv ==
  \A c \in Conns :
    /\ pc[c] \in Listening \ {"closingOld"}
    /\ Registered(c) = c
    /\ \A d \in Conns : ~(pc[d] = "closingOld" /\ sess[d] = sess[c])
    => lastFrom[sess[c]] \in {NoConn, c}

\* What a step leaves of a session's life.
Lives ==
  /\ \A s \in Sessions : status'[s] = "none" => status[s] = "none"
  /\ \A s \in Sessions : status[s] = "ended" => status'[s] = "ended"
  /\ \A s \in Sessions : ender[s] # "none" => ender'[s] # "none"
  /\ \A s \in Sessions : status'[s] = "ended" => status[s] = "ended" \/ ender'[s] # "none"

\* A session only ever goes on, and so does its ending task.
LEMMA LivesGoOn ==
  ASSUME TypeOK, RelayInv, [Next]_vars
  PROVE  Lives /\ sess' = sess
<1>1. CASE Transmit
  <2>1. UNCHANGED <<status, sess>>
    BY <1>1, TransmitCases DEF RelayInv
  <2>2. \A s \in Sessions : ender[s] # "none" => ender'[s] # "none"
    BY <1>1, TransmitCases, EnderCases DEF RelayInv, TypeOK
  <2> QED
    BY <2>1, <2>2 DEF Lives
<1>2. ASSUME NEW s \in Sessions,
             \/ CreateSession(s) \/ EndSession(s) \/ ExpireSession(s) \/ FinalizeExpired(s)
             \/ Notify(s) \/ Notified(s)
      PROVE  Lives /\ sess' = sess
  BY <1>2 DEF CreateSession, EndSession, ExpireSession, FinalizeExpired, Notify, Notified,
     StartStopping, Scheduled, Active, TypeOK, Lives, handlerVars
<1>3. ASSUME NEW c \in Conns,
             \/ Claim(c) \/ Refuse(c) \/ Accept(c) \/ Reject(c) \/ BrowserLeaves(c)
             \/ OldClosed(c) \/ SendReady(c) \/ Answered(c) \/ Ack(c) \/ Leave(c)
      PROVE  Lives /\ sess' = sess
  <2>1. UNCHANGED <<status, ender, sess>>
    BY <1>3 DEF Claim, Refuse, Accept, Reject, BrowserLeaves, OldClosed, SendReady, Answered,
       Ack, Leave, sessionVars
  <2> QED
    BY <2>1 DEF Lives
<1>4. CASE RobotConnects \/ LinkBreaks \/ RobotUnregisters \/ UNCHANGED vars
  BY <1>4 DEF RobotConnects, LinkBreaks, RobotUnregisters, vars, sessionVars, handlerVars, Lives
<1> QED
  BY <1>1, <1>2, <1>3, <1>4 DEF Next, Enders, Handler

\* The registered socket and the flag change in three places only.
LEMMA ControllerKept ==
  ASSUME TypeOK, RelayInv, [Next]_vars
  PROVE  \/ UNCHANGED <<controller, connected>>
         \/ \E s \in Sessions : Notified(s)
         \/ \E c \in Conns : Claim(c) \/ Leave(c)
<1>1. CASE Transmit
  BY <1>1 DEF Transmit
<1>2. ASSUME NEW s \in Sessions,
             \/ CreateSession(s) \/ EndSession(s) \/ ExpireSession(s) \/ FinalizeExpired(s)
             \/ Notify(s)
      PROVE  UNCHANGED <<controller, connected>>
  BY <1>2 DEF CreateSession, EndSession, ExpireSession, FinalizeExpired, Notify
<1>3. ASSUME NEW c \in Conns,
             \/ Refuse(c) \/ Accept(c) \/ Reject(c) \/ BrowserLeaves(c)
             \/ OldClosed(c) \/ SendReady(c) \/ Answered(c) \/ Ack(c)
      PROVE  UNCHANGED <<controller, connected>>
  BY <1>3 DEF Refuse, Accept, Reject, BrowserLeaves, OldClosed, SendReady, Answered, Ack,
     sessionVars
<1>4. CASE RobotConnects \/ LinkBreaks \/ RobotUnregisters \/ UNCHANGED vars
  BY <1>4 DEF RobotConnects, LinkBreaks, RobotUnregisters, vars, sessionVars
<1> QED
  BY <1>1, <1>2, <1>3, <1>4, Zenon DEF Next, Enders, Handler

\* Where the handlers go: the ways of each step.
LEMMA HandlersGoOn ==
  ASSUME TypeOK, RelayInv, [Next]_vars, NEW c \in Conns, pc'[c] # pc[c]
  PROVE  \/ Claim(c) \/ Refuse(c) \/ Accept(c) \/ Reject(c)
         \/ OldClosed(c) \/ SendReady(c) \/ Answered(c) \/ Ack(c) \/ Leave(c)
         \/ /\ Transmit /\ Head(sendQ).task = c
            /\ pc[c] \in Waiting
            /\ pc[c] = "leaving" => pc'[c] = "done"
            /\ pc[c] # "leaving" => pc'[c] \in {"acking", "awaiting"}
<1>1. CASE Transmit
  <2>1. /\ Head(sendQ).task \in Conns /\ HandlerGoesOn(Head(sendQ).task)
        /\ Entry(Head(sendQ))
    BY <1>1, TransmitCases DEF RelayInv
  <2>2. Head(sendQ).task = c /\ pc[c] \in Waiting
    BY <2>1 DEF HandlerGoesOn, Entry, TypeOK, Waiting
  <2>3. CASE pc[c] = "leaving"
    BY <1>1, <2>1, <2>2, <2>3 DEF HandlerGoesOn, TypeOK
  <2>4. CASE pc[c] = "forwarding"
    BY <1>1, <2>1, <2>2, <2>4 DEF HandlerGoesOn, TypeOK
  <2>5. CASE pc[c] = "requesting"
    BY <1>1, <2>1, <2>2, <2>5 DEF HandlerGoesOn, TypeOK
  <2> QED
    BY <2>2, <2>3, <2>4, <2>5 DEF Waiting
<1>2. ASSUME NEW s \in Sessions,
             \/ CreateSession(s) \/ EndSession(s) \/ ExpireSession(s) \/ FinalizeExpired(s)
             \/ Notify(s) \/ Notified(s)
      PROVE  FALSE
  BY <1>2 DEF CreateSession, EndSession, ExpireSession, FinalizeExpired, Notify, Notified,
     handlerVars
<1>3. ASSUME NEW d \in Conns,
             \/ Claim(d) \/ Refuse(d) \/ Accept(d) \/ Reject(d) \/ BrowserLeaves(d)
             \/ OldClosed(d) \/ SendReady(d) \/ Answered(d) \/ Ack(d) \/ Leave(d)
      PROVE  d = c /\ ~BrowserLeaves(d)
  BY <1>3 DEF Claim, Refuse, Accept, Reject, BrowserLeaves, OldClosed, SendReady, Answered,
     Ack, Leave, TypeOK
<1>4. CASE RobotConnects \/ LinkBreaks \/ RobotUnregisters \/ UNCHANGED vars
  BY <1>4 DEF RobotConnects, LinkBreaks, RobotUnregisters, vars, handlerVars
<1> QED
  BY <1>1, <1>2, <1>3, <1>4, Zenon DEF Next, Enders, Handler

LEMMA SessionStep ==
  ASSUME TypeOK, RelayInv, SessionInv, FlagFollowsSocket, [Next]_vars
  PROVE  SessionInv' /\ FlagFollowsSocket'
<1>1. Lives /\ sess' = sess
  BY LivesGoOn
<1>2. \A s \in Sessions : status'[s] = "none" => ~connected'[s] /\ controller'[s] = NoConn
  <2> SUFFICES ASSUME NEW s \in Sessions, status[s] = "none"
               PROVE  ~connected'[s] /\ controller'[s] = NoConn
    BY <1>1 DEF Lives
  <2>1. ASSUME NEW t \in Sessions, Notified(t) PROVE ~connected'[s] /\ controller'[s] = NoConn
    BY <2>1 DEF Notified, SessionInv, TypeOK
  <2>2. ASSUME NEW c \in Conns, Claim(c) \/ Leave(c)
        PROVE  ~connected'[s] /\ controller'[s] = NoConn
    <3>1. sess[c] # s
      BY <2>2 DEF Claim, Leave, Active, SessionInv
    <3> QED
      BY <2>2, <3>1 DEF Claim, Leave, SessionInv, TypeOK
  <2> QED
    BY <2>1, <2>2, ControllerKept DEF SessionInv
<1>3. \A c \in Conns : pc'[c] # "new" => status'[sess[c]] # "none"
  <2> SUFFICES ASSUME NEW c \in Conns, pc'[c] # "new", status[sess[c]] = "none" PROVE FALSE
    BY <1>1 DEF Lives, TypeOK
  <2>1. pc[c] = "new" /\ pc'[c] # pc[c]
    BY DEF SessionInv
  <2>2. Claim(c) \/ Refuse(c)
    BY <2>1, HandlersGoOn DEF Accept, Reject, OldClosed, SendReady, Answered, AnswerOrTimeout,
       Ack, Leave, Waiting
  <2> QED
    BY <2>2 DEF Claim, Refuse, Active
<1>4. \A s \in Sessions : status'[s] = "ended" => ender'[s] # "none"
  BY <1>1 DEF Lives, SessionInv
<1>5. ASSUME NEW s \in Sessions, status'[s] = "active"
      PROVE  connected'[s] <=> controller'[s] # NoConn
  <2>1. status[s] \in {"none", "active"}
    BY <1>1, <1>5 DEF Lives, TypeOK
  <2>2. connected[s] <=> controller[s] # NoConn
    BY <2>1 DEF SessionInv, FlagFollowsSocket, Active
  <2>3. ASSUME NEW t \in Sessions, Notified(t) PROVE connected'[s] <=> controller'[s] # NoConn
    <3>1. s # t
      BY <1>5, <2>1, <2>3 DEF Notified, RelayInv, EndInv
    <3> QED
      BY <2>2, <2>3, <3>1 DEF Notified, TypeOK
  <2>4. ASSUME NEW c \in Conns, Claim(c) PROVE connected'[s] <=> controller'[s] # NoConn
    BY <2>2, <2>4, NoConnAssumption DEF Claim, TypeOK
  <2>5. ASSUME NEW c \in Conns, Leave(c) PROVE connected'[s] <=> controller'[s] # NoConn
    <3>1. CASE s # sess[c]
      BY <2>2, <2>5, <3>1 DEF Leave, TypeOK
    <3>2. CASE s = sess[c]
      BY <2>2, <2>5, <3>2 DEF Leave, Stays, Owns, Registered, TypeOK
    <3> QED
      BY <3>1, <3>2
  <2> QED
    BY <2>2, <2>3, <2>4, <2>5, ControllerKept
<1>6. SessionInv'
  BY <1>1, <1>2, <1>3, <1>4 DEF SessionInv
<1>7. FlagFollowsSocket'
  BY <1>5 DEF FlagFollowsSocket, Active
<1> QED
  BY <1>6, <1>7

\* No socket opens again.
LEMMA SocketsClose ==
  ASSUME TypeOK, RelayInv, [Next]_vars, NEW c \in Conns
  PROVE  /\ sock[c] # "open" => sock'[c] # "open"
         /\ sock[c] = "closed" => sock'[c] = "closed"
<1>1. CASE Transmit
  BY <1>1 DEF Transmit
<1>2. ASSUME NEW s \in Sessions,
             \/ CreateSession(s) \/ EndSession(s) \/ ExpireSession(s) \/ FinalizeExpired(s)
             \/ Notify(s) \/ Notified(s)
      PROVE  sock'[c] = sock[c] \/ (sock[c] = "open" /\ sock'[c] = "closing")
  BY <1>2 DEF CreateSession, EndSession, ExpireSession, FinalizeExpired, Notify, Notified,
     handlerVars
<1>3. ASSUME NEW d \in Conns,
             \/ Claim(d) \/ Refuse(d) \/ Accept(d) \/ Reject(d) \/ BrowserLeaves(d)
             \/ OldClosed(d) \/ SendReady(d) \/ Answered(d) \/ Ack(d) \/ Leave(d)
      PROVE  \/ sock'[c] = sock[c]
             \/ sock[c] = "open" /\ sock'[c] = "closing"
             \/ sock'[c] = "closed"
  BY <1>3 DEF Claim, Refuse, Accept, Reject, BrowserLeaves, OldClosed, SendReady, Answered,
     Ack, Leave, TypeOK
<1>4. CASE RobotConnects \/ LinkBreaks \/ RobotUnregisters \/ UNCHANGED vars
  BY <1>4 DEF RobotConnects, LinkBreaks, RobotUnregisters, vars, handlerVars
<1> QED
  BY <1>1, <1>2, <1>3, <1>4 DEF Next, Enders, Handler

\* A handler listens from its claim on.
LEMMA ListenersClaim ==
  ASSUME TypeOK, RelayInv, [Next]_vars, NEW c \in Conns, pc'[c] \in Listening
  PROVE  pc[c] \in Listening \/ Claim(c)
BY HandlersGoOn DEF Listening, Waiting, Refuse, Accept, Reject, OldClosed, SendReady, Answered,
   AnswerOrTimeout, Ack, Leave, TypeOK

LEMMA ListenStep ==
  ASSUME TypeOK, RelayInv, SessionInv, ListenInv, [Next]_vars
  PROVE  ListenInv'
<1>1. Lives /\ sess' = sess
  BY LivesGoOn
<1> SUFFICES ASSUME NEW c \in Conns, pc'[c] \in Listening, sock'[c] = "open",
                    status'[sess[c]] = "active"
             PROVE  controller'[sess[c]] = c
  BY <1>1 DEF ListenInv, Active, Registered
<1> DEFINE s == sess[c]
<1>2. s \in Sessions
  BY DEF TypeOK
<1>3. CASE Claim(c)
  BY <1>2, <1>3 DEF Claim, TypeOK
<1>4. CASE ~Claim(c)
  <2>1. pc[c] \in Listening /\ sock[c] = "open"
    BY <1>4, ListenersClaim, SocketsClose
  <2>2. status[s] = "active"
    BY <1>1, <1>2, <2>1 DEF Lives, SessionInv, Listening, TypeOK
  <2>3. controller[s] = c
    BY <2>1, <2>2 DEF ListenInv, Active, Registered
  <2>4. ASSUME NEW t \in Sessions, Notified(t) PROVE controller'[s] = c
    BY <1>2, <2>2, <2>3, <2>4 DEF Notified, RelayInv, EndInv, TypeOK
  <2>5. ASSUME NEW d \in Conns, Claim(d) PROVE controller'[s] = c
    <3>1. d # c
      BY <1>4, <2>5
    <3>2. sess[d] = s => sock'[c] # "open"
      BY <2>3, <2>5, NoConnAssumption DEF Claim, Registered, TypeOK
    <3> QED
      BY <1>2, <2>3, <2>5, <3>2 DEF Claim, TypeOK
  <2>6. ASSUME NEW d \in Conns, Leave(d) PROVE controller'[s] = c
    <3>1. d # c
      BY <2>6 DEF Leave, Listening, TypeOK
    <3> QED
      BY <1>2, <2>3, <2>6, <3>1 DEF Leave, Owns, Registered, TypeOK
  <2> QED
    BY <2>3, <2>4, <2>5, <2>6, ControllerKept
<1> QED
  BY <1>3, <1>4

\* What becomes of the queue and of the wire in a step that transmits nothing.
LEMMA QueueGoesOn ==
  ASSUME TypeOK, RelayInv, [Next]_vars, ~Transmit
  PROVE  /\ Moving' => Moving /\ wire' = wire /\ link' = link /\ linkDead' = linkDead
         /\ \/ UNCHANGED sendQ
            \/ \E m \in Sends :
                 /\ sendQ' = Append(sendQ, m) /\ m.to = link /\ link # 0 /\ link' = link
                 /\ m.kind = "velocity" =>
                      m.task \in Conns /\ m.session = sess[m.task] /\ pc'[m.task] = "forwarding"
<1>1. ASSUME NEW s \in Sessions,
             \/ CreateSession(s) \/ EndSession(s) \/ ExpireSession(s) \/ FinalizeExpired(s)
             \/ Notify(s) \/ Notified(s)
      PROVE  /\ UNCHANGED <<wire, link, linkDead>>
             /\ UNCHANGED sendQ \/ (~NoLink /\ Forward("cancel", s, s))
  BY <1>1 DEF CreateSession, EndSession, ExpireSession, FinalizeExpired, Notify, Notified,
     StartStopping, linkVars
<1>2. ASSUME NEW c \in Conns,
             \/ Claim(c) \/ Refuse(c) \/ Reject(c) \/ BrowserLeaves(c)
             \/ OldClosed(c) \/ SendReady(c) \/ Answered(c) \/ Ack(c)
      PROVE  UNCHANGED <<wire, link, linkDead, sendQ>>
  BY <1>2 DEF Claim, Refuse, Reject, BrowserLeaves, OldClosed, SendReady, Answered, Ack,
     linkVars
<1>3. ASSUME NEW c \in Conns, Accept(c) \/ Leave(c)
      PROVE  /\ UNCHANGED <<wire, link, linkDead>>
             /\ \/ UNCHANGED sendQ
                \/ ~NoLink /\ Forward("velocity", sess[c], c) /\ pc'[c] = "forwarding"
                \/ ~NoLink /\ Forward("stop", sess[c], c)
  BY <1>3 DEF Accept, Leave, linkVars, TypeOK
<1>4. CASE RobotConnects \/ LinkBreaks \/ RobotUnregisters \/ UNCHANGED vars
  BY <1>4 DEF RobotConnects, LinkBreaks, RobotUnregisters, vars, Moving, NoLink, Quiet
<1>5. CASE UNCHANGED <<wire, link, linkDead, sendQ>>
  BY <1>5 DEF Moving, NoLink
<1>6. ASSUME NEW kind \in {"velocity", "stop", "cancel"}, NEW s \in Sessions,
             NEW t \in Conns \cup Sessions, ~NoLink, Forward(kind, s, t),
             UNCHANGED <<wire, link, linkDead>>,
             kind = "velocity" => t \in Conns /\ s = sess[t] /\ pc'[t] = "forwarding"
      PROVE  /\ Moving' => Moving /\ wire' = wire /\ link' = link /\ linkDead' = linkDead
             /\ \E m \in Sends :
                 /\ sendQ' = Append(sendQ, m) /\ m.to = link /\ link # 0 /\ link' = link
                 /\ m.kind = "velocity" =>
                      m.task \in Conns /\ m.session = sess[m.task] /\ pc'[m.task] = "forwarding"
  <2>1. PICK m \in Sends : /\ m.to = link /\ m.kind = kind /\ m.session = s /\ m.task = t
                           /\ sendQ' = Append(sendQ, m)
    BY <1>6, ForwardIsSend DEF RelayInv
  <2>2. Moving' => Moving
    BY <1>6 DEF Moving, NoLink
  <2> QED
    BY <1>6, <2>1, <2>2 DEF NoLink
<1>7. ASSUME NEW s \in Sessions, ~NoLink, Forward("cancel", s, s), UNCHANGED <<wire, link, linkDead>>
      PROVE  /\ Moving' => Moving /\ wire' = wire /\ link' = link /\ linkDead' = linkDead
             /\ \E m \in Sends :
                 /\ sendQ' = Append(sendQ, m) /\ m.to = link /\ link # 0 /\ link' = link
                 /\ m.kind = "velocity" =>
                      m.task \in Conns /\ m.session = sess[m.task] /\ pc'[m.task] = "forwarding"
  BY <1>6, <1>7
<1>8. ASSUME NEW c \in Conns, ~NoLink, UNCHANGED <<wire, link, linkDead>>,
             \/ Forward("velocity", sess[c], c) /\ pc'[c] = "forwarding"
             \/ Forward("stop", sess[c], c)
      PROVE  /\ Moving' => Moving /\ wire' = wire /\ link' = link /\ linkDead' = linkDead
             /\ \E m \in Sends :
                 /\ sendQ' = Append(sendQ, m) /\ m.to = link /\ link # 0 /\ link' = link
                 /\ m.kind = "velocity" =>
                      m.task \in Conns /\ m.session = sess[m.task] /\ pc'[m.task] = "forwarding"
  <2>1. sess[c] \in Sessions
    BY DEF TypeOK
  <2> QED
    BY <1>6, <1>8, <2>1
<1>9. ASSUME NEW s \in Sessions,
             \/ CreateSession(s) \/ EndSession(s) \/ ExpireSession(s) \/ FinalizeExpired(s)
             \/ Notify(s) \/ Notified(s)
      PROVE  UNCHANGED <<wire, link, linkDead>> /\ (UNCHANGED sendQ \/ (~NoLink /\ Forward("cancel", s, s)))
  BY <1>1, <1>9
<1> QED
  BY <1>2, <1>3, <1>4, <1>5, <1>7, <1>8, <1>9 DEF Next, Enders, Handler

\* The queue after a transmission: the head is gone, and a stop may be behind.
LEMMA TransmitQueue ==
  ASSUME TypeOK, RelayInv, Transmit
  PROVE  \/ sendQ' = Tail(sendQ)
         \/ \E m \in Sends : /\ sendQ' = Append(Tail(sendQ), m)
                             /\ m.kind = "stop" /\ m.to = link /\ link # 0
BY TransmitCases, EnderCases DEF RelayInv

\* The handler that a waiting velocity belongs to goes on waiting with it.
LEMMA VelocityStep ==
  ASSUME TypeOK, RelayInv, VelocityInv, [Next]_vars
  PROVE  VelocityInv'
<1>1. sess' = sess
  BY LivesGoOn
<1>2. ASSUME NEW i \in DOMAIN sendQ, sendQ[i].kind = "velocity",
             ~(Transmit /\ Head(sendQ).task = sendQ[i].task)
      PROVE  /\ sendQ[i].task \in Conns
             /\ sess[sendQ[i].task] = sendQ[i].session
             /\ pc'[sendQ[i].task] = "forwarding"
  <2>1. /\ sendQ[i].task \in Conns /\ sess[sendQ[i].task] = sendQ[i].session
        /\ pc[sendQ[i].task] = "forwarding"
    BY <1>2 DEF VelocityInv
  <2>2. pc'[sendQ[i].task] = pc[sendQ[i].task]
    BY <1>2, <2>1, HandlersGoOn DEF Claim, Refuse, Accept, Reject, OldClosed, SendReady, Answered,
       AnswerOrTimeout, Ack, Leave
  <2> QED
    BY <2>1, <2>2
<1>3. CASE Transmit
  <2> DEFINE n == Len(sendQ)
  <2>1. sendQ # <<>>
    BY <1>3 DEF Transmit
  <2>2. /\ n \in Nat /\ n >= 1 /\ DOMAIN sendQ = 1 .. n /\ Head(sendQ) = sendQ[1]
        /\ Tail(sendQ) \in Seq(Sends) /\ Len(Tail(sendQ)) = n - 1 /\ DOMAIN Tail(sendQ) = 1 .. n - 1
        /\ \A i \in 1 .. n - 1 : Tail(sendQ)[i] = sendQ[i + 1]
    BY <2>1, TailEntries, QueueTypes
  <2>3. ASSUME NEW i \in 1 .. n - 1, sendQ[i + 1].kind = "velocity"
        PROVE  /\ sendQ[i + 1].task \in Conns
               /\ sess[sendQ[i + 1].task] = sendQ[i + 1].session
               /\ pc'[sendQ[i + 1].task] = "forwarding"
    <3>1. i + 1 \in DOMAIN sendQ /\ 1 \in DOMAIN sendQ /\ i + 1 # 1
      BY <2>2
    <3>2. Head(sendQ).task # sendQ[i + 1].task
      BY <2>2, <3>1 DEF RelayInv, QueueInv
    <3> QED
      BY <1>2, <2>3, <3>1, <3>2
  <2>4. CASE sendQ' = Tail(sendQ)
    BY <1>1, <2>2, <2>3, <2>4 DEF VelocityInv
  <2>5. ASSUME NEW m \in Sends, sendQ' = Append(Tail(sendQ), m), m.kind = "stop"
        PROVE  VelocityInv'
    <3>1. /\ DOMAIN sendQ' = 1 .. n /\ sendQ'[n] = m
          /\ \A i \in 1 .. n - 1 : sendQ'[i] = sendQ[i + 1]
      BY <2>2, <2>5, AppendEntries
    <3> QED
      BY <1>1, <2>2, <2>3, <2>5, <3>1 DEF VelocityInv
  <2> QED
    BY <1>3, <2>4, <2>5, TransmitQueue
<1>4. CASE ~Transmit /\ UNCHANGED sendQ
  BY <1>1, <1>2, <1>4 DEF VelocityInv
<1>5. ASSUME ~Transmit, NEW m \in Sends, sendQ' = Append(sendQ, m),
             m.kind = "velocity" =>
               m.task \in Conns /\ m.session = sess[m.task] /\ pc'[m.task] = "forwarding"
      PROVE  VelocityInv'
  <2>1. /\ DOMAIN sendQ' = 1 .. Len(sendQ) + 1 /\ DOMAIN sendQ = 1 .. Len(sendQ) /\ Len(sendQ) \in Nat
        /\ sendQ'[Len(sendQ) + 1] = m /\ \A i \in 1 .. Len(sendQ) : sendQ'[i] = sendQ[i]
    BY <1>5, QueueTypes, AppendEntries
  <2> QED
    BY <1>1, <1>2, <1>5, <2>1 DEF VelocityInv
<1> QED
  BY <1>3, <1>4, <1>5, QueueGoesOn

\* The message of the queue's head has been delivered.
LEMMA WireAfter ==
  ASSUME TypeOK, RelayInv, Transmit, Moving'
  PROVE  /\ link' = link /\ link # 0 /\ ~linkDead
         /\ \/ Moving /\ wire' = wire /\ (Head(sendQ).kind = "stop" => Head(sendQ).to # link)
            \/ /\ Head(sendQ).kind = "velocity" /\ Head(sendQ).to = link
               /\ wire'.session = Head(sendQ).session
BY TransmitCases DEF RelayInv, Delivered, Moving, NoLink, Sends

LEMMA OrderStep ==
  ASSUME TypeOK, RelayInv, OrderInv, [Next]_vars
  PROVE  OrderInv'
<1>1. \A i \in DOMAIN sendQ : sendQ[i].to \in Nat /\ sendQ[i].to >= 1 /\ sendQ[i].to <= links
  BY QueueTypes, LinksAssumption DEF RelayInv, QueueInv, Entry, Sends
<1>2. link # 0 => link = links
  BY DEF RelayInv, LinkInv
<1>3. link \in Nat /\ links \in Nat
  BY LinksAssumption DEF TypeOK
<1>4. CASE Transmit
  <2> DEFINE n == Len(sendQ)
  <2>1. sendQ # <<>>
    BY <1>4 DEF Transmit
  <2>2. /\ n \in Nat /\ n >= 1 /\ DOMAIN sendQ = 1 .. n /\ Head(sendQ) = sendQ[1]
        /\ Tail(sendQ) \in Seq(Sends) /\ Len(Tail(sendQ)) = n - 1 /\ DOMAIN Tail(sendQ) = 1 .. n - 1
        /\ \A i \in 1 .. n - 1 : Tail(sendQ)[i] = sendQ[i + 1]
    BY <2>1, TailEntries, QueueTypes
  <2>3. \A i \in DOMAIN sendQ' :
          \/ i \in 1 .. n - 1 /\ i + 1 \in 1 .. n /\ sendQ'[i] = sendQ[i + 1]
          \/ i = n /\ sendQ'[i].to = link /\ link # 0
    <3>1. CASE sendQ' = Tail(sendQ)
      BY <2>2, <3>1
    <3>2. ASSUME NEW m \in Sends, sendQ' = Append(Tail(sendQ), m), m.to = link, link # 0
          PROVE  \A i \in DOMAIN sendQ' :
                   \/ i \in 1 .. n - 1 /\ i + 1 \in 1 .. n /\ sendQ'[i] = sendQ[i + 1]
                   \/ i = n /\ sendQ'[i].to = link /\ link # 0
      <4>1. /\ DOMAIN sendQ' = 1 .. n /\ sendQ'[n] = m
            /\ \A i \in 1 .. n - 1 : sendQ'[i] = sendQ[i + 1]
        BY <2>2, <3>2, AppendEntries
      <4> QED
        BY <2>2, <3>2, <4>1
    <3> QED
      BY <1>4, <3>1, <3>2, TransmitQueue
  <2> HIDE DEF n
  <2>4. ASSUME NEW i \in DOMAIN sendQ', NEW j \in DOMAIN sendQ', i <= j
        PROVE  sendQ'[i].to <= sendQ'[j].to
    <3>1. CASE j \in 1 .. n - 1 /\ sendQ'[j] = sendQ[j + 1]
      <4>1. i \in 1 .. n - 1 /\ i + 1 \in 1 .. n /\ j + 1 \in 1 .. n /\ i + 1 <= j + 1
              /\ sendQ'[i] = sendQ[i + 1]
        BY <2>2, <2>3, <2>4, <3>1
      <4> QED
        BY <2>2, <3>1, <4>1 DEF OrderInv
    <3>2. CASE j = n /\ sendQ'[j].to = link /\ link # 0
      BY <1>1, <1>2, <1>3, <2>2, <2>3, <3>2
    <3> QED
      BY <2>3, <3>1, <3>2
  <2>5. ASSUME Moving', NEW i \in DOMAIN sendQ'
        PROVE  sendQ'[i].to = link
    <3>1. Moving \/ sendQ[1].to = link
      BY <1>4, <2>2, <2>5, WireAfter
    <3>2. link # 0
      BY <1>4, <2>5, WireAfter
    <3>3. \A k \in 1 .. n : sendQ[1].to <= sendQ[k].to
      BY <2>2 DEF OrderInv
    <3>4. \A k \in 1 .. n : sendQ[k].to = link
      BY <1>1, <1>2, <1>3, <2>2, <3>1, <3>2, <3>3 DEF OrderInv
    <3> QED
      BY <2>3, <3>4
  <2>6. link' = link
    BY <1>4, TransmitCases DEF RelayInv
  <2> QED
    BY <2>4, <2>5, <2>6 DEF OrderInv
<1>5. CASE ~Transmit
  <2>1. Moving' => Moving /\ link' = link
    BY <1>5, QueueGoesOn
  <2>2. CASE UNCHANGED sendQ
    BY <2>1, <2>2 DEF OrderInv
  <2>3. ASSUME NEW m \in Sends, sendQ' = Append(sendQ, m), m.to = link, link # 0, link' = link
        PROVE  OrderInv'
    <3>1. /\ DOMAIN sendQ' = 1 .. Len(sendQ) + 1 /\ DOMAIN sendQ = 1 .. Len(sendQ)
          /\ Len(sendQ) \in Nat /\ sendQ'[Len(sendQ) + 1] = m
          /\ \A i \in 1 .. Len(sendQ) : sendQ'[i] = sendQ[i]
      BY <2>3, QueueTypes, AppendEntries
    <3>2. \A i, j \in DOMAIN sendQ' : i <= j => sendQ'[i].to <= sendQ'[j].to
      BY <1>1, <1>2, <1>3, <2>3, <3>1 DEF OrderInv
    <3>3. Moving' => \A i \in DOMAIN sendQ' : sendQ'[i].to = link'
      BY <2>1, <2>3, <3>1 DEF OrderInv
    <3> QED
      BY <3>2, <3>3 DEF OrderInv
  <2> QED
    BY <1>5, <2>2, <2>3, QueueGoesOn
<1> QED
  BY <1>4, <1>5

\* Where a handler listens that has a closed socket and is past its start.
Closing == {"loop", "forwarding", "requesting", "awaiting", "acking"}

\* A stop that waits is sent, or it goes on waiting.
LEMMA StopWaits ==
  ASSUME TypeOK, RelayInv, OrderInv, [Next]_vars, Moving, Moving',
         NEW i \in DOMAIN sendQ, sendQ[i].kind = "stop"
  PROVE  (Transmit /\ wire' # wire) \/ \E j \in DOMAIN sendQ' : sendQ'[j].kind = "stop"
<1>1. CASE ~Transmit
  <2>1. ASSUME NEW m \in Sends, sendQ' = Append(sendQ, m)
        PROVE  i \in DOMAIN sendQ' /\ sendQ'[i] = sendQ[i]
    BY <2>1, QueueTypes, AppendEntries
  <2> QED
    BY <1>1, <2>1, QueueGoesOn
<1>2. CASE Transmit
  <2> DEFINE n == Len(sendQ)
  <2>1. sendQ # <<>>
    BY <1>2 DEF Transmit
  <2>2. /\ n \in Nat /\ n >= 1 /\ DOMAIN sendQ = 1 .. n /\ Head(sendQ) = sendQ[1]
        /\ Tail(sendQ) \in Seq(Sends) /\ Len(Tail(sendQ)) = n - 1 /\ DOMAIN Tail(sendQ) = 1 .. n - 1
        /\ \A k \in 1 .. n - 1 : Tail(sendQ)[k] = sendQ[k + 1]
    BY <2>1, TailEntries, QueueTypes
  <2>3. CASE i = 1
    <3>1. Head(sendQ).kind = "stop" /\ Head(sendQ).to = link
      BY <2>2, <2>3 DEF OrderInv
    <3> QED
      BY <1>2, <3>1, WireAfter
  <2>4. CASE i # 1
    <3>1. i - 1 \in 1 .. n - 1 /\ Tail(sendQ)[i - 1] = sendQ[i]
      BY <2>2, <2>4
    <3>2. ASSUME NEW m \in Sends, sendQ' = Append(Tail(sendQ), m)
          PROVE  i - 1 \in DOMAIN sendQ' /\ sendQ'[i - 1] = sendQ[i]
      BY <2>2, <3>1, <3>2, AppendEntries
    <3> QED
      BY <1>2, <2>2, <3>1, <3>2, TransmitQueue
  <2> QED
    BY <2>3, <2>4
<1> QED
  BY <1>1, <1>2

\* The robot goes on moving without a new velocity: it keeps its controller, or
\* the stop that was coming, or a stop comes now.
LEMMA OldVelocity ==
  ASSUME TypeOK, RelayInv, SessionInv, OrderInv, FlagOwned, [Next]_vars,
         Moving, Moving', wire' = wire, status'[wire.session] # "ended"
  PROVE  FlagOwned'
<1> DEFINE s == wire.session
<1>1. s \in Sessions
  BY DEF TypeOK, Motion, Moving, Quiet
<1>2. Lives /\ sess' = sess
  BY LivesGoOn
<1>3. status[s] # "ended" /\ ender[s] = "none"
  BY <1>1, <1>2 DEF Lives, RelayInv, EndInv
<1>4. status[s] = "active" => status'[s] = "active"
  <2>1. status'[s] \in {"none", "active", "ended"}
    BY <1>1, TypeStep DEF RelayInv, TypeOK
  <2> QED
    BY <1>1, <1>2, <2>1 DEF Lives
<1>5. ASSUME NEW i \in DOMAIN sendQ, sendQ[i].kind = "stop" PROVE FlagOwned'
  <2>1. ~(Transmit /\ wire' # wire)
    OBVIOUS
  <2>2. \E j \in DOMAIN sendQ' : sendQ'[j].kind = "stop"
    BY <1>5, <2>1, StopWaits
  <2>3. sendQ' \in Seq(Sends)
    BY TypeStep DEF RelayInv, TypeOK
  <2> QED
    BY <2>2, <2>3 DEF FlagOwned, StopComing
<1>6. ASSUME NEW c \in Conns, Leave(c), sess[c] = s PROVE FlagOwned'
  <2>1. status[s] = "active"
    BY <1>1, <1>3, <1>6 DEF Leave, SessionInv, TypeOK
  <2>2. CASE Stays(c)
    BY <1>1, <1>4, <1>6, <2>1, <2>2 DEF Leave, FlagOwned, Active, TypeOK
  <2>3. CASE ~Stays(c)
    <3>1. Forward("stop", s, c) /\ ~NoLink
      BY <1>6, <2>1, <2>3 DEF Leave, MustStop, Active, Moving
    <3>2. PICK m \in Sends : m.kind = "stop" /\ sendQ' = Append(sendQ, m)
      BY <1>1, <3>1, ForwardIsSend DEF RelayInv
    <3>3. Len(sendQ') = Len(sendQ) + 1 /\ Len(sendQ) \in Nat /\ sendQ'[Len(sendQ) + 1] = m
      BY <3>2, QueueTypes, AppendEntries
    <3>4. Len(sendQ) + 1 \in 1 .. Len(sendQ')
      BY <3>3
    <3> QED
      BY <3>2, <3>3, <3>4 DEF FlagOwned, StopComing
  <2> QED
    BY <2>2, <2>3
<1>7. CASE Active(s) /\ connected[s] /\ ~(\E c \in Conns : Leave(c) /\ sess[c] = s)
  <2>1. ASSUME NEW c \in Conns, Claim(c) \/ Leave(c) PROVE connected'[s]
    BY <1>1, <1>7, <2>1 DEF Claim, Leave, TypeOK
  <2>2. ASSUME NEW t \in Sessions, Notified(t) PROVE connected'[s]
    BY <1>7, <2>2 DEF Notified
  <2>3. connected'[s]
    BY <1>7, <2>1, <2>2, ControllerKept
  <2> QED
    BY <1>4, <1>7, <2>3 DEF FlagOwned, Active
<1>8. ASSUME NEW c \in Conns, sess[c] = s, sock[c] # "open", pc[c] \in Closing, ~Leave(c)
      PROVE  FlagOwned'
  <2>1. sock'[c] # "open"
    BY <1>8, SocketsClose
  <2>2. pc'[c] \in Closing
    BY <1>8, HandlersGoOn DEF Closing, Waiting, Claim, Refuse, Accept, Reject, OldClosed,
       SendReady, Answered, Ack, TypeOK
  <2> QED
    BY <1>2, <1>8, <2>1, <2>2 DEF FlagOwned, StopComing, Closing
<1> QED
  BY <1>3, <1>5, <1>6, <1>7, <1>8, QueueTypes DEF FlagOwned, StopComing, Closing

\* A handler registers its socket when it claims the session, and takes it out again
\* when it leaves; only a handler that cannot send control.ready does not.
LEMMA RegisteredStep ==
  ASSUME TypeOK, RelayInv, RegisteredInv, [Next]_vars
  PROVE  RegisteredInv'
<1> SUFFICES ASSUME NEW s \in Sessions, NEW c \in Conns, controller'[s] = c
             PROVE  sess'[c] = s /\ pc'[c] \in Listening \cup {"dead"}
  BY DEF RegisteredInv
<1>1. sess' = sess
  BY LivesGoOn
<1>2. ASSUME Claim(c), sess[c] = s PROVE pc'[c] \in Listening
  BY <1>2 DEF Claim, Listening, TypeOK
<1>3. ASSUME controller[s] # c PROVE Claim(c) /\ sess[c] = s
  <2>1. ASSUME NEW d \in Conns, Claim(d) PROVE d = c /\ sess[d] = s
    BY <1>3, <2>1 DEF Claim, TypeOK
  <2>2. ASSUME NEW d \in Conns, Leave(d) PROVE FALSE
    BY <1>3, <2>2, NoConnAssumption DEF Leave, TypeOK
  <2>3. ASSUME NEW t \in Sessions, Notified(t) PROVE FALSE
    BY <1>3, <2>3, NoConnAssumption DEF Notified, TypeOK
  <2> QED
    BY <1>3, <2>1, <2>2, <2>3, ControllerKept
<1>4. ASSUME controller[s] = c PROVE pc'[c] \in Listening \cup {"dead"}
  <2>1. sess[c] = s /\ pc[c] \in Listening \cup {"dead"}
    BY <1>4 DEF RegisteredInv
  <2>2. ~Leave(c)
    BY <1>4, <2>1, NoConnAssumption DEF Leave, Owns, Registered, TypeOK
  <2> QED
    BY <2>1, <2>2, HandlersGoOn DEF Listening, Waiting, Claim, Refuse, Accept, Reject,
       OldClosed, SendReady, Answered, Ack, TypeOK
<1> QED
  BY <1>1, <1>2, <1>3, <1>4 DEF RegisteredInv

LEMMA OwnerStep ==
  ASSUME TypeOK, RelayInv, OwnerInv, [Next]_vars
  PROVE  OwnerInv'
<1>1. TypeOK' /\ RelayInv'
  BY TypeStep, RelayStep DEF RelayInv
<1>2. /\ SessionInv' /\ FlagFollowsSocket' /\ ListenInv' /\ VelocityInv' /\ OrderInv'
  BY SessionStep, ListenStep, VelocityStep, OrderStep DEF OwnerInv
<1>3. FlagOwned'
  <2> SUFFICES ASSUME Moving' PROVE FlagOwned'
    BY DEF FlagOwned
  <2> DEFINE s == wire'.session
  <2>1. s \in Sessions
    BY <1>1 DEF TypeOK, Motion, Moving, Quiet
  <2>2. CASE status'[s] = "ended"
    <3>1. ender'[s] # "none"
      BY <1>2, <2>1, <2>2 DEF SessionInv
    <3>2. ender'[s] \notin {"notifying", "closing", "done"}
      BY <1>1, <2>1 DEF RelayInv, StopIsLastWord
    <3>3. ender'[s] \in {"scheduled", "cancelling", "stopping"}
      BY <1>1, <2>1, <3>1, <3>2 DEF TypeOK
    <3> QED
      BY <3>3 DEF FlagOwned, StopComing
  <2>3. CASE status'[s] # "ended" /\ Moving /\ wire' = wire
    BY <2>3, OldVelocity DEF OwnerInv
  <2>4. CASE /\ status'[s] # "ended" /\ Transmit
             /\ Head(sendQ).kind = "velocity" /\ s = Head(sendQ).session
    <3> DEFINE c == Head(sendQ).task
    <3>1. sendQ # <<>> /\ Head(sendQ) = sendQ[1] /\ 1 \in DOMAIN sendQ
      BY <2>4, TailEntries DEF Transmit
    <3>2. c \in Conns /\ sess[c] = s /\ pc[c] = "forwarding"
      BY <2>4, <3>1 DEF OwnerInv, VelocityInv
    <3>3. pc'[c] = "acking" /\ UNCHANGED <<sess, sock>>
      BY <2>4, <3>2, TransmitCases, TaskAssumption DEF RelayInv, HandlerGoesOn, TypeOK
    <3>4. CASE sock[c] # "open"
      BY <3>2, <3>3, <3>4 DEF FlagOwned, StopComing
    <3>5. CASE sock[c] = "open"
      <4>1. status'[s] = "active"
        BY <1>1, <1>2, <2>1, <2>4, <3>2, <3>3 DEF SessionInv, TypeOK
      <4>2. controller'[s] = c
        BY <1>2, <3>2, <3>3, <3>5, <4>1 DEF ListenInv, Listening, Active, Registered
      <4>3. connected'[s]
        BY <1>2, <2>1, <3>2, <4>1, <4>2, NoConnAssumption DEF FlagFollowsSocket, Active
      <4> QED
        BY <4>1, <4>3 DEF FlagOwned, Active
    <3> QED
      BY <3>4, <3>5
  <2> QED
    BY <2>2, <2>3, <2>4, WireAfter, QueueGoesOn
<1>4. RegisteredInv'
  BY RegisteredStep DEF OwnerInv
<1> QED
  BY <1>2, <1>3, <1>4 DEF OwnerInv

LEMMA OwnerInitially == Init => OwnerInv
BY NoConnAssumption DEF Init, OwnerInv, SessionInv, FlagFollowsSocket, ListenInv, Listening,
   VelocityInv, OrderInv, FlagOwned, RegisteredInv, Moving, Quiet, Active

LEMMA OwnerHolds == Spec => []OwnerInv
<1>1. TypeOK /\ RelayInv /\ OwnerInv /\ [Next]_vars => OwnerInv'
  BY OwnerStep
<1> QED
  BY <1>1, OwnerInitially, RelayHolds, PTL DEF Spec

\* A robot whose last message is a velocity has a controller whose handler of
\* user_control still runs, or a stop is under way: from the handlers that find their
\* sockets closed, from those that wait for the send lock, or from the end of the
\* session.  The one exception is a controller that died of its own control.ready.
THEOREM MotionIsOwned == Spec => []MotionHasOwner
<1>1. ASSUME TypeOK, OwnerInv, Moving PROVE MotionHasOwner
  <2> DEFINE s == wire.session
  <2>1. s \in Sessions
    BY <1>1 DEF TypeOK, Motion, Moving, Quiet
  <2>2. CASE Active(s) /\ connected[s]
    <3>1. PICK c \in Conns : controller[s] = c
      BY <1>1, <2>1, <2>2 DEF OwnerInv, FlagFollowsSocket, TypeOK
    <3>2. sess[c] = s /\ pc[c] \in Listening \cup {"dead"}
      BY <1>1, <2>1, <3>1 DEF OwnerInv, RegisteredInv
    <3> QED
      BY <2>2, <3>1, <3>2 DEF MotionHasOwner, Attended, DiedGreeting, Listening
  <2> QED
    BY <1>1, <2>2 DEF OwnerInv, FlagOwned, MotionHasOwner
<1>2. TypeOK /\ OwnerInv => MotionHasOwner
  BY <1>1 DEF MotionHasOwner
<1> QED
  BY <1>2, OwnerHolds, TypeCorrect, PTL

\* control_connected, which the monitor reads, and control_sockets, which
\* claim_control reads, agree for every active session.
THEOREM FlagIsSocket == Spec => []FlagFollowsSocket
<1>1. OwnerInv => FlagFollowsSocket
  BY DEF OwnerInv
<1> QED
  BY <1>1, OwnerHolds, PTL

\* Only the registered handler of an active session listens on an open socket.
THEOREM OneListener == Spec => []ListenerIsRegistered
<1>1. OwnerInv => ListenerIsRegistered
  BY DEF OwnerInv, ListenInv, ListenerIsRegistered, Listening
<1> QED
  BY <1>1, OwnerHolds, PTL

\* A handler remembers the socket it replaces until that is closed.
LEMMA OldKept ==
  ASSUME TypeOK, RelayInv, [Next]_vars, NEW e \in Conns, pc[e] = "closingOld", ~OldClosed(e)
  PROVE  old'[e] = old[e]
<1>1. CASE Transmit
  BY <1>1 DEF Transmit
<1>2. ASSUME NEW s \in Sessions,
             \/ CreateSession(s) \/ EndSession(s) \/ ExpireSession(s) \/ FinalizeExpired(s)
             \/ Notify(s) \/ Notified(s)
      PROVE  old' = old
  BY <1>2 DEF CreateSession, EndSession, ExpireSession, FinalizeExpired, Notify, Notified,
     handlerVars
<1>3. ASSUME NEW d \in Conns,
             \/ Claim(d) \/ Refuse(d) \/ Accept(d) \/ Reject(d) \/ BrowserLeaves(d)
             \/ OldClosed(d) \/ SendReady(d) \/ Answered(d) \/ Ack(d) \/ Leave(d)
      PROVE  old'[e] = old[e]
  BY <1>3 DEF Claim, Refuse, Accept, Reject, BrowserLeaves, OldClosed, SendReady, Answered,
     Ack, Leave, TypeOK
<1>4. CASE RobotConnects \/ LinkBreaks \/ RobotUnregisters \/ UNCHANGED vars
  BY <1>4 DEF RobotConnects, LinkBreaks, RobotUnregisters, vars, handlerVars
<1> QED
  BY <1>1, <1>2, <1>3, <1>4 DEF Next, Enders, Handler

\* A handler that waits for a replaced socket's handshake came with a claim.
LEMMA ReplacedStep ==
  ASSUME TypeOK, RelayInv, SessionInv, ReplacedInv, [Next]_vars
  PROVE  ReplacedInv'
<1>1. Lives /\ sess' = sess
  BY LivesGoOn
<1> SUFFICES ASSUME NEW d \in Conns, pc'[d] \in Listening, sock'[d] # "closed",
                    status'[sess[d]] = "active"
             PROVE  \/ controller'[sess[d]] = d
                    \/ \E e \in Conns : pc'[e] = "closingOld" /\ old'[e] = d /\ sess[e] = sess[d]
  BY <1>1 DEF ReplacedInv, Active, Registered
<1> DEFINE s == sess[d]
<1>2. s \in Sessions
  BY DEF TypeOK
<1>3. CASE Claim(d)
  BY <1>2, <1>3 DEF Claim, TypeOK
<1>4. CASE ~Claim(d)
  <2>1. pc[d] \in Listening /\ sock[d] # "closed"
    BY <1>4, ListenersClaim, SocketsClose
  <2>2. status[s] = "active"
    BY <1>1, <1>2, <2>1 DEF Lives, SessionInv, Listening, TypeOK
  <2>3. CASE controller[s] = d
    <3>1. ASSUME NEW t \in Sessions, Notified(t) PROVE controller'[s] = d
      BY <1>2, <2>2, <2>3, <3>1 DEF Notified, RelayInv, EndInv, TypeOK
    <3>2. ASSUME NEW c \in Conns, Leave(c) PROVE controller'[s] = d
      <4>1. c # d
        BY <3>2 DEF Leave, Listening, TypeOK
      <4> QED
        BY <1>2, <2>3, <3>2, <4>1 DEF Leave, Owns, Registered, TypeOK
    <3>3. ASSUME NEW c \in Conns, Claim(c), sess[c] # s PROVE controller'[s] = d
      BY <1>2, <2>3, <3>3 DEF Claim, TypeOK
    <3>4. ASSUME NEW c \in Conns, Claim(c), sess[c] = s
          PROVE  pc'[c] = "closingOld" /\ old'[c] = d
      BY <2>3, <3>4, NoConnAssumption DEF Claim, Registered, TypeOK
    <3> QED
      BY <2>3, <3>1, <3>2, <3>3, <3>4, ControllerKept
  <2>4. ASSUME NEW e \in Conns, pc[e] = "closingOld", old[e] = d, sess[e] = s
        PROVE  pc'[e] = "closingOld" /\ old'[e] = d
    <3>1. ~OldClosed(e)
      BY <2>4 DEF OldClosed, TypeOK
    <3>2. pc'[e] = pc[e]
      BY <2>4, <3>1, HandlersGoOn DEF Claim, Refuse, Accept, Reject, SendReady, Answered,
         AnswerOrTimeout, Ack, Leave, Waiting
    <3>3. old'[e] = old[e]
      BY <2>4, <3>1, OldKept
    <3> QED
      BY <2>4, <3>2, <3>3
  <2> QED
    BY <2>1, <2>2, <2>3, <2>4 DEF ReplacedInv, Active, Registered
<1> QED
  BY <1>3, <1>4

\* A sequence number is recorded by the handler that accepts the message, and
\* forgotten for a new controller.
LEMMA NumberKept ==
  ASSUME TypeOK, RelayInv, [Next]_vars, NEW s \in Sessions
  PROVE  \/ lastFrom'[s] \in {lastFrom[s], NoConn}
         \/ \E d \in Conns : Accept(d) /\ sess[d] = s /\ lastFrom'[s] = d
<1>1. CASE Transmit
  BY <1>1 DEF Transmit
<1>2. ASSUME NEW t \in Sessions,
             \/ CreateSession(t) \/ EndSession(t) \/ ExpireSession(t) \/ FinalizeExpired(t)
             \/ Notify(t) \/ Notified(t)
      PROVE  lastFrom' = lastFrom
  BY <1>2 DEF CreateSession, EndSession, ExpireSession, FinalizeExpired, Notify, Notified
<1>3. ASSUME NEW d \in Conns,
             \/ Claim(d) \/ Refuse(d) \/ Reject(d) \/ BrowserLeaves(d)
             \/ OldClosed(d) \/ SendReady(d) \/ Answered(d) \/ Ack(d) \/ Leave(d)
      PROVE  lastFrom'[s] \in {lastFrom[s], NoConn}
  BY <1>3 DEF Claim, Refuse, Reject, BrowserLeaves, OldClosed, FreshSequence, SendReady, Answered,
     Ack, Leave, sessionVars, TypeOK
<1>4. ASSUME NEW d \in Conns, Accept(d)
      PROVE  lastFrom'[s] = lastFrom[s] \/ (sess[d] = s /\ lastFrom'[s] = d)
  BY <1>4 DEF Accept, TypeOK
<1>5. CASE RobotConnects \/ LinkBreaks \/ RobotUnregisters \/ UNCHANGED vars
  BY <1>5 DEF RobotConnects, LinkBreaks, RobotUnregisters, vars, sessionVars
<1> QED
  BY <1>1, <1>2, <1>3, <1>4, <1>5 DEF Next, Enders, Handler

LEMMA SequenceStep ==
  ASSUME TypeOK, RelayInv, SessionInv, ReplacedInv, SequenceInv, [Next]_vars
  PROVE  SequenceInv'
<1>1. Lives /\ sess' = sess
  BY LivesGoOn
<1> SUFFICES ASSUME NEW c \in Conns, pc'[c] \in Listening \ {"closingOld"},
                    controller'[sess[c]] = c,
                    \A d \in Conns : ~(pc'[d] = "closingOld" /\ sess[d] = sess[c])
             PROVE  lastFrom'[sess[c]] \in {NoConn, c}
  BY <1>1 DEF SequenceInv, Registered
<1> DEFINE s == sess[c]
<1>2. s \in Sessions
  BY DEF TypeOK
<1>3. CASE Claim(c)
  BY <1>2, <1>3 DEF Claim, TypeOK
<1>4. CASE \E d \in Conns : OldClosed(d) /\ sess[d] = s
  BY <1>2, <1>4 DEF OldClosed, FreshSequence, TypeOK
<1>5. CASE ~Claim(c) /\ ~\E d \in Conns : OldClosed(d) /\ sess[d] = s
  <2>1. \A d \in Conns : ~(pc[d] = "closingOld" /\ sess[d] = s)
    <3> SUFFICES ASSUME NEW d \in Conns, pc[d] = "closingOld", sess[d] = s PROVE FALSE
      OBVIOUS
    <3>1. pc'[d] = pc[d]
      BY <1>5, HandlersGoOn DEF Claim, Refuse, Accept, Reject, SendReady, Answered,
         AnswerOrTimeout, Ack, Leave, Waiting
    <3> QED
      BY <3>1
  <2>2. pc[c] \in Listening \ {"closingOld"}
    BY <1>5, <2>1, ListenersClaim
  <2>3. controller[s] = c
    <3>1. ASSUME NEW d \in Conns, Claim(d) \/ Leave(d) PROVE controller[s] = c
      BY <1>2, <1>5, <3>1, NoConnAssumption DEF Claim, Leave, TypeOK
    <3>2. ASSUME NEW t \in Sessions, Notified(t) PROVE controller[s] = c
      BY <1>2, <3>2, NoConnAssumption DEF Notified, TypeOK
    <3> QED
      BY <3>1, <3>2, ControllerKept
  <2>4. lastFrom[s] \in {NoConn, c}
    BY <2>1, <2>2, <2>3 DEF SequenceInv, Registered
  <2>5. ASSUME NEW d \in Conns, Accept(d), sess[d] = s PROVE d = c
    <3>1. /\ pc[d] \in Listening /\ sock[d] # "closed" /\ Active(s)
      BY <2>5 DEF Accept, MayAccept, Listening
    <3> QED
      BY <2>1, <2>3, <2>5, <3>1 DEF ReplacedInv, Registered
  <2> QED
    BY <1>2, <2>4, <2>5, NumberKept
<1> QED
  BY <1>3, <1>4, <1>5

\* Once no predecessor's close handshake is outstanding, the sequence numbers a
\* controller competes with are its own.
THEOREM NumbersAreOwn == Spec => []OwnSequence
<1>1. TypeOK /\ RelayInv /\ OwnerInv /\ ReplacedInv /\ SequenceInv /\ [Next]_vars
        => ReplacedInv' /\ SequenceInv'
  BY ReplacedStep, SequenceStep DEF OwnerInv
<1>2. Init => ReplacedInv /\ SequenceInv
  BY DEF Init, ReplacedInv, SequenceInv, Listening
<1>3. SequenceInv => OwnSequence
  BY DEF SequenceInv, OwnSequence, Listening
<1> QED
  BY <1>1, <1>2, <1>3, OwnerHolds, RelayHolds, PTL DEF Spec
=============================================================================
