-------------------------- MODULE OfficeLinkProofs --------------------------
(***************************************************************************)
(* Proofs about OfficeLink for queues and wires of any length and any      *)
(* number of faults: the type invariant, that a poller is never stranded,  *)
(* and that the badge is true once everything sent has been read; about    *)
(* RemoteDesktop, the tunnels that the link opens and takes down, for any  *)
(* number of sessions, ids and reconnects; about Presence, which process   *)
(* of a workspace has the link, for any number of them; about              *)
(* OperateCalls, the calls that a bridge serves over the link, for any     *)
(* number of calls, clients, ids, frames, tasks and faults; and about      *)
(* FrameLink, the readers of the link's frames, for any number of          *)
(* messages, control frames and connections, and chunks of any size.       *)
(***************************************************************************)
EXTENDS MCOfficeLink, RemoteDesktop, Presence, SequenceTheorems,
        WellFoundedInduction, NaturalsInduction, TLAPS

\* The poller of a run in progress is not destroyed.
ConnInv == state \in {"running", "paused"} => destroyed = "no" /\ (sock # "none" \/ timer = "on")

\* While a task is announced, the idle announcement is withdrawn, and a pause
\* has withdrawn the announcement of the task.
BodyInv ==
    /\ pc = "turn" \/ turn # "none" => allDone = "no"
    /\ state = "paused" => turn = "unannounced"

\* The badge once everything under way has been read.
Final == IF wire = <<>> THEN shown ELSE wire[Len(wire)]

\* The last word on a live connection is what the loop has announced.
BadgeInv == sock = "open" => Due \in {"any", Final}

\* Sequences of status frames: nothing, one frame, one more frame, one fewer.
LEMMA Frames ==
    /\ <<>> \in Seq(Status)
    /\ \A f \in Status : <<f>> \in Seq(Status)
    /\ \A s \in Seq(Status), f \in Status :
          /\ Append(s, f) \in Seq(Status)
          /\ Append(s, f) # <<>>
          /\ Append(s, f)[Len(Append(s, f))] = f
<1>1. <<>> \in Seq(Status) OBVIOUS
<1>2. \A f \in Status : <<f>> \in Seq(Status) OBVIOUS
<1>3. ASSUME NEW s \in Seq(Status), NEW f \in Status
      PROVE  /\ Append(s, f) \in Seq(Status)
             /\ Append(s, f) # <<>>
             /\ Append(s, f)[Len(Append(s, f))] = f
  BY <1>3
<1> QED BY <1>1, <1>2, <1>3

\* Only the empty sequence has no frames.
LEMMA NoFrames ==
    ASSUME NEW s \in Seq(Status)
    PROVE  s = <<>> <=> Len(s) = 0
<1>1. s # <<>> => Len(s) \in Nat \ {0}
  BY EmptySeq
<1>2. s = <<>> => Len(s) = 0
  BY EmptySeq
<1> QED BY <1>1, <1>2

\* A queue that drops its oldest frame stays a bounded queue of frames.
LEMMA QueuedType ==
    ASSUME NEW q \in Seq(Status), NEW f \in Status, Len(q) <= MaxPending
    PROVE  Queued(q, f) \in Seq(Status) /\ Len(Queued(q, f)) <= MaxPending
<1>1. CASE Len(q) >= MaxPending
  <2>1. Len(q) > 0 BY <1>1, LinkAssumption
  <2>2. q # <<>> BY <2>1
  <2>3. Tail(q) \in Seq(Status) /\ Len(Tail(q)) = Len(q) - 1 BY <2>2
  <2> QED BY <1>1, <2>3, LinkAssumption DEF Queued
<1>2. CASE ~(Len(q) >= MaxPending)
  BY <1>2, LinkAssumption DEF Queued
<1> QED BY <1>1, <1>2

\* What is read last of two sequences in a row.
LEMMA LastOfBoth ==
    ASSUME NEW s \in Seq(Status), NEW t \in Seq(Status), t # <<>>
    PROVE  /\ s \o t \in Seq(Status) /\ s \o t # <<>>
           /\ (s \o t)[Len(s \o t)] = t[Len(t)]
  OBVIOUS

\* What onConnect sends is a sequence of status frames that ends with what is
\* due: the working badge for a task, the idle one for a drained queue.
LEMMA ReassertedEnds ==
    ASSUME TypeOK
    PROVE  /\ Reasserted \in Seq(Status) /\ Reasserted # <<>>
           /\ state = "paused" => Reasserted[Len(Reasserted)] = "alert"
           /\ state = "running" /\ turn # "none" => Reasserted[Len(Reasserted)] = "working"
           /\ state = "running" /\ turn = "none" /\ idleNotified = "yes" =>
                Reasserted[Len(Reasserted)] = "idle"
<1>1. CASE state = "running" /\ turn # "none"
  <2>1. Reasserted = <<"online", "working">>
    BY <1>1 DEF Reasserted, Resync
  <2> QED BY <1>1, <2>1 DEF Status
<1>2. CASE state = "running" /\ turn = "none" /\ idleNotified = "yes"
  <2>1. Reasserted = <<"online", "idle">>
    BY <1>2 DEF Reasserted, Resync
  <2> QED BY <1>2, <2>1 DEF Status
<1>3. CASE state = "running" /\ turn = "none" /\ idleNotified # "yes"
  <2>1. Reasserted = <<"online">>
    BY <1>3 DEF Reasserted, Resync
  <2> QED BY <1>3, <2>1 DEF Status
<1>4. CASE state # "running"
  <2>1. CASE state = "paused"
    <3>1. Reasserted = <<"alert">>
      BY <2>1 DEF Reasserted
    <3> QED BY <2>1, <3>1 DEF Status
  <2>2. CASE state # "paused"
    <3>1. Reasserted = <<"offline">>
      BY <1>4, <2>2 DEF Reasserted
    <3> QED BY <1>4, <2>2, <3>1 DEF Status
  <2> QED BY <2>1, <2>2
<1> QED BY <1>1, <1>2, <1>3, <1>4

\* A notification keeps the queue and the wire well-typed.
LEMMA SendType ==
    ASSUME TypeOK, NEW f \in Status, Send(f)
    PROVE  pending' \in Seq(Status) /\ Len(pending') <= MaxPending /\ wire' \in Seq(Status)
<1>1. Queued(pending, f) \in Seq(Status) /\ Len(Queued(pending, f)) <= MaxPending
  BY QueuedType DEF TypeOK
<1>2. Append(wire, f) \in Seq(Status)
  BY Frames DEF TypeOK
<1> QED BY <1>1, <1>2 DEF Send, TypeOK

\* On a live connection a notification is the last word.
LEMMA SendLast ==
    ASSUME TypeOK, NEW f \in Status, Send(f), sock = "open"
    PROVE  wire' # <<>> /\ wire'[Len(wire')] = f
  BY DEF Send, TypeOK

\* The steps of the body keep the type invariant and the part of it that ties
\* the idle announcement to the flag that outlives the run.
LEMMA LoopType ==
    ASSUME TypeOK, BodyInv, LoopNext
    PROVE  TypeOK'
<1> USE DEF TypeOK
<1>0. {"working", "idle", "alert", "offline", "online"} \subseteq Status
  BY DEF Status
<1>1. CASE Start
  <2>1. pending' \in Seq(Status) /\ Len(pending') <= MaxPending
    BY <1>1, LinkAssumption DEF Start, Status
  <2> QED BY <1>1, <2>1 DEF Start
<1>2. CASE Stop
  <2>1. Queued(pending, "offline") \in Seq(Status) /\ Len(Queued(pending, "offline")) <= MaxPending
    BY <1>0, QueuedType
  <2> QED BY <1>2, <2>1, Frames DEF Stop, Destroy
<1>3. CASE StoppedBody
  BY <1>3, LinkAssumption DEF StoppedBody, conn
<1>4. CASE FailedBody
  <2>0. /\ <<>> \in Seq(Status) /\ Append(wire, "offline") \in Seq(Status)
        /\ wire' = wire \/ wire' = <<>> \/ wire' = Append(wire, "offline")
    <3>1. <<>> \in Seq(Status) /\ Append(wire, "offline") \in Seq(Status)
      BY <1>0, Frames
    <3> QED BY <1>4, <3>1 DEF FailedBody
  <2>1. wire' \in Seq(Status)
    BY <2>0
  <2> QED BY <1>4, <2>1, LinkAssumption DEF FailedBody
<1>5. CASE Dispatch
  BY <1>5, <1>0, SendType DEF Dispatch, conn, Picking
<1>6. CASE WatchAgain
  BY <1>6 DEF WatchAgain, conn, Picking, Quiet
<1>7. CASE ForceMark
  BY <1>7 DEF ForceMark, conn, Picking, Quiet
<1>8. CASE NothingOpen
  <2>1. pending' \in Seq(Status) /\ Len(pending') <= MaxPending /\ wire' \in Seq(Status)
    BY <1>8, <1>0, SendType DEF NothingOpen, Quiet
  <2>2. turn = "none" \/ allDone = "no" BY DEF BodyInv
  <2>3. idleNotified' = "yes"
    BY <1>8, <2>2 DEF NothingOpen, Picking
  <2> QED BY <1>8, <2>1, <2>3 DEF NothingOpen, conn, Picking
<1>9. CASE NothingToPick
  BY <1>9 DEF NothingToPick, conn, Picking, Quiet, BodyInv
<1>10. CASE EndTurn
  <2>1. pending' \in Seq(Status) /\ Len(pending') <= MaxPending /\ wire' \in Seq(Status)
    BY <1>10, <1>0, SendType DEF EndTurn, Quiet
  <2> QED BY <1>10, <2>1 DEF EndTurn, conn, InTurn, BodyInv
<1>11. CASE Compacted
  BY <1>11 DEF Compacted, conn, InTurn, Quiet
<1>12. CASE Fallback
  BY <1>12, <1>0, SendType DEF Fallback, conn, InTurn
<1>13. CASE Pause
  BY <1>13, <1>0, SendType DEF Pause, conn, InTurn
<1>14. CASE Retry
  BY <1>14 DEF Retry, conn, Quiet, BodyInv
<1> QED BY <1>1, <1>2, <1>3, <1>4, <1>5, <1>6, <1>7, <1>8, <1>9, <1>10, <1>11,
          <1>12, <1>13, <1>14 DEF LoopNext

\* The steps of the connection keep the type invariant.
LEMMA LinkType ==
    ASSUME TypeOK, LinkNext
    PROVE  TypeOK'
<1> USE DEF TypeOK
<1>1. CASE Handshake
  <2>1. pending \o Reasserted \in Seq(Status)
    BY ReassertedEnds
  <2> QED BY <1>1, <2>1, LinkAssumption DEF Handshake
<1>2. CASE LinkLost
  <2>1. wire' \in Seq(Status)
    BY <1>2, Frames DEF LinkLost
  <2>2. faults' \in 0..MaxFaults
    BY <1>2, LinkAssumption DEF LinkLost
  <2> QED BY <1>2, <2>1, <2>2 DEF LinkLost, ScheduleReconnect, body
<1>3. CASE GoesSilent
  <2>1. wire' \in Seq(Status)
    BY <1>3, Frames DEF GoesSilent
  <2>2. faults' \in 0..MaxFaults
    BY <1>3, LinkAssumption DEF GoesSilent
  <2> QED BY <1>3, <2>1, <2>2 DEF GoesSilent, body
<1>4. CASE Heartbeat
  BY <1>4 DEF Heartbeat, ScheduleReconnect, body
<1>5. CASE TimerFires
  BY <1>5 DEF TimerFires, body
<1>6. CASE Deliver
  <2>1. Head(wire) \in Status /\ Tail(wire) \in Seq(Status)
    BY <1>6 DEF Deliver
  <2> QED BY <1>6, <2>1 DEF Deliver, body, conn
<1> QED BY <1>1, <1>2, <1>3, <1>4, <1>5, <1>6 DEF LinkNext

\* Every step keeps what the body knows about its announcements.
LEMMA BodyStep ==
    ASSUME TypeOK, BodyInv, [Next]_vars
    PROVE  BodyInv'
<1> USE DEF TypeOK, BodyInv
<1>1. CASE LoopNext
  BY <1>1 DEF LoopNext, Start, Stop, StoppedBody, FailedBody, Dispatch, WatchAgain, ForceMark,
     NothingOpen, NothingToPick, EndTurn, Compacted, Fallback, Pause, Retry, Picking, InTurn
<1>2. CASE LinkNext
  BY <1>2 DEF LinkNext, Handshake, LinkLost, GoesSilent, Heartbeat, TimerFires, Deliver, body
<1>3. CASE UNCHANGED vars
  BY <1>3 DEF vars, body
<1> QED BY <1>1, <1>2, <1>3 DEF Next

\* Every step keeps the poller of a run alive.
LEMMA ConnStep ==
    ASSUME TypeOK, ConnInv, [Next]_vars
    PROVE  ConnInv'
<1> USE DEF TypeOK, ConnInv
<1>1. CASE LoopNext
  BY <1>1 DEF LoopNext, Start, Stop, Destroy, StoppedBody, FailedBody, Dispatch, WatchAgain, ForceMark,
     NothingOpen, NothingToPick, EndTurn, Compacted, Fallback, Pause, Retry, Picking, InTurn, conn
<1>2. CASE LinkNext
  BY <1>2 DEF LinkNext, Handshake, LinkLost, GoesSilent, Heartbeat, TimerFires, Deliver,
     ScheduleReconnect, body, conn
<1>3. CASE UNCHANGED vars
  BY <1>3 DEF vars, body, conn
<1> QED BY <1>1, <1>2, <1>3 DEF Next

\* A notification that changes what is due makes it the last word.
LEMMA SendBadge ==
    ASSUME TypeOK, NEW f \in Status, Send(f), sock' = sock, Due' \in {"any", f}
    PROVE  BadgeInv'
  BY SendLast DEF BadgeInv, Final

\* Without a notification the last word stays, and must still be due.
LEMMA QuietBadge ==
    ASSUME BadgeInv, Quiet, sock' = sock, shown' = shown, Due' \in {"any", Due}
    PROVE  BadgeInv'
  BY DEF BadgeInv, Final, Quiet

\* The steps of the body keep the last word true.
LEMMA LoopBadge ==
    ASSUME TypeOK, BodyInv, BadgeInv, LoopNext
    PROVE  BadgeInv'
<1>0. {"working", "idle", "alert", "offline", "online"} \subseteq Status
  BY DEF Status
<1>1. CASE Start
  BY <1>1 DEF Start, BadgeInv
<1>2. CASE Stop
  BY <1>2 DEF Stop, Destroy, BadgeInv
<1>3. CASE StoppedBody
  <2>1. Due' = "any" BY <1>3 DEF StoppedBody, Due
  <2> QED BY <2>1 DEF BadgeInv
<1>4. CASE FailedBody
  BY <1>4 DEF FailedBody, BadgeInv
<1>5. CASE Dispatch
  <2>1. Due' = "working" BY <1>5 DEF Dispatch, Picking, Due
  <2> QED BY <1>5, <2>1, <1>0, SendBadge DEF Dispatch, conn
<1>6. CASE WatchAgain
  <2>1. Due' \in {"any", Due} BY <1>6 DEF WatchAgain, Picking, Due
  <2> QED BY <1>6, <2>1, QuietBadge DEF WatchAgain, conn
<1>7. CASE ForceMark
  <2>1. Due' \in {"any", Due} BY <1>7 DEF ForceMark, Picking, Due
  <2> QED BY <1>7, <2>1, QuietBadge DEF ForceMark, conn
<1>8. CASE NothingOpen
  <2>1. CASE allDone = "no"
    <3>1. Due' \in {"any", "idle"} BY <1>8 DEF NothingOpen, Due, Picking
    <3> QED BY <1>8, <2>1, <3>1, <1>0, SendBadge DEF NothingOpen, conn
  <2>2. CASE allDone = "yes"
    <3>1. Due' \in {"any", Due}
      BY <1>8, <2>2 DEF NothingOpen, Picking, Due, BodyInv
    <3> QED BY <1>8, <2>2, <3>1, QuietBadge DEF NothingOpen, conn
  <2> QED BY <2>1, <2>2 DEF TypeOK
<1>9. CASE NothingToPick
  <2>1. Due' \in {"any", Due}
    BY <1>9 DEF NothingToPick, Picking, Due, BodyInv, TypeOK
  <2> QED BY <1>9, <2>1, QuietBadge DEF NothingToPick, conn
<1>10. CASE EndTurn
  <2>1. Due' = "any" BY <1>10 DEF EndTurn, InTurn, Due, BodyInv
  <2> QED BY <2>1 DEF BadgeInv
<1>11. CASE Compacted
  <2>1. Due' \in {"any", Due} BY <1>11 DEF Compacted, InTurn, Due
  <2> QED BY <1>11, <2>1, QuietBadge DEF Compacted, conn
<1>12. CASE Fallback
  <2>1. Due' = "any" BY <1>12 DEF Fallback, InTurn, Due
  <2> QED BY <2>1 DEF BadgeInv
<1>13. CASE Pause
  <2>1. Due' = "alert" BY <1>13 DEF Pause, Due
  <2> QED BY <1>13, <2>1, <1>0, SendBadge DEF Pause, conn
<1>14. CASE Retry
  <2>1. Due' = "any" BY <1>14 DEF Retry, Due, BodyInv
  <2> QED BY <2>1 DEF BadgeInv
<1> QED BY <1>1, <1>2, <1>3, <1>4, <1>5, <1>6, <1>7, <1>8, <1>9, <1>10, <1>11,
          <1>12, <1>13, <1>14 DEF LoopNext

\* The steps of the connection keep the last word true: the handshake because
\* onConnect speaks after the queue is flushed.
LEMMA LinkBadge ==
    ASSUME TypeOK, BodyInv, BadgeInv, LinkNext
    PROVE  BadgeInv'
<1>1. CASE Handshake
  <2>1. /\ wire' # <<>>
        /\ wire'[Len(wire')] = Reasserted[Len(Reasserted)]
    BY <1>1, ReassertedEnds, LastOfBoth DEF Handshake, TypeOK
  <2>2. CASE state = "running" /\ turn # "none"
    <3>1. Due' = "working" BY <1>1, <2>2 DEF Handshake, Due
    <3> QED BY <2>1, <2>2, <3>1, ReassertedEnds DEF BadgeInv, Final
  <2>3. CASE state = "running" /\ turn = "none"
    <3>1. turn' = "none" BY <1>1, <2>3 DEF Handshake
    <3>2. Due' \in {"any", "idle"} BY <1>1, <2>3, <3>1 DEF Handshake, Due
    <3>3. Due' = "idle" => idleNotified = "yes"
      BY <1>1, <2>3, <3>1 DEF Handshake, Due, TypeOK
    <3> QED BY <2>1, <2>3, <3>2, <3>3, ReassertedEnds DEF BadgeInv, Final
  <2>4. CASE state = "paused"
    <3>1. Due' = "alert" BY <1>1, <2>4 DEF Handshake, Due
    <3> QED BY <2>1, <2>4, <3>1, ReassertedEnds DEF BadgeInv, Final
  <2>5. CASE state \in {"idle", "stopping"}
    <3>1. Due' = "any" BY <1>1, <2>5 DEF Handshake, Due
    <3> QED BY <3>1 DEF BadgeInv
  <2> QED BY <2>2, <2>3, <2>4, <2>5 DEF TypeOK
<1>2. CASE LinkLost
  BY <1>2 DEF LinkLost, ScheduleReconnect, BadgeInv
<1>3. CASE GoesSilent
  BY <1>3 DEF GoesSilent, BadgeInv
<1>4. CASE Heartbeat
  BY <1>4 DEF Heartbeat, ScheduleReconnect, BadgeInv
<1>5. CASE TimerFires
  <2>1. Due' = Due BY <1>5 DEF TimerFires, body, Due
  <2>2. sock' \in {sock, "opening"} BY <1>5 DEF TimerFires
  <2> QED BY <1>5, <2>1, <2>2 DEF BadgeInv, Final, TimerFires
<1>6. CASE Deliver
  <2>1. Due' = Due BY <1>6 DEF Deliver, body, Due
  <2>2. Final' = Final
    <3>0. wire \in Seq(Status) /\ wire # <<>> /\ wire' = Tail(wire) /\ shown' = wire[1]
      BY <1>6 DEF Deliver, TypeOK
    <3>1. Len(wire) > 0 /\ Tail(wire) \in Seq(Status) /\ Len(Tail(wire)) = Len(wire) - 1
      BY <3>0
    <3>2. Tail(wire) = <<>> <=> Len(Tail(wire)) = 0
      BY <3>1, NoFrames
    <3>3. CASE Len(wire) = 1
      <4>1. Tail(wire) = <<>>
        <5>1. Len(Tail(wire)) = 0 BY <3>1, <3>3
        <5> QED BY <5>1, <3>2, Zenon
      <4> QED BY <3>0, <3>3, <4>1 DEF Final
    <3>4. CASE Len(wire) # 1
      <4>1. Len(Tail(wire)) # 0 BY <3>0, <3>1, <3>4
      <4>2. Tail(wire) # <<>> BY <3>2, <4>1, Zenon
      <4>3. Tail(wire)[Len(wire) - 1] = wire[Len(wire)] BY <3>0, <3>1, <4>1
      <4> QED BY <3>0, <3>1, <4>2, <4>3 DEF Final
    <3> QED BY <3>3, <3>4
  <2> QED BY <1>6, <2>1, <2>2 DEF BadgeInv, Deliver, conn
<1> QED BY <1>1, <1>2, <1>3, <1>4, <1>5, <1>6 DEF LinkNext

\* The inductive invariant.
IInv == TypeOK /\ BodyInv /\ ConnInv /\ BadgeInv

\* It holds before the first start.
LEMMA InitInv == Init => IInv
<1> SUFFICES ASSUME Init PROVE IInv
  OBVIOUS
<1>1. TypeOK
  BY LinkAssumption DEF Init, TypeOK, Status
<1>2. BodyInv /\ ConnInv /\ BadgeInv
  BY DEF Init, BodyInv, ConnInv, BadgeInv
<1> QED BY <1>1, <1>2 DEF IInv

\* It is kept by every step.
LEMMA StepInv == IInv /\ [Next]_vars => IInv'
<1> SUFFICES ASSUME IInv, [Next]_vars PROVE IInv'
  OBVIOUS
<1>1. TypeOK'
  <2>1. CASE UNCHANGED vars
    BY <2>1 DEF IInv, TypeOK, vars, body, conn
  <2> QED BY <2>1, LoopType, LinkType DEF IInv, Next
<1>2. BodyInv' /\ ConnInv'
  BY BodyStep, ConnStep DEF IInv
<1>3. BadgeInv'
  <2>1. CASE UNCHANGED vars
    <3>1. Due' = Due /\ Final' = Final /\ sock' = sock
      BY <2>1 DEF vars, body, conn, Due, Final
    <3> QED BY <3>1 DEF IInv, BadgeInv
  <2> QED BY <2>1, LoopBadge, LinkBadge DEF IInv, Next
<1> QED BY <1>1, <1>2, <1>3 DEF IInv

\* Type correctness: the queue of frames is bounded, a reconnection waits only
\* without a connection, and the idle flag that outlives a run agrees with the
\* announcement of the run in progress.
THEOREM TypeCorrect == Spec => []TypeOK
<1>1. IInv => TypeOK BY DEF IInv
<1> QED BY <1>1, InitInv, StepInv, PTL DEF Spec

\* The poller of a run is connected, connecting or about to, however many
\* connections are lost, rejected or go silent.
THEOREM Reconnects == Spec => []NeverStranded
<1>1. IInv => NeverStranded BY DEF IInv, ConnInv, NeverStranded
<1> QED BY <1>1, InitInv, StepInv, PTL DEF Spec

\* Once everything sent on a live connection has been read, the badge is what
\* the loop has announced, for queues of any size.
THEOREM BadgeTrue == Spec => []BadgeIsTrue
<1>1. IInv => BadgeIsTrue BY DEF IInv, BadgeInv, BadgeIsTrue, Final
<1> QED BY <1>1, InitInv, StepInv, PTL DEF Spec

\* Both at once, as the runs check them.
THEOREM LinkCorrect == Spec => []LinkHolds
BY TypeCorrect, Reconnects, PTL DEF LinkHolds

-----------------------------------------------------------------------------
(* The tunnels the link opens. *)

Recs == [id : Id, phase : Phases, promise : {"pending", "ready", "failed"},
         minor : {3, 7, 8}, open : BOOLEAN, active : BOOLEAN,
         pending : BOOLEAN, buffered : BOOLEAN, owed : BOOLEAN, tries : 0..MaxReconnects]

\* The managers' maps name sessions of the id.
Owners == \A i \in Id : sessions[i] # None => Used(sessions[i]) /\ Owner(sessions[i]) = i

\* Of an id that was not started too early, one session can act.
Lone ==
    \A s, t \in Session :
        CanAct(s) /\ CanAct(t) /\ Owner(s) = Owner(t) /\ Owner(s) \notin mixed => s = t

OpenIsUsed == \A s \in Session : sess[s].open => Used(s)

RdInv ==
    /\ RdTypeOK /\ Owners /\ Lone /\ OpenIsUsed
    /\ Stoppable /\ NewsIsTrue /\ OneInFlight

\* The pipeline of one session.
Flows(r) ==
    r.id \in VncId /\ r.active /\ r.open =>
        /\ r.pending <=> r.owed
        /\ r.buffered => r.pending

LEMMA RecsAre == ASSUME RdTypeOK, NEW s \in Session PROVE sess[s] \in Recs
  BY DEF RdTypeOK, Recs

LEMMA NoneIsNot == None \notin Session
  BY DEF None, Session

\* What a session does on its own: it stays who it is, is not opened again, and
\* what the viewer is told of it fits.
LEMMA SessionStep ==
    ASSUME RdInv, NEW s \in Session, NEW r \in Recs, sess' = [sess EXCEPT ![s] = r],
           \/ CanAct(s)
           \/ UNCHANGED <<sessions, told>> /\ r.phase = sess[s].phase /\ r.promise = sess[s].promise,
           r.id = sess[s].id, r.phase # "unused", r.open => sess[s].open, Flows(r), UNCHANGED mixed,
           \/ UNCHANGED <<sessions, told>> /\ (sess[s].active => r.active)
           \/ UNCHANGED sessions /\ Tell(Owner(s), "closed") /\ ~r.open
           \/ sessions' = [sessions EXCEPT ![Owner(s)] = None] /\ Tell(Owner(s), "closed") /\ ~r.open
           \/ UNCHANGED sessions /\ Tell(Owner(s), "ready") /\ r.active /\ sess[s].open
    PROVE  RdInv'
<1>0. RdTypeOK /\ Owner(s) \in Id
  BY RecsAre DEF RdInv, Recs, Owner
<1>1. /\ sess' \in [Session -> Recs] /\ sess'[s] = r
      /\ \A t \in Session : t # s => sess'[t] = sess[t]
      /\ \A t \in Session : sess'[t].id = sess[t].id /\ (sess'[t].open => sess[t].open)
  BY <1>0 DEF RdTypeOK, Recs
<1>2. \A t \in Session : /\ Owner(t)' = Owner(t) /\ (CanAct(t)' => CanAct(t))
                         /\ Used(t) => Used(t)'
  BY <1>1 DEF Owner, CanAct, Used, Reading, IsVnc
<1>3. \A i \in Id : i # Owner(s) => sessions'[i] = sessions[i] /\ told'[i] = told[i]
  BY <1>0 DEF RdTypeOK, Tell
<1>4. /\ sessions' \in [Id -> Session \cup {None}] /\ told' \in [Id -> {"nothing", "ready", "closed"}]
      /\ sessions'[Owner(s)] \in {None, sessions[Owner(s)]}
  BY <1>0 DEF RdTypeOK, Tell
<1>5. RdTypeOK'
  BY <1>0, <1>1, <1>4 DEF RdTypeOK, Recs
<1>6. Owners'
  BY <1>0, <1>2, <1>3, <1>4, NoneIsNot DEF RdInv, RdTypeOK, Owners
<1>7. Lone' /\ OpenIsUsed'
  BY <1>1, <1>2 DEF RdInv, Lone, OpenIsUsed
<1>8. \/ UNCHANGED <<sessions, told>>
      \/ Owner(s) \in mixed \/ \A t \in Session : t # s /\ Owner(t) = Owner(s) => ~sess[t].open
  BY <1>0 DEF RdInv, Lone, OpenIsUsed, CanAct
<1>9. Stoppable'
  <2> SUFFICES ASSUME NEW t \in Session, sess'[t].open
               PROVE  sessions'[Owner(t)] = t \/ Owner(t) \in mixed
    BY <1>2 DEF Stoppable
  <2>1. sess[t].open /\ (sessions[Owner(t)] = t \/ Owner(t) \in mixed) /\ Owner(t) \in Id
    BY <1>0, <1>1, RecsAre DEF RdInv, Stoppable, Owner, Recs
  <2>2. CASE t = s
    BY <1>1, <2>1, <2>2
  <2>3. CASE t # s /\ Owner(t) = Owner(s)
    BY <1>4, <1>8, <2>1, <2>3
  <2>4. CASE Owner(t) # Owner(s)
    BY <1>3, <2>1, <2>4
  <2> QED BY <2>2, <2>3, <2>4
<1>10. NewsIsTrue'
  <2> SUFFICES ASSUME NEW i \in Id \ mixed
               PROVE  /\ told'[i] = "ready" => sessions'[i] # None /\ sess'[sessions'[i]].active
                      /\ told'[i] = "closed" =>
                             \A t \in Session : Used(t)' /\ Owner(t)' = i => ~sess'[t].open
    BY DEF NewsIsTrue
  <2>0. /\ told[i] = "ready" => sessions[i] # None /\ sess[sessions[i]].active
        /\ told[i] = "closed" => \A t \in Session : Used(t) /\ Owner(t) = i => ~sess[t].open
    BY DEF RdInv, NewsIsTrue
  <2>1. CASE i # Owner(s)
    <3>1. told'[i] = told[i] /\ sessions'[i] = sessions[i]
      BY <1>3, <2>1
    <3>2. sessions[i] # None => sessions[i] \in Session /\ sessions[i] # s
      BY <1>0, <2>1 DEF RdInv, Owners, RdTypeOK
    <3> QED BY <1>1, <1>2, <2>0, <2>1, <3>1, <3>2 DEF RdInv, OpenIsUsed
  <2>2. CASE i = Owner(s) /\ UNCHANGED <<sessions, told>> /\ (sess[s].active => r.active)
    <3>1. sessions[i] # None => sessions[i] \in Session
      BY <1>0 DEF RdTypeOK
    <3> QED BY <1>1, <1>2, <2>0, <2>2, <3>1 DEF RdInv, OpenIsUsed
  <2>3. CASE i = Owner(s) /\ Tell(Owner(s), "closed") /\ ~r.open
    <3>1. told'[i] = "closed"
      BY <1>0, <2>3 DEF Tell, RdTypeOK
    <3>2. ~UNCHANGED <<sessions, told>> \/ told[i] = "closed"
      BY <3>1
    <3> QED BY <1>1, <1>2, <1>8, <2>0, <2>3, <3>1, <3>2 DEF RdInv, OpenIsUsed
  <2>4. CASE i = Owner(s) /\ UNCHANGED sessions /\ Tell(Owner(s), "ready") /\ r.active /\ sess[s].open
    <3>1. told'[i] = "ready" /\ sessions[i] = s
      BY <1>0, <2>4 DEF Tell, RdTypeOK, RdInv, Stoppable
    <3> QED BY <1>1, <2>4, <3>1, NoneIsNot
  <2> QED BY <2>1, <2>2, <2>3, <2>4
<1>11. OneInFlight'
  BY <1>0, <1>1 DEF RdInv, OneInFlight, Flows, IsVnc
<1> QED BY <1>5, <1>6, <1>7, <1>9, <1>10, <1>11 DEF RdInv

\* One or two fields of a session change.
LEMMA OneField ==
    ASSUME RdTypeOK, NEW s \in Session, NEW p \in Phases, sess' = [sess EXCEPT ![s].phase = p]
    PROVE  \E r \in Recs :
               /\ sess' = [sess EXCEPT ![s] = r] /\ r.phase = p
               /\ r.id = sess[s].id /\ r.open = sess[s].open /\ r.active = sess[s].active
               /\ r.pending = sess[s].pending /\ r.buffered = sess[s].buffered /\ r.owed = sess[s].owed
<1> DEFINE r == [sess[s] EXCEPT !.phase = p]
<1>1. sess[s] \in Recs
  BY RecsAre
<1>2. /\ r \in Recs /\ r.phase = p
      /\ r.id = sess[s].id /\ r.open = sess[s].open /\ r.active = sess[s].active
      /\ r.pending = sess[s].pending /\ r.buffered = sess[s].buffered /\ r.owed = sess[s].owed
  BY <1>1 DEF Recs
<1>3. sess' = [sess EXCEPT ![s] = r]
  BY DEF RdTypeOK
<1> QED BY <1>2, <1>3

LEMMA MovesKeeps ==
    ASSUME RdInv, NEW s \in Session, NEW p \in Phases \ {"unused"}, sess[s].open, Moves(s, p)
    PROVE  RdInv'
<1>1. PICK r \in Recs :
          /\ sess' = [sess EXCEPT ![s] = r] /\ r.phase = p
          /\ r.id = sess[s].id /\ r.open = sess[s].open /\ r.active = sess[s].active
          /\ r.pending = sess[s].pending /\ r.buffered = sess[s].buffered /\ r.owed = sess[s].owed
  BY OneField DEF RdInv, Moves
<1>2. Flows(r)
  BY <1>1 DEF RdInv, OneInFlight, Flows, IsVnc
<1>3. CanAct(s)
  BY DEF RdInv, OpenIsUsed, CanAct
<1>4. UNCHANGED <<sessions, told, mixed>>
  BY DEF Moves
<1> QED BY <1>1, <1>2, <1>3, <1>4, SessionStep

LEMMA FailedRec ==
    ASSUME NEW x \in Recs
    PROVE  /\ [[x EXCEPT !.promise = "failed"] EXCEPT !.open = FALSE] \in Recs
           /\ [[x EXCEPT !.promise = "failed"] EXCEPT !.open = FALSE].id = x.id
           /\ [[x EXCEPT !.promise = "failed"] EXCEPT !.open = FALSE].phase = x.phase
           /\ [[x EXCEPT !.promise = "failed"] EXCEPT !.open = FALSE].open = FALSE
  BY DEF Recs

LEMMA StartFailsKeeps ==
    ASSUME RdInv, NEW s \in Session, CanAct(s), StartFails(s)
    PROVE  RdInv'
<1> DEFINE r == [[sess[s] EXCEPT !.promise = "failed"] EXCEPT !.open = FALSE]
<1>1. sess[s] \in Recs
  BY RecsAre DEF RdInv
<1>2. r \in Recs /\ r.id = sess[s].id /\ r.phase = sess[s].phase /\ r.open = FALSE
  BY <1>1, FailedRec
<1>3. sess' = [sess EXCEPT ![s] = r]
  BY <1>1 DEF StartFails, RdInv, RdTypeOK
<1> HIDE DEF r
<1>4. r.phase # "unused" /\ Flows(r) /\ ~r.open
  BY <1>2 DEF CanAct, Used, Flows
<1>5. UNCHANGED mixed /\ sessions' = [sessions EXCEPT ![Owner(s)] = None] /\ Tell(Owner(s), "closed")
  BY DEF StartFails
<1> QED BY <1>2, <1>3, <1>4, <1>5, SessionStep

LEMMA ClosedRec ==
    ASSUME NEW x \in Recs
    PROVE  /\ [[x EXCEPT !.open = FALSE] EXCEPT !.active = FALSE] \in Recs
           /\ [[x EXCEPT !.open = FALSE] EXCEPT !.active = FALSE].id = x.id
           /\ [[x EXCEPT !.open = FALSE] EXCEPT !.active = FALSE].phase = x.phase
           /\ [[x EXCEPT !.open = FALSE] EXCEPT !.active = FALSE].open = FALSE
  BY DEF Recs

LEMMA EndsKeep ==
    ASSUME RdInv, NEW s \in Session, sess[s].open, ErrorEvent(s) \/ CloseEvent(s)
    PROVE  RdInv'
<1> DEFINE r == [[sess[s] EXCEPT !.open = FALSE] EXCEPT !.active = FALSE]
<1>1. sess[s] \in Recs
  BY RecsAre DEF RdInv
<1>2. r \in Recs /\ r.id = sess[s].id /\ r.phase = sess[s].phase /\ r.open = FALSE
  BY <1>1, ClosedRec
<1>3. sess' = [sess EXCEPT ![s] = r]
  BY <1>1 DEF ErrorEvent, CloseEvent, RdInv, RdTypeOK
<1> HIDE DEF r
<1>4. CanAct(s) /\ r.phase # "unused" /\ Flows(r) /\ ~r.open
  BY <1>2 DEF RdInv, OpenIsUsed, CanAct, Used, Flows
<1>5. UNCHANGED <<sessions, mixed>> /\ (Tell(Owner(s), "closed") \/ (UNCHANGED told /\ ~sess[s].active))
  BY DEF ErrorEvent, CloseEvent
<1> QED BY <1>2, <1>3, <1>4, <1>5, SessionStep

LEMMA RdStarts == RdInit => RdInv
<1> SUFFICES ASSUME RdInit PROVE RdInv
  OBVIOUS
<1>0. (CHOOSE i \in Id : TRUE) \in Id
  BY SomeId DEF Id
<1>1. Blank \in Recs /\ Blank.phase = "unused" /\ Blank.open = FALSE /\ Blank.active = FALSE
  BY <1>0, BoundsAssumption DEF Blank, Recs, Phases
<1>2. RdTypeOK
  BY <1>1 DEF RdInit, RdTypeOK, Recs
<1> QED BY <1>1, <1>2 DEF RdInit, RdInv, Owners, Lone, CanAct, Used, OpenIsUsed, Stoppable,
     NewsIsTrue, OneInFlight

LEMMA LostRec ==
    ASSUME NEW x \in Recs, x.tries < MaxReconnects
    PROVE  /\ [[x EXCEPT !.phase = "delay"] EXCEPT !.tries = x.tries + 1] \in Recs
           /\ [[x EXCEPT !.phase = "delay"] EXCEPT !.tries = x.tries + 1].phase = "delay"
           /\ [[x EXCEPT !.phase = "delay"] EXCEPT !.tries = x.tries + 1].id = x.id
           /\ [[x EXCEPT !.phase = "delay"] EXCEPT !.tries = x.tries + 1].open = x.open
           /\ [[x EXCEPT !.phase = "delay"] EXCEPT !.tries = x.tries + 1].active = x.active
           /\ [[x EXCEPT !.phase = "delay"] EXCEPT !.tries = x.tries + 1].pending = x.pending
           /\ [[x EXCEPT !.phase = "delay"] EXCEPT !.tries = x.tries + 1].buffered = x.buffered
           /\ [[x EXCEPT !.phase = "delay"] EXCEPT !.tries = x.tries + 1].owed = x.owed
<1>1. x.tries + 1 \in 0..MaxReconnects /\ "delay" \in Phases
  BY BoundsAssumption DEF Recs, Phases
<1> QED BY <1>1 DEF Recs

\* A session that only moves on, seen as a new record.
LEMMA PlainStep ==
    ASSUME RdInv, NEW s \in Session, NEW r \in Recs, sess' = [sess EXCEPT ![s] = r],
           sess[s].open, UNCHANGED <<sessions, told, mixed>>, r.phase # "unused",
           r.id = sess[s].id, r.open = sess[s].open, r.active = sess[s].active,
           r.pending = sess[s].pending, r.buffered = sess[s].buffered, r.owed = sess[s].owed
    PROVE  RdInv'
<1>1. Flows(r)
  BY DEF RdInv, OneInFlight, Flows, IsVnc
<1>2. CanAct(s)
  BY DEF RdInv, OpenIsUsed, CanAct
<1> QED BY <1>1, <1>2, SessionStep

LEMMA VersionKeeps ==
    ASSUME RdInv, NEW s \in Session, VncVersion(s)
    PROVE  RdInv'
<1>1. CanAct(s) /\ sess[s].open
  BY DEF RdInv, OpenIsUsed, CanAct, VncVersion
<1>2. CASE StartFails(s)
  BY <1>1, <1>2, StartFailsKeeps
<1>3. ASSUME NEW m \in {3, 7, 8}, UNCHANGED <<sessions, told, mixed>>,
             sess' = [sess EXCEPT ![s].minor = m, ![s].phase = IF m = 3 THEN "auth_type" ELSE "types"]
      PROVE  RdInv'
  <2>0. PICK p \in Phases \ {"unused"} : p = IF m = 3 THEN "auth_type" ELSE "types"
    BY DEF Phases, VncWaits
  <2>1. PICK x \in Recs : x = sess[s]
    BY RecsAre DEF RdInv
  <2> DEFINE r == [[x EXCEPT !.minor = m] EXCEPT !.phase = p]
  <2>2. /\ r \in Recs /\ r.phase = p
        /\ r.id = sess[s].id /\ r.open = sess[s].open /\ r.active = sess[s].active
        /\ r.pending = sess[s].pending /\ r.buffered = sess[s].buffered /\ r.owed = sess[s].owed
    <3>1. p \in Phases
      OBVIOUS
    <3>2. /\ r \in Recs /\ r.phase = p /\ r.id = x.id /\ r.open = x.open /\ r.active = x.active
          /\ r.pending = x.pending /\ r.buffered = x.buffered /\ r.owed = x.owed
      BY <3>1 DEF Recs
    <3> QED BY <2>1, <3>2
  <2>3. sess' = [sess EXCEPT ![s].minor = m, ![s].phase = p]
    BY <1>3, <2>0
  <2>4. sess' = [sess EXCEPT ![s] = r]
    BY <2>1, <2>3 DEF RdInv, RdTypeOK
  <2> HIDE DEF r
  <2> QED BY <1>1, <1>3, <2>0, <2>2, <2>4, PlainStep
<1> QED BY <1>2, <1>3 DEF VncVersion

LEMMA LostKeeps ==
    ASSUME RdInv, NEW s \in Session, RdpCloses(s)
    PROVE  RdInv'
<1>1. sess[s].open /\ sess[s] \in Recs
  BY RecsAre DEF RdpCloses, RdInv
<1>2. CASE CloseEvent(s)
  BY <1>1, <1>2, EndsKeep
<1>3. CASE /\ sess[s].tries < MaxReconnects
           /\ sess' = [sess EXCEPT ![s].phase = "delay", ![s].tries = @ + 1]
           /\ UNCHANGED <<sessions, told, mixed>>
  <2> DEFINE r == [[sess[s] EXCEPT !.phase = "delay"] EXCEPT !.tries = sess[s].tries + 1]
  <2>2. /\ r \in Recs /\ r.phase = "delay"
        /\ r.id = sess[s].id /\ r.open = sess[s].open /\ r.active = sess[s].active
        /\ r.pending = sess[s].pending /\ r.buffered = sess[s].buffered /\ r.owed = sess[s].owed
    BY <1>1, <1>3, LostRec
  <2>4. sess' = [sess EXCEPT ![s] = r]
    BY <1>1, <1>3 DEF RdInv, RdTypeOK, Recs
  <2> HIDE DEF r
  <2> QED BY <1>1, <1>3, <2>2, <2>4, PlainStep
<1> QED BY <1>2, <1>3 DEF RdpCloses

\* What a request leaves of a session and what it sets.
Same(r, x) ==
    /\ r.id = x.id /\ r.phase = x.phase /\ r.promise = x.promise
    /\ r.open = x.open /\ r.active = x.active

LEMMA RequestIs ==
    ASSUME NEW x \in Recs
    PROVE  /\ Request(x) \in Recs /\ Same(Request(x), x)
           /\ Request(x).pending /\ Request(x).buffered = x.buffered
           /\ Request(x).owed <=> x.owed \/ x.open
<1> DEFINE o == x.owed \/ x.open
<1>1. o \in BOOLEAN
  BY DEF Recs
<1>2. PICK z \in BOOLEAN : z = o
  BY <1>1
<1>3. Request(x) = [x EXCEPT !.owed = z, !.pending = TRUE]
  BY <1>2 DEF Request
<1>4. /\ [x EXCEPT !.owed = z, !.pending = TRUE] \in Recs
      /\ Same([x EXCEPT !.owed = z, !.pending = TRUE], x)
      /\ [x EXCEPT !.owed = z, !.pending = TRUE].pending = TRUE
      /\ [x EXCEPT !.owed = z, !.pending = TRUE].buffered = x.buffered
      /\ [x EXCEPT !.owed = z, !.pending = TRUE].owed = z
  BY DEF Recs, Same
<1> QED BY <1>2, <1>3, <1>4

LEMMA ReadyKeeps ==
    ASSUME RdInv, NEW s \in Session, VncReady(s)
    PROVE  RdInv'
<1>1. PICK v \in BOOLEAN :
        sess' = [sess EXCEPT ![s] = Request([@ EXCEPT !.phase = "running", !.promise = "ready",
                                                      !.active = TRUE, !.open = v])]
  BY DEF VncReady
<1>2. PICK x \in Recs : x = sess[s]
  BY RecsAre DEF RdInv
<1> DEFINE q == [x EXCEPT !.phase = "running", !.promise = "ready", !.active = TRUE, !.open = v]
<1>3. q \in Recs /\ q.id = x.id /\ q.phase = "running" /\ q.active = TRUE /\ q.open = v
  BY DEF Recs, Phases
<1>5. sess' = [sess EXCEPT ![s] = Request(q)]
  BY <1>1, <1>2 DEF RdInv, RdTypeOK
<1> HIDE DEF q
<1>4. /\ Request(q) \in Recs /\ Same(Request(q), q) /\ Request(q).pending
      /\ Request(q).owed <=> q.owed \/ q.open
  BY <1>3, RequestIs
<1>6. /\ Request(q).id = sess[s].id /\ Request(q).phase # "unused"
      /\ Request(q).active /\ Flows(Request(q))
  BY <1>2, <1>3, <1>4 DEF Same, Flows
<1>7. CanAct(s) /\ sess[s].open
  BY DEF RdInv, OpenIsUsed, CanAct, VncReady
<1>8. UNCHANGED <<sessions, mixed>> /\ Tell(Owner(s), "ready")
  BY DEF VncReady
<1> QED BY <1>4, <1>5, <1>6, <1>7, <1>8, SessionStep

\* The pipeline: only flags of the session change.
LEMMA FlagsKeep ==
    ASSUME RdInv, NEW s \in Session, Used(s), UNCHANGED <<sessions, told, mixed>>,
           NEW r \in Recs, sess' = [sess EXCEPT ![s] = r], Same(r, sess[s]), Flows(r)
    PROVE  RdInv'
  BY SessionStep DEF Used, Same

LEMMA InputKeeps ==
    ASSUME RdInv, NEW i \in Id, FrameRequest(i)
    PROVE  RdInv'
<1>1. PICK s \in Session : s = sessions[i] /\ Used(s)
  BY DEF FrameRequest, RdInv, RdTypeOK, Owners
<1>2. PICK x \in Recs : x = sess[s]
  BY <1>1, RecsAre DEF RdInv
<1>3. UNCHANGED <<sessions, told, mixed>>
  BY DEF FrameRequest
<1>4. sess' = [sess EXCEPT ![s] = IF IsVnc(s) THEN VncInput(x) ELSE RdpInput(x)]
  BY <1>1, <1>2 DEF FrameRequest, RdInv, RdTypeOK
<1>5. Flows(x)
  BY <1>2 DEF RdInv, OneInFlight, Flows, IsVnc
<1>6. CASE x.pending
  <2> DEFINE r == [x EXCEPT !.buffered = TRUE]
  <2>1. /\ r \in Recs /\ Same(r, x) /\ r.pending = x.pending /\ r.owed = x.owed
    BY DEF Recs, Same
  <2>2. sess' = [sess EXCEPT ![s] = r]
    BY <1>4, <1>6 DEF VncInput, RdpInput
  <2> HIDE DEF r
  <2>3. Flows(r)
    BY <1>5, <1>6, <2>1 DEF Flows, Same
  <2> QED BY <1>1, <1>2, <1>3, <2>1, <2>2, <2>3, FlagsKeep
<1>7. CASE ~x.pending /\ IsVnc(s)
  <2>1. sess' = [sess EXCEPT ![s] = Request(x)]
    BY <1>4, <1>7 DEF VncInput
  <2>2. /\ Request(x) \in Recs /\ Same(Request(x), x) /\ Request(x).pending
        /\ Request(x).owed <=> x.owed \/ x.open
    BY RequestIs
  <2>3. Flows(Request(x))
    BY <2>2 DEF Flows, Same
  <2> QED BY <1>1, <1>2, <1>3, <2>1, <2>2, <2>3, FlagsKeep
<1>8. CASE ~x.pending /\ ~IsVnc(s)
  <2> DEFINE r == [x EXCEPT !.pending = TRUE]
  <2>1. r \in Recs /\ Same(r, x)
    BY DEF Recs, Same
  <2>2. sess' = [sess EXCEPT ![s] = r]
    BY <1>4, <1>8 DEF RdpInput
  <2> HIDE DEF r
  <2>3. Flows(r)
    BY <1>2, <1>8, <2>1 DEF Flows, Same, IsVnc
  <2> QED BY <1>1, <1>2, <1>3, <2>1, <2>2, <2>3, FlagsKeep
<1> QED BY <1>6, <1>7, <1>8

LEMMA UpdateKeeps ==
    ASSUME RdInv, NEW s \in Session, VncUpdate(s)
    PROVE  RdInv'
<1>1. PICK n \in {0, 1} : sess' = [sess EXCEPT ![s] = Update(@, n)]
  BY DEF VncUpdate
<1>2. PICK x \in Recs : x = sess[s]
  BY RecsAre DEF RdInv
<1>3. UNCHANGED <<sessions, told, mixed>> /\ Used(s)
  BY DEF VncUpdate, Used
<1> DEFINE sent == [x EXCEPT !.owed = FALSE]
           idle == [sent EXCEPT !.pending = FALSE]
           next == [sent EXCEPT !.buffered = FALSE]
<1>4. /\ sent \in Recs /\ Same(sent, x) /\ sent.buffered = x.buffered /\ sent.pending = x.pending
      /\ sent.owed = FALSE
  BY DEF Recs, Same
<1>5. sess' = [sess EXCEPT ![s] = IF x.active /\ x.buffered THEN Request(next) ELSE idle]
  BY <1>1, <1>2 DEF Update, RdInv, RdTypeOK
<1>6. Flows(x)
  BY <1>2 DEF RdInv, OneInFlight, Flows, IsVnc
<1>7. CASE x.active /\ x.buffered
  <2>0. sess' = [sess EXCEPT ![s] = Request(next)]
    BY <1>5, <1>7
  <2> HIDE DEF sent
  <2>1. next \in Recs /\ Same(next, x)
    BY <1>4 DEF Recs, Same
  <2> HIDE DEF next
  <2>2. /\ Request(next) \in Recs /\ Same(Request(next), next) /\ Request(next).pending
        /\ Request(next).owed <=> next.owed \/ next.open
    BY <2>1, RequestIs
  <2>3. Same(Request(next), x) /\ Flows(Request(next))
    BY <2>1, <2>2 DEF Flows, Same
  <2> QED BY <1>2, <1>3, <2>0, <2>2, <2>3, FlagsKeep
<1>8. CASE ~(x.active /\ x.buffered)
  <2>0. sess' = [sess EXCEPT ![s] = idle]
    BY <1>5, <1>8
  <2> HIDE DEF sent
  <2>1. /\ idle \in Recs /\ Same(idle, x) /\ idle.pending = FALSE /\ idle.owed = FALSE
        /\ idle.buffered = x.buffered
    BY <1>4 DEF Recs, Same
  <2> HIDE DEF idle
  <2>2. Flows(idle)
    BY <1>8, <2>1 DEF Flows, Same
  <2> QED BY <1>2, <1>3, <2>0, <2>1, <2>2, FlagsKeep
<1> QED BY <1>7, <1>8

LEMMA BitmapKeeps ==
    ASSUME RdInv, NEW s \in Session, RdpUpdate(s)
    PROVE  RdInv'
<1>1. PICK x \in Recs : x = sess[s]
  BY RecsAre DEF RdInv
<1>2. PICK b \in BOOLEAN : b = (x.buffered /\ ~x.active)
  BY <1>1 DEF Recs
<1> DEFINE r == [[x EXCEPT !.pending = FALSE] EXCEPT !.buffered = b]
<1>3. r \in Recs /\ Same(r, x)
  BY DEF Recs, Same
<1>4. sess' = [sess EXCEPT ![s].pending = FALSE, ![s].buffered = sess[s].buffered /\ ~sess[s].active]
  BY <1>1 DEF RdpUpdate, RdInv, RdTypeOK, Recs
<1>5. sess' = [sess EXCEPT ![s] = r]
  BY <1>1, <1>2, <1>4 DEF RdInv, RdTypeOK
<1> HIDE DEF r
<1>6. Flows(r) /\ Used(s)
  BY <1>1, <1>3 DEF Flows, Same, RdpUpdate, IsVnc, Used
<1>7. UNCHANGED <<sessions, told, mixed>>
  BY DEF RdpUpdate
<1> QED BY <1>1, <1>3, <1>5, <1>6, <1>7, FlagsKeep

LEMMA RunsKeep ==
    ASSUME RdInv, NEW s \in Session, ~IsVnc(s), sess[s].open, RdpRuns(s)
    PROVE  RdInv'
<1>1. PICK x \in Recs : x = sess[s]
  BY RecsAre DEF RdInv
<1>2. CASE sess[s].promise # "pending"
  BY <1>2, MovesKeeps DEF RdpRuns, Phases
<1>3. CASE sess[s].promise = "pending"
  <2> DEFINE r == [[[x EXCEPT !.phase = "running"] EXCEPT !.promise = "ready"] EXCEPT !.active = TRUE]
  <2>1. r \in Recs /\ r.id = x.id /\ r.phase = "running" /\ r.open = x.open /\ r.active = TRUE
    BY DEF Recs, Phases
  <2>2. sess' = [sess EXCEPT ![s] = r]
    BY <1>1, <1>3 DEF RdpRuns, RdInv, RdTypeOK
  <2> HIDE DEF r
  <2>3. Flows(r) /\ CanAct(s)
    BY <1>1, <2>1 DEF Flows, IsVnc, RdInv, OpenIsUsed, CanAct
  <2>4. UNCHANGED <<sessions, mixed>> /\ Tell(Owner(s), "ready")
    BY <1>3 DEF RdpRuns
  <2> QED BY <1>1, <2>1, <2>2, <2>3, <2>4, SessionStep
<1> QED BY <1>2, <1>3

LEMMA FailsKeep ==
    ASSUME RdInv, NEW s \in Session, ~IsVnc(s), HandshakeFails(s),
           sess[s].open \/ Reading(s)
    PROVE  RdInv'
<1>1. CASE sess[s].promise = "pending"
  <2>1. "unused" \notin RdpReads
    BY DEF RdpReads
  <2>2. CanAct(s)
    BY <1>1, <2>1 DEF RdInv, OpenIsUsed, CanAct, Used, Reading
  <2> QED BY <1>1, <2>2, StartFailsKeeps DEF HandshakeFails
<1>2. CASE sess[s].promise # "pending"
  BY <1>2, EndsKeep DEF HandshakeFails
<1> QED BY <1>1, <1>2

LEMMA FreshRec ==
    ASSUME NEW i \in Id, NEW p \in {"version", "tcp"}
    PROVE  /\ [Blank EXCEPT !.id = i, !.open = TRUE, !.phase = p] \in Recs
           /\ [Blank EXCEPT !.id = i, !.open = TRUE, !.phase = p].id = i
           /\ [Blank EXCEPT !.id = i, !.open = TRUE, !.phase = p].open = TRUE
           /\ [Blank EXCEPT !.id = i, !.open = TRUE, !.phase = p].active = FALSE
           /\ [Blank EXCEPT !.id = i, !.open = TRUE, !.phase = p].phase # "unused"
<1>0. (CHOOSE j \in Id : TRUE) \in Id
  BY SomeId DEF Id
<1>1. Blank \in Recs /\ Blank.active = FALSE
  BY <1>0, BoundsAssumption DEF Blank, Recs, Phases
<1>2. p \in Phases /\ p # "unused"
  BY DEF Phases, VncWaits, RdpWaits
<1> HIDE DEF Blank
<1> QED BY <1>1, <1>2 DEF Recs

\* A start: only where no session of the id can act does the entry mean what it says.
LEMMA StartKeeps ==
    ASSUME RdInv, NEW i \in Id, StartSession(i)
    PROVE  RdInv'
<1>1. PICK s \in Session :
        /\ ~Used(s)
        /\ sess' = [sess EXCEPT ![s] = IF i \in VncId THEN VncFresh(i) ELSE RdpFresh(i)]
        /\ sessions' = [sessions EXCEPT ![i] = s]
        /\ mixed' = IF \E t \in Session : Owner(t) = i /\ CanAct(t)
                    THEN mixed \cup {i} ELSE mixed
        /\ Tell(i, "nothing")
  BY DEF StartSession
<1>2. PICK r \in Recs : /\ sess' = [sess EXCEPT ![s] = r] /\ r.id = i /\ r.open /\ ~r.active
                        /\ r.phase # "unused"
  <2>1. CASE i \in VncId
    BY <1>1, <2>1, FreshRec DEF VncFresh
  <2>2. CASE i \notin VncId
    BY <1>1, <2>2, FreshRec DEF RdpFresh
  <2> QED BY <2>1, <2>2
<1>3. RdTypeOK
  BY DEF RdInv
<1>4. /\ sess' \in [Session -> Recs] /\ sess'[s] = r
      /\ \A t \in Session : t # s => sess'[t] = sess[t]
  BY <1>2, <1>3 DEF RdTypeOK, Recs
<1>5. /\ \A j \in Id : j # i => sessions'[j] = sessions[j] /\ told'[j] = told[j]
      /\ sessions'[i] = s /\ told'[i] = "nothing"
      /\ sessions' \in [Id -> Session \cup {None}] /\ told' \in [Id -> {"nothing", "ready", "closed"}]
  BY <1>1, <1>3 DEF RdTypeOK, Tell
<1>6. /\ mixed' \subseteq Id /\ mixed \subseteq mixed'
      /\ i \notin mixed' => \A t \in Session : Owner(t) = i => ~CanAct(t)
  BY <1>1, <1>3 DEF RdTypeOK
<1>7. \A t \in Session : t # s =>
          /\ Owner(t)' = Owner(t) /\ (CanAct(t)' <=> CanAct(t)) /\ (Used(t)' <=> Used(t))
  BY <1>4 DEF Owner, CanAct, Used, Reading, IsVnc
<1>8. Owner(s)' = i /\ Used(s)' /\ Owner(s)' \in Id
  BY <1>2, <1>4 DEF Owner, Used
<1>9. RdTypeOK'
  BY <1>4, <1>5, <1>6 DEF RdTypeOK, Recs
<1>10. Owners'
  <2> SUFFICES ASSUME NEW j \in Id, sessions'[j] # None
               PROVE  Used(sessions[j])' /\ Owner(sessions[j])' = j
    BY DEF Owners
  <2>1. CASE j = i
    BY <1>5, <1>8, <2>1 DEF Used, Owner
  <2>2. CASE j # i
    <3>1. sessions'[j] = sessions[j] /\ sessions[j] \in Session
      BY <1>3, <1>5, <2>2 DEF RdTypeOK
    <3>2. Used(sessions[j]) /\ Owner(sessions[j]) = j
      BY <3>1 DEF RdInv, Owners
    <3>3. sessions[j] # s
      BY <1>1, <3>2
    <3> QED BY <1>4, <3>1, <3>2, <3>3 DEF Used, Owner
  <2> QED BY <2>1, <2>2
<1>11. Lone'
  <2> SUFFICES ASSUME NEW t \in Session, NEW u \in Session, CanAct(t)', CanAct(u)',
                      Owner(t)' = Owner(u)', Owner(t)' \notin mixed'
               PROVE  t = u
    BY DEF Lone
  <2>1. CASE t # s /\ u # s
    BY <1>6, <1>7, <2>1 DEF RdInv, Lone
  <2>2. CASE t = s /\ u # s
    BY <1>6, <1>7, <1>8, <2>2
  <2>3. CASE t # s /\ u = s
    BY <1>6, <1>7, <1>8, <2>3
  <2> QED BY <2>1, <2>2, <2>3
<1>12. OpenIsUsed'
  BY <1>4, <1>7, <1>8 DEF RdInv, OpenIsUsed
<1>13. Stoppable'
  <2> SUFFICES ASSUME NEW t \in Session, sess'[t].open
               PROVE  sessions'[Owner(t)'] = t \/ Owner(t)' \in mixed'
    BY DEF Stoppable
  <2>1. CASE t = s
    BY <1>5, <1>8, <2>1
  <2>2. CASE t # s
    <3>1. sess[t].open /\ Owner(t)' = Owner(t) /\ Owner(t) \in Id /\ CanAct(t)
      BY <1>3, <1>4, <1>7, <2>2, RecsAre DEF RdInv, OpenIsUsed, CanAct, Owner, Recs
    <3> QED BY <1>5, <1>6, <3>1 DEF RdInv, Stoppable
  <2> QED BY <2>1, <2>2
<1>14. NewsIsTrue'
  <2> SUFFICES ASSUME NEW j \in Id \ mixed'
               PROVE  /\ told'[j] = "ready" => sessions'[j] # None /\ sess'[sessions'[j]].active
                      /\ told'[j] = "closed" =>
                             \A t \in Session : Used(t)' /\ Owner(t)' = j => ~sess'[t].open
    BY DEF NewsIsTrue
  <2>1. CASE j = i
    BY <1>5, <2>1
  <2>2. CASE j # i
    <3>1. told'[j] = told[j] /\ sessions'[j] = sessions[j] /\ j \in Id \ mixed
      BY <1>5, <1>6, <2>2
    <3>2. sessions[j] # None => sessions[j] \in Session /\ sessions[j] # s
      BY <1>1, <1>3 DEF RdInv, Owners, RdTypeOK
    <3> QED BY <1>4, <1>7, <1>8, <2>2, <3>1, <3>2 DEF RdInv, NewsIsTrue
  <2> QED BY <2>1, <2>2
<1>15. OneInFlight'
  <2>1. \A t \in Session : sess'[t] = sess[t] \/ ~sess'[t].active
    BY <1>2, <1>4
  <2> QED BY <2>1 DEF RdInv, OneInFlight, IsVnc
<1> QED BY <1>9, <1>10, <1>11, <1>12, <1>13, <1>14, <1>15 DEF RdInv

LEMMA StoppedRec ==
    ASSUME NEW x \in Recs
    PROVE  /\ [x EXCEPT !.active = FALSE, !.open = FALSE] \in Recs
           /\ [x EXCEPT !.active = FALSE, !.open = FALSE].id = x.id
           /\ [x EXCEPT !.active = FALSE, !.open = FALSE].phase = x.phase
           /\ [x EXCEPT !.active = FALSE, !.open = FALSE].promise = x.promise
           /\ [x EXCEPT !.active = FALSE, !.open = FALSE].open = FALSE
  BY DEF Recs

\* The sessions a set of ids maps to are stopped: a close frame's one, a lost link's all.
LEMMA StopKeeps ==
    ASSUME RdInv, NEW K \in SUBSET Id, UNCHANGED mixed,
           sess' = [s \in Session |-> IF \E i \in K : sessions[i] = s THEN Stopped(s) ELSE sess[s]],
           sessions' = [i \in Id |-> IF i \in K THEN None ELSE sessions[i]],
           told' = [i \in Id |-> IF i \in K THEN "nothing" ELSE told[i]]
    PROVE  RdInv'
<1>0. RdTypeOK
  BY DEF RdInv
<1>1. \A s \in Session :
          /\ Stopped(s) \in Recs /\ Stopped(s).id = sess[s].id /\ Stopped(s).phase = sess[s].phase
          /\ Stopped(s).promise = sess[s].promise /\ ~Stopped(s).open
  BY <1>0, RecsAre, StoppedRec DEF Stopped
<1>2. \A s \in Session :
          /\ sess'[s] \in Recs /\ sess'[s].id = sess[s].id /\ sess'[s].phase = sess[s].phase
          /\ sess'[s].promise = sess[s].promise /\ (sess'[s].open => sess[s].open)
          /\ sess'[s] = sess[s] \/ (~sess'[s].open /\ \E i \in K : sessions[i] = s)
          /\ (\E i \in K : sessions[i] = s) => ~sess'[s].open
  <2> SUFFICES ASSUME NEW s \in Session
               PROVE /\ sess'[s] \in Recs /\ sess'[s].id = sess[s].id /\ sess'[s].phase = sess[s].phase
                     /\ sess'[s].promise = sess[s].promise /\ (sess'[s].open => sess[s].open)
                     /\ sess'[s] = sess[s] \/ (~sess'[s].open /\ \E i \in K : sessions[i] = s)
                     /\ (\E i \in K : sessions[i] = s) => ~sess'[s].open
    OBVIOUS
  <2>1. CASE \E i \in K : sessions[i] = s
    <3>1. sess'[s] = Stopped(s)
      BY <2>1
    <3> QED BY <1>1, <2>1, <3>1
  <2>2. CASE ~\E i \in K : sessions[i] = s
    <3>1. sess'[s] = sess[s]
      BY <2>2
    <3> QED BY <1>0, <2>2, <3>1, RecsAre
  <2> QED BY <2>1, <2>2
<1>3. \A s \in Session :
          /\ Owner(s)' = Owner(s) /\ (Used(s)' <=> Used(s)) /\ (CanAct(s)' => CanAct(s))
  BY <1>2 DEF Owner, Used, CanAct, Reading, IsVnc
<1>4. /\ \A i \in K : sessions'[i] = None /\ told'[i] = "nothing"
      /\ \A i \in Id \ K : sessions'[i] = sessions[i] /\ told'[i] = told[i]
  OBVIOUS
<1>5. sess' \in [Session -> Recs]
  <2>1. sess' = [s \in Session |-> sess'[s]]
    OBVIOUS
  <2> QED BY <1>2, <2>1
<1>6. RdTypeOK'
  BY <1>0, <1>5 DEF RdTypeOK, Recs
<1>7. Owners'
  BY <1>0, <1>3, <1>4 DEF RdInv, RdTypeOK, Owners, Used, Owner
<1>8. Lone' /\ OpenIsUsed'
  BY <1>2, <1>3 DEF RdInv, Lone, OpenIsUsed
<1>9. Stoppable'
  <2> SUFFICES ASSUME NEW s \in Session, sess'[s].open
               PROVE  sessions'[Owner(s)] = s \/ Owner(s) \in mixed
    BY <1>3 DEF Stoppable
  <2>1. sess[s].open /\ (sessions[Owner(s)] = s \/ Owner(s) \in mixed) /\ Owner(s) \in Id
    BY <1>0, <1>2, RecsAre DEF RdInv, Stoppable, Owner, Recs
  <2>2. ~\E i \in K : sessions[i] = s
    BY <1>2
  <2> QED BY <1>4, <2>1, <2>2
<1>10. NewsIsTrue'
  <2> SUFFICES ASSUME NEW i \in Id \ mixed
               PROVE  /\ told'[i] = "ready" => sessions'[i] # None /\ sess'[sessions'[i]].active
                      /\ told'[i] = "closed" =>
                             \A t \in Session : Used(t)' /\ Owner(t)' = i => ~sess'[t].open
    BY DEF NewsIsTrue
  <2>1. CASE i \in K
    BY <1>4, <2>1
  <2>2. CASE i \notin K
    <3>1. told'[i] = told[i] /\ sessions'[i] = sessions[i]
      BY <1>4, <2>2
    <3>2. /\ told[i] = "ready" => sessions[i] # None /\ sess[sessions[i]].active
          /\ told[i] = "closed" => \A t \in Session : Used(t) /\ Owner(t) = i => ~sess[t].open
      BY DEF RdInv, NewsIsTrue
    <3>3. sessions[i] # None => sessions[i] \in Session /\ Owner(sessions[i]) = i
      BY <1>0 DEF RdInv, RdTypeOK, Owners
    <3>4. \A k \in K : sessions[k] # None => Owner(sessions[k]) = k
      BY DEF RdInv, Owners
    <3>5. sessions[i] # None => sess'[sessions[i]] = sess[sessions[i]]
      BY <1>2, <2>2, <3>3, <3>4
    <3> QED BY <1>2, <1>3, <3>1, <3>2, <3>5
  <2> QED BY <2>1, <2>2
<1>11. OneInFlight'
  BY <1>2 DEF RdInv, OneInFlight, IsVnc
<1> QED BY <1>6, <1>7, <1>8, <1>9, <1>10, <1>11 DEF RdInv

LEMMA CloseKeeps ==
    ASSUME RdInv, NEW i \in Id, Close(i)
    PROVE  RdInv'
<1>1. RdTypeOK /\ sessions[i] \in Session
  BY DEF RdInv, RdTypeOK, Close
<1>2. sess' = [s \in Session |-> IF \E k \in {i} : sessions[k] = s THEN Stopped(s) ELSE sess[s]]
  BY <1>1 DEF Close, RdTypeOK
<1>3. /\ sessions' = [k \in Id |-> IF k \in {i} THEN None ELSE sessions[k]]
      /\ told' = [k \in Id |-> IF k \in {i} THEN "nothing" ELSE told[k]]
      /\ UNCHANGED mixed /\ {i} \in SUBSET Id
  BY <1>1 DEF Close, Tell, RdTypeOK
<1> QED BY <1>2, <1>3, StopKeeps

LEMMA StopAllKeeps ==
    ASSUME RdInv, StopAll
    PROVE  RdInv'
<1>1. /\ sess' = [s \in Session |-> IF \E k \in Id : sessions[k] = s THEN Stopped(s) ELSE sess[s]]
      /\ sessions' = [k \in Id |-> IF k \in Id THEN None ELSE sessions[k]]
      /\ told' = [k \in Id |-> IF k \in Id THEN "nothing" ELSE told[k]]
      /\ UNCHANGED mixed /\ Id \in SUBSET Id
  BY DEF StopAll
<1> QED BY <1>1, StopKeeps

LEMMA VncKeeps ==
    ASSUME RdInv, NEW s \in Session, Vnc(s)
    PROVE  RdInv'
<1>0. sess[s].open => CanAct(s)
  BY DEF RdInv, OpenIsUsed, CanAct
<1>1. CASE VncVersion(s)
  BY <1>1, VersionKeeps
<1>2. CASE VncSecurity(s)
  <2>1. \A p \in {"challenge", "result", "init"} : p \in Phases \ {"unused"}
    BY DEF Phases, VncWaits
  <2>2. sess[s].open /\ (StartFails(s) \/ \E p \in {"challenge", "result", "init"} : Moves(s, p))
    BY <1>2 DEF VncSecurity
  <2> QED BY <1>0, <2>1, <2>2, StartFailsKeeps, MovesKeeps
<1>3. CASE VncAuth(s)
  <2>1. \A p \in {"result", "init", "reason"} : p \in Phases \ {"unused"}
    BY DEF Phases, VncWaits
  <2>2. sess[s].open /\ (StartFails(s) \/ \E p \in {"result", "init", "reason"} : Moves(s, p))
    BY <1>3 DEF VncAuth
  <2> QED BY <1>0, <2>1, <2>2, StartFailsKeeps, MovesKeeps
<1>4. CASE VncServerInit(s)
  BY <1>4, MovesKeeps DEF VncServerInit, Phases, VncWaits
<1>5. CASE VncReady(s)
  BY <1>5, ReadyKeeps
<1>6. CASE VncUpdate(s)
  BY <1>6, UpdateKeeps
<1>7. CASE VncBreaks(s)
  BY <1>0, <1>7, StartFailsKeeps, EndsKeep DEF VncBreaks
<1> QED BY <1>1, <1>2, <1>3, <1>4, <1>5, <1>6, <1>7 DEF Vnc

\* The steps of the RDP handshake: a move, a run or a failure of an open bridge.
LEMMA RdpKeeps ==
    ASSUME RdInv, NEW s \in Session, Rdp(s)
    PROVE  RdInv'
<1> DEFINE Steps == {"x224", "tls", "mcs", "attach", "join_user", "join_global", "license",
                     "demand", "tcp"}
<1>0. \A p \in Steps : p \in Phases \ {"unused"}
  BY DEF Phases, RdpWaits, RdpReads
<1>1. CASE RdpTcpOpens(s) \/ RdpTlsUp(s) \/ RdpMcs(s) \/ RdpReconnect(s)
  <2>1. sess[s].open /\ \E p \in Steps : Moves(s, p)
    BY <1>1 DEF RdpTcpOpens, RdpTlsUp, RdpMcs, RdpReconnect, RdpHandshaking
  <2> QED BY <1>0, <2>1, MovesKeeps
<1>2. CASE RdpNegotiates(s) \/ RdpAttach(s) \/ RdpJoin(s)
  <2>1. /\ sess[s].open /\ ~IsVnc(s)
        /\ HandshakeFails(s) \/ \E p \in Steps : Moves(s, p)
    BY <1>2 DEF RdpNegotiates, RdpAttach, RdpJoin, RdpHandshaking
  <2> QED BY <1>0, <2>1, MovesKeeps, FailsKeep
<1>3. CASE RdpLicense(s) \/ RdpDemandActive(s)
  <2>1. /\ sess[s].open /\ ~IsVnc(s)
        /\ HandshakeFails(s) \/ RdpRuns(s) \/ \E p \in Steps : Moves(s, p)
    BY <1>3 DEF RdpLicense, RdpDemandActive, RdpHandshaking
  <2> QED BY <1>0, <2>1, MovesKeeps, FailsKeep, RunsKeep
<1>4. CASE TimesOut(s)
  BY <1>4, FailsKeep DEF TimesOut, Reading
<1>5. CASE RdpBreaksEarly(s)
  <2>1. /\ sess[s].open /\ ~IsVnc(s)
        /\ HandshakeFails(s) \/ ErrorEvent(s) \/ CloseEvent(s)
    <3>1. CASE sess[s].phase \in {"tcp", "tls"}
      BY <1>5, <3>1 DEF RdpBreaksEarly
    <3>2. CASE sess[s].phase = "x224"
      BY <1>5, <3>2 DEF RdpBreaksEarly
    <3>3. CASE sess[s].phase \notin {"tcp", "tls", "x224"}
      BY <1>5, <3>3 DEF RdpBreaksEarly
    <3> QED BY <3>1, <3>2, <3>3
  <2> QED BY <2>1, FailsKeep, EndsKeep
<1>6. CASE RdpCloses(s)
  BY <1>6, LostKeeps
<1>7. CASE RdpErrors(s)
  BY <1>7, EndsKeep DEF RdpErrors
<1>8. CASE RdpUpdate(s)
  BY <1>8, BitmapKeeps
<1> QED BY <1>1, <1>2, <1>3, <1>4, <1>5, <1>6, <1>7, <1>8 DEF Rdp

LEMMA TunnelStep == RdInv /\ [RdNext]_rdVars => RdInv'
<1> SUFFICES ASSUME RdInv, [RdNext]_rdVars PROVE RdInv'
  OBVIOUS
<1>1. CASE Viewer
  BY <1>1, StartKeeps, CloseKeeps, InputKeeps, StopAllKeeps DEF Viewer
<1>2. CASE \E s \in Session : Vnc(s) \/ Rdp(s)
  BY <1>2, VncKeeps, RdpKeeps
<1>3. CASE UNCHANGED rdVars
  BY <1>3 DEF rdVars, RdInv, RdTypeOK, Owners, Lone, OpenIsUsed, Stoppable, NewsIsTrue, OneInFlight,
     CanAct, Used, Owner, Reading, IsVnc
<1> QED BY <1>1, <1>2, <1>3 DEF RdNext

\* The tunnels of the managers: one that runs can be stopped, what the viewer was last
\* told of an id is true, and a session's requests neither stall nor double, whatever the
\* desktop servers, the viewer and the link do.
THEOREM TunnelsCorrect == RdSpec => []TunnelsHold
<1>1. RdInv => TunnelsHold
  BY DEF RdInv, TunnelsHold
<1> QED BY RdStarts, TunnelStep, <1>1, PTL DEF RdSpec

-----------------------------------------------------------------------------
(* The processes that share the link. *)

\* The office's connection is one of a live process that has it open.
OfficeIsOn == prOffice # Nobody => Alive(prOffice) /\ prSock[prOffice] = "on"

\* Unless two loops ran at once one loop runs, it says in its locks that it does,
\* and that it is connected.
LoopIsKnown ==
    /\ \A l \in Loop : prPhase[l] # "dormant"
    /\ ~prTwoLoops =>
           \A l \in Running(Loop) :
               /\ \A m \in Running(Loop) : l = m
               /\ prForwarder = l
               /\ prSock[l] = "on" => prPresence = Lock(l)

PrInv == PrTypeOK /\ OfficeIsOn /\ DormantStaysOut /\ LoopIsKnown

LEMMA NobodyIsNone == Nobody \notin Process
  BY Processes DEF Nobody, Process

LEMMA PrStarts == PrInit => PrInv
<1> SUFFICES ASSUME PrInit PROVE PrInv
  OBVIOUS
<1>1. Loop \subseteq Process /\ Bridge \subseteq Process
  BY DEF Process
<1>2. PrTypeOK
  <2>1. prPresence \in Locks /\ prForwarder \in Loop \cup {Nobody}
    BY DEF PrInit, Locks
  <2>2. prWritten \in 0..MaxEv /\ prFaults \in 0..PrMaxFaults /\ prOffset \in [Process -> 0..MaxEv]
    BY PrBounds DEF PrInit
  <2>3. prShipped \in [Event -> 0..2]
    BY DEF PrInit
  <2>5. prTwoLoops \in BOOLEAN
    BY DEF PrInit
  <2>4. /\ prPhase \in [Process -> {"none", "run", "dormant", "gone"}]
        /\ prSock \in [Process -> {"none", "opening", "wait", "down", "on", "destroyed"}]
        /\ prOffice \in Process \cup {Nobody} /\ prNewest \in Bridge \cup {Nobody}
    BY DEF PrInit
  <2> QED BY <2>1, <2>2, <2>3, <2>4, <2>5 DEF PrTypeOK
<1>3. OfficeIsOn /\ DormantStaysOut /\ LoopIsKnown
  BY <1>1 DEF PrInit, OfficeIsOn, DormantStaysOut, LoopIsKnown, Running
<1> QED BY <1>2, <1>3 DEF PrInv

\* Forwarding counts each line up to two.
LEMMA ShipType ==
    ASSUME PrTypeOK, NEW S, Ship(S)
    PROVE  prShipped' \in [Event -> 0..2]
<1>1. \A e \in Event : Once(e) \in 0..2
  BY DEF PrTypeOK, Once
<1> QED BY <1>1 DEF Ship, PrTypeOK

LEMMA PresenceType == PrTypeOK /\ [PrNext]_prVars => PrTypeOK'
<1> SUFFICES ASSUME PrTypeOK, [PrNext]_prVars PROVE PrTypeOK'
  OBVIOUS
<1> USE DEF PrTypeOK
<1>0. Loop \subseteq Process /\ Bridge \subseteq Process
  BY DEF Process
<1>1. ASSUME NEW l \in Loop, NEW forced \in BOOLEAN, StartLoop(l, forced) PROVE PrTypeOK'
  BY <1>0, <1>1 DEF StartLoop
<1>2. ASSUME NEW l \in Loop, RefuseLoop(l) PROVE PrTypeOK'
  BY <1>0, <1>2 DEF RefuseLoop, prFiles, prHooks
<1>3. ASSUME NEW l \in Loop, LoopHeartbeat(l) PROVE PrTypeOK'
  BY <1>0, <1>3 DEF LoopHeartbeat, prHooks, Lock, Locks
<1>4. ASSUME NEW l \in Loop, LoopHooks(l) PROVE PrTypeOK'
  BY <1>0, <1>4, ShipType DEF LoopHooks
<1>5. ASSUME NEW p \in Process, Connect(p) PROVE PrTypeOK'
  BY <1>5 DEF Connect, prHooks, Lock, Locks
<1>6. ASSUME NEW p \in Process, Evicted(p) PROVE PrTypeOK'
  BY <1>6 DEF Evicted, prHooks, prFiles
<1>7. ASSUME NEW p \in Process, Lost(p) PROVE PrTypeOK'
  BY <1>7, PrBounds DEF Lost, Left, prHooks, prFiles
<1>8. ASSUME NEW p \in Process, Dies(p) PROVE PrTypeOK'
  BY <1>8 DEF Dies, Left, prHooks, prFiles
<1>9. ASSUME NEW b \in Bridge, StartBridge(b) PROVE PrTypeOK'
  BY <1>0, <1>9 DEF StartBridge
<1>10. ASSUME NEW b \in Bridge, Opened(b) PROVE PrTypeOK'
  BY <1>0, <1>10 DEF Opened, prHooks, prFiles
<1>11. ASSUME NEW b \in Bridge, Reconcile(b) PROVE PrTypeOK'
  BY <1>0, <1>11 DEF Reconcile, Left, prHooks, prFiles
<1>12. ASSUME NEW b \in Bridge, Supersede(b) PROVE PrTypeOK'
  BY <1>0, <1>12 DEF Supersede, Left, prHooks
<1>13. ASSUME NEW b \in Bridge, BridgeHooks(b) PROVE PrTypeOK'
  BY <1>0, <1>13, ShipType DEF BridgeHooks, prFiles
<1>14. CASE PresenceAges
  BY <1>14 DEF PresenceAges, prHooks, Locks
<1>15. CASE Writes
  BY <1>15, PrBounds DEF Writes, prFiles
<1>16. CASE UNCHANGED prVars
  BY <1>16 DEF prVars, prFiles, prHooks
<1> QED BY <1>1, <1>2, <1>3, <1>4, <1>5, <1>6, <1>7, <1>8, <1>9, <1>10, <1>11, <1>12, <1>13,
        <1>14, <1>15, <1>16 DEF PrNext

LEMMA OfficeStep == PrInv /\ [PrNext]_prVars => OfficeIsOn' /\ DormantStaysOut'
<1> SUFFICES ASSUME PrInv, [PrNext]_prVars PROVE OfficeIsOn' /\ DormantStaysOut'
  OBVIOUS
<1> USE NobodyIsNone DEF PrInv, PrTypeOK, OfficeIsOn, DormantStaysOut, Alive
<1>0. Loop \subseteq Process /\ Bridge \subseteq Process /\ Loop \cap Bridge = {}
  BY Processes DEF Process
<1>1. ASSUME NEW l \in Loop, NEW forced \in BOOLEAN, StartLoop(l, forced)
      PROVE  OfficeIsOn' /\ DormantStaysOut'
  BY <1>0, <1>1 DEF StartLoop
<1>2. ASSUME NEW l \in Loop, RefuseLoop(l) PROVE OfficeIsOn' /\ DormantStaysOut'
  BY <1>0, <1>2 DEF RefuseLoop
<1>3. ASSUME NEW l \in Loop, LoopHeartbeat(l) \/ LoopHooks(l) PROVE OfficeIsOn' /\ DormantStaysOut'
  BY <1>0, <1>3 DEF LoopHeartbeat, LoopHooks
<1>5. ASSUME NEW p \in Process, Connect(p) PROVE OfficeIsOn' /\ DormantStaysOut'
  BY <1>0, <1>5 DEF Connect
<1>6. ASSUME NEW p \in Process, Evicted(p) PROVE OfficeIsOn' /\ DormantStaysOut'
  BY <1>0, <1>6 DEF Evicted
<1>7. ASSUME NEW p \in Process, Lost(p) PROVE OfficeIsOn' /\ DormantStaysOut'
  BY <1>0, <1>7 DEF Lost, Left
<1>8. ASSUME NEW p \in Process, Dies(p) PROVE OfficeIsOn' /\ DormantStaysOut'
  BY <1>0, <1>8 DEF Dies, Left
<1>9. ASSUME NEW b \in Bridge, StartBridge(b) PROVE OfficeIsOn' /\ DormantStaysOut'
  BY <1>0, <1>9 DEF StartBridge
<1>10. ASSUME NEW b \in Bridge, Opened(b) PROVE OfficeIsOn' /\ DormantStaysOut'
  BY <1>0, <1>10 DEF Opened
<1>11. ASSUME NEW b \in Bridge, Reconcile(b) PROVE OfficeIsOn' /\ DormantStaysOut'
  BY <1>0, <1>11 DEF Reconcile, Left
<1>12. ASSUME NEW b \in Bridge, Supersede(b) PROVE OfficeIsOn' /\ DormantStaysOut'
  BY <1>0, <1>12 DEF Supersede, Left
<1>13. ASSUME NEW b \in Bridge, BridgeHooks(b) PROVE OfficeIsOn' /\ DormantStaysOut'
  BY <1>0, <1>13 DEF BridgeHooks
<1>14. CASE PresenceAges \/ Writes
  BY <1>14 DEF PresenceAges, Writes
<1>15. CASE UNCHANGED prVars
  BY <1>15 DEF prVars
<1> QED BY <1>1, <1>2, <1>3, <1>5, <1>6, <1>7, <1>8, <1>9, <1>10, <1>11, <1>12, <1>13,
        <1>14, <1>15 DEF PrNext

LEMMA LoopStep == PrInv /\ [PrNext]_prVars => LoopIsKnown'
<1> SUFFICES ASSUME PrInv, [PrNext]_prVars PROVE LoopIsKnown'
  OBVIOUS
<1> USE NobodyIsNone DEF PrInv, PrTypeOK, LoopIsKnown, Running, Alive
<1>0. Loop \subseteq Process /\ Bridge \subseteq Process /\ Loop \cap Bridge = {}
  BY Processes DEF Process
<1>1. ASSUME NEW l \in Loop, NEW forced \in BOOLEAN, StartLoop(l, forced) PROVE LoopIsKnown'
  BY <1>0, <1>1 DEF StartLoop
<1>2. ASSUME NEW l \in Loop, RefuseLoop(l) PROVE LoopIsKnown'
  BY <1>0, <1>2 DEF RefuseLoop, prFiles
<1>3. ASSUME NEW l \in Loop, LoopHeartbeat(l) PROVE LoopIsKnown'
  BY <1>0, <1>3 DEF LoopHeartbeat
<1>4. ASSUME NEW l \in Loop, LoopHooks(l) PROVE LoopIsKnown'
  BY <1>0, <1>4 DEF LoopHooks
<1>5. ASSUME NEW p \in Process, Connect(p) PROVE LoopIsKnown'
  <2>1. CASE p \in Loop
    BY <1>0, <1>5, <2>1 DEF Connect
  <2>2. CASE p \notin Loop
    BY <1>0, <1>5, <2>2 DEF Connect
  <2> QED BY <2>1, <2>2
<1>6. ASSUME NEW p \in Process, Evicted(p) PROVE LoopIsKnown'
  BY <1>0, <1>6 DEF Evicted, prFiles
<1>7. ASSUME NEW p \in Process, Lost(p) PROVE LoopIsKnown'
  BY <1>0, <1>7 DEF Lost, prFiles
<1>8. ASSUME NEW p \in Process, Dies(p) PROVE LoopIsKnown'
  BY <1>0, <1>8 DEF Dies, prFiles
<1>9. ASSUME NEW b \in Bridge, StartBridge(b) PROVE LoopIsKnown'
  BY <1>0, <1>9 DEF StartBridge
<1>10. ASSUME NEW b \in Bridge, Opened(b) PROVE LoopIsKnown'
  BY <1>0, <1>10 DEF Opened, prFiles
<1>11. ASSUME NEW b \in Bridge, Reconcile(b) PROVE LoopIsKnown'
  BY <1>0, <1>11 DEF Reconcile, prFiles
<1>12. ASSUME NEW b \in Bridge, Supersede(b) PROVE LoopIsKnown'
  BY <1>0, <1>12 DEF Supersede
<1>13. ASSUME NEW b \in Bridge, BridgeHooks(b) PROVE LoopIsKnown'
  BY <1>0, <1>13 DEF BridgeHooks, prFiles
<1>14. CASE PresenceAges
  <2>1. \A l \in Loop : Lock(l).pid = l /\ Lock(l).ts = "fresh"
    BY DEF Lock
  <2> QED BY <1>0, <1>14, <2>1 DEF PresenceAges
<1>15. CASE Writes
  BY <1>15 DEF Writes, prFiles
<1>16. CASE UNCHANGED prVars
  BY <1>16 DEF prVars, prFiles
<1> QED BY <1>1, <1>2, <1>3, <1>4, <1>5, <1>6, <1>7, <1>8, <1>9, <1>10, <1>11, <1>12, <1>13,
        <1>14, <1>15, <1>16 DEF PrNext

LEMMA PresenceStep == PrInv /\ [PrNext]_prVars => PrInv'
  BY PresenceType, OfficeStep, LoopStep DEF PrInv

\* A bridge that went dormant has no connection again, whatever loops and bridges of
\* the workspace come, go and lose their connections in whatever order.
THEOREM PresenceCorrect == PrSpec => []PresenceHolds
<1>1. PrInv => PresenceHolds
  BY DEF PrInv, PresenceHolds
<1> QED BY PrStarts, PresenceStep, <1>1, PTL DEF PrSpec

\* What a loop or a bridge forwards are the lines it has not read yet.
LEMMA ShipsNew ==
    ASSUME PrTypeOK, NEW p \in Process, Ship(New(p)), prShipped' # prShipped
    PROVE  prOffset[p] # prWritten
<1>1. PICK e \in Event : prShipped'[e] # prShipped[e]
  BY DEF Ship, PrTypeOK
<1>2. e \in New(p)
  BY <1>1 DEF Ship
<1> QED BY <1>2 DEF New, PrTypeOK

LEMMA ComesStep == PrInv /\ [PrNext]_prVars => ComesBeside
<1> SUFFICES ASSUME PrInv, NEW l \in Loop, NEW m \in Loop, StartLoop(l, FALSE), l # m,
                    prPhase[m] = "run", prSock[m] = "on", ~prTwoLoops
             PROVE  FALSE
  BY DEF ComesBeside
<1>1. prPresence = Lock(m) /\ m \in Process /\ m # Nobody
  BY NobodyIsNone DEF PrInv, LoopIsKnown, Running, Process
<1>2. Owned
  BY <1>1 DEF Owned, Lock, Alive
<1> QED BY <1>2 DEF StartLoop

LEMMA ForwardStep == PrInv /\ [PrNext]_prVars => LoopForwards
<1> SUFFICES ASSUME PrInv, [PrNext]_prVars, prShipped' # prShipped, NEW m \in Running(Loop),
                    ~prTwoLoops
             PROVE  \E l \in Loop : prOffset'[l] # prOffset[l]
  BY DEF LoopForwards
<1>1. ASSUME NEW l \in Loop, LoopHooks(l) PROVE prOffset'[l] # prOffset[l]
  BY <1>1, ShipsNew DEF LoopHooks, PrInv, PrTypeOK, Process
<1>2. ASSUME NEW b \in Bridge, BridgeHooks(b) PROVE FALSE
  <2>1. prForwarder = m /\ Alive(m)
    BY NobodyIsNone DEF PrInv, LoopIsKnown, Alive, Running, Process
  <2> QED BY <1>2, <2>1 DEF BridgeHooks
<1>3. \/ \E l \in Loop : LoopHooks(l)
      \/ \E b \in Bridge : BridgeHooks(b)
  BY DEF PrNext, prVars, prHooks, StartLoop, RefuseLoop, LoopHeartbeat, Connect, Evicted, Lost, Dies,
     StartBridge, Opened, Reconcile, Supersede, PresenceAges, Writes
<1> QED BY <1>1, <1>2, <1>3

LEMMA PresenceActs == PrInv /\ [PrNext]_prVars => [ComesBeside /\ LoopForwards]_prVars
  BY ComesStep, ForwardStep

\* In every step: a loop comes up unforced beside a live one only while that one has no
\* connection, and while a loop lives nobody else forwards hook events, unless two loops
\* ran at once before.
THEOREM PresenceStepsCorrect == PrSpec => PresenceSteps
<1>1. PrSpec => []PrInv
  BY PrStarts, PresenceStep, PTL DEF PrSpec
<1> QED BY <1>1, PresenceActs, PTL DEF PrSpec, PresenceSteps

-----------------------------------------------------------------------------
(* The calls a bridge serves over the link. *)

\* The records of calls and frames.
CallRec ==
    [at : {"free", "ws", "http", "parked", "asking"}, client : Client \cup {"none"},
     id : CallId \cup {0}, tool : C!Tool \cup {"none"}, task : Task \cup {"none"}, rest : SUBSET Task]

FrameRec ==
    [at : {"none", "out", "cut off", "back", "error"}, key : CallId \cup {0},
     from : Call \cup {"none"}, client : Client \cup {"none"},
     does : C!Tool \cup {"none"}, task : Task \cup {"none"}]

\* What a call is at, what it is for, and what it has.
CallFits(c) ==
    /\ c.at = "free" => c = C!NoCall
    /\ c.at = "parked" => c.tool = "wait_for_events" /\ c.rest = {} /\ c.task = "none"
    /\ c.at = "asking" => c.tool = "ask_user"
    /\ c.at \in {"ws", "http"} => c.tool # "none" /\ (c.tool # "ask_user" => c.task \in Task)
    /\ c.tool \in C!Direct => c.at \in {"ws", "http"} /\ c.id \in CallId
    /\ c.tool \notin C!Direct => c.id = 0
    /\ c.tool # "wait_for_events" => c.rest = {}
CallsFit == \A s \in Call : CallFits(call[s])

\* A frame with an owner asks what its owner is at.
Owns(c, r) ==
    /\ c.at \in {"ws", "http"}
    /\ r.key = C!Key(c) /\ r.client = c.client /\ r.does = C!Does(c) /\ r.task = c.task
FrameFits(r) ==
    /\ r.at = "none" => r = C!NoFrame
    /\ r.at # "none" => /\ r.does \in {"start_task", "complete_task", "ask_user"}
                        /\ r.does # "ask_user" => r.task \in Task
FramesFit ==
    \A f \in Frame : /\ FrameFits(frame[f])
                     /\ frame[f].from # "none" => Owns(call[frame[f].from], frame[f])

\* Who waits under an id is a call with that id.
WaitersFit ==
    \A k \in CallId : wsPending[k] # "none" =>
        LET c == call[wsPending[k]] IN c.at = "ws" /\ c.tool \in C!Direct /\ c.id = k

\* With one client a frame belongs to who waits under its id.
OneClient == mode = "stdio" =>
    /\ "mixed" \notin odd
    /\ \A s \in Call : call[s].at # "free" => call[s].client = C!First
    /\ \A f \in Frame :
        /\ frame[f].at # "none" => frame[f].client = C!First
        /\ frame[f].key # 0 /\ wsPending[frame[f].key] # "none" => frame[f].from = wsPending[frame[f].key]

\* A task that was started, or may still be by a frame on its way, is not forgotten.
Known(t) ==
    \/ office[t] = "done" \/ t \in startedTasks \cup untold \/ "mixed" \in odd
    \/ \E s \in Call : \/ t \in call[s].rest
                       \/ t = call[s].task /\ call[s].tool \in {"start_task", "wait_for_events"}
Starts(f, t) == frame[f].at \in {"out", "cut off"} /\ frame[f].does = "start_task" /\ frame[f].task = t
AllKnown == C!Live => \A t \in Task : (office[t] = "in-progress" \/ \E f \in Frame : Starts(f, t)) => Known(t)
DoneIsDone == \A f \in Frame : frame[f].at = "back" /\ frame[f].does = "complete_task" => office[frame[f].task] = "done"

\* While nothing is out of the ordinary there is one call, with one frame at most, and
\* what is left to complete is not done.
Plain == odd \cap {"parallel", "retried", "unheard"} = {}
OneAtATime ==
    /\ again = {}
    /\ \A s, r \in Call : call[s].at # "free" /\ call[r].at # "free" => s = r
    /\ \A f \in Frame : frame[f].at # "none" => frame[f].from # "none" /\ call[frame[f].from].at = "ws"
    /\ \A f, g \in Frame : frame[f].at # "none" /\ frame[g].at # "none" => f = g
Completes(t) == \E s \in Call : call[s].at = "ws" /\ call[s].tool = "complete_task" /\ call[s].task = t
NotDone ==
    /\ \A t \in startedTasks : office[t] = "done" => Completes(t)
    /\ \A s \in Call : call[s].tool = "wait_for_events" =>
          /\ call[s].rest \subseteq startedTasks /\ call[s].task \notin startedTasks
          /\ call[s].at = "http" => office[call[s].task] # "done"
          /\ \A f \in Frame : frame[f].from = s /\ frame[f].at \in {"out", "cut off"} => office[call[s].task] # "done"
    /\ \A f \in Frame : frame[f].at = "back" /\ frame[f].does = "start_task" => office[frame[f].task] # "done"
Ordinarily == Plain => OneAtATime /\ NotDone

\* Who is in the slot is parked; and alone, with no event queued, unless it was crowded.
OneSlot ==
    /\ eventWaiter # "none" => C!Parked(eventWaiter)
    /\ "crowded" \notin odd => \A s \in Call : C!Parked(s) => eventWaiter = s /\ events = 0

CallShapes == C!TypeOK /\ CallsFit /\ FramesFit /\ WaitersFit

\* The type of all but calls and frames.
OthersOK ==
    /\ mode \in {"stdio", "http"} /\ link \in {"up", "down"}
    /\ startedTasks \subseteq Task
    /\ office \in [Task -> {"pending", "in-progress", "done"}]
    /\ events \in 0..EventCap /\ eventWaiter \in Call \cup {"none"}
    /\ life \in {"open", "closed", "over"}
    /\ odd \subseteq {"retried", "parallel", "mixed", "crowded", "unheard"}
    /\ untold \subseteq Task /\ again \subseteq Task
    /\ made \in 0..MaxCalls /\ callFaults \in 0..CallFaults
-----------------------------------------------------------------------------
\* Call s becomes d: its frames are nobody's, those in gone are taken in, and those in
\* new, one at most, are its own.
Turns(s, d, gone, new) ==
    /\ call' = [call EXCEPT ![s] = d]
    /\ frame' = [g \in Frame |->
                    IF g \in new THEN C!FrameOf(s, d)
                    ELSE IF g \in gone THEN C!NoFrame
                    ELSE IF frame[g].from = s THEN [frame[g] EXCEPT !.from = "none"] ELSE frame[g]]

\* It has a frame only while it is at the socket; the frame has a place of its own.
Sends(d, gone, new) ==
    /\ gone \subseteq Frame /\ new \subseteq Frame
    /\ new # {} => d.at = "ws"
    /\ \A g \in new : g \in gone \/ frame[g].at = "none"
    /\ \A g, h \in new : g = h

Taken(gone) == [g \in Frame |-> IF g \in gone THEN C!NoFrame ELSE frame[g]]

\* Records that stay records.
LEMMA CallRecords ==
    /\ C!NoCall \in CallRec /\ CallFits(C!NoCall)
    /\ C!NoFrame \in FrameRec /\ FrameFits(C!NoFrame)
    /\ \A r \in FrameRec : [r EXCEPT !.from = "none"] \in FrameRec
    /\ \A c \in CallRec, s \in Call : CallFits(c) /\ c.at = "ws" => C!FrameOf(s, c) \in FrameRec /\ FrameFits(C!FrameOf(s, c))
<1>1. C!NoCall \in CallRec /\ CallFits(C!NoCall)
  BY DEF C!NoCall, CallRec, CallFits, C!Direct
<1>2. C!NoFrame \in FrameRec /\ FrameFits(C!NoFrame)
  BY DEF C!NoFrame, FrameRec, FrameFits
<1>3. \A r \in FrameRec : [r EXCEPT !.from = "none"] \in FrameRec
  BY DEF FrameRec
<1>4. ASSUME NEW c \in CallRec, NEW s \in Call, CallFits(c), c.at = "ws"
      PROVE  C!FrameOf(s, c) \in FrameRec /\ FrameFits(C!FrameOf(s, c))
  BY <1>4 DEF C!FrameOf, FrameRec, CallRec, CallFits, FrameFits, C!Tool, C!Direct, C!Key, C!Own, C!Does, C!NoFrame
<1> QED BY <1>1, <1>2, <1>3, <1>4

\* What is kept, of the shapes of calls and frames, when a call goes on.
LEMMA GoesOn ==
    ASSUME CallShapes, NEW s \in Call, NEW d \in CallRec, CallFits(d),
           NEW gone, NEW new, Turns(s, d, gone, new), Sends(d, gone, new),
           wsPending' \in [CallId -> Call \cup {"none"}],
           \A k \in CallId : wsPending'[k] = s => d.at = "ws" /\ d.tool \in C!Direct /\ d.id = k,
           \A k \in CallId : wsPending'[k] \in {"none", s, wsPending[k]}
    PROVE  /\ call' \in [Call -> CallRec] /\ frame' \in [Frame -> FrameRec]
           /\ CallsFit' /\ FramesFit' /\ WaitersFit'
<1>0. call \in [Call -> CallRec] /\ frame \in [Frame -> FrameRec]
  BY DEF CallShapes, C!TypeOK, CallRec, FrameRec
<1>1. call' \in [Call -> CallRec]
  BY <1>0 DEF Turns
<1>2. frame' \in [Frame -> FrameRec]
  BY <1>0, CallRecords DEF Turns, Sends
<1>3. CallsFit'
  BY <1>0 DEF Turns, CallsFit, CallShapes
<1>4. ASSUME NEW f \in Frame
      PROVE  FrameFits(frame'[f]) /\ (frame'[f].from # "none" => Owns(call'[frame'[f].from], frame'[f]))
  <2>1. CASE f \in new
    <3>1. frame'[f] = C!FrameOf(s, d) /\ d.at = "ws"
      BY <2>1 DEF Turns, Sends
    <3>2. call'[s] = d
      BY <1>0 DEF Turns
    <3> QED BY <3>1, <3>2, CallRecords DEF C!FrameOf, Owns
  <2>2. CASE f \notin new /\ f \in gone
    <3>1. frame'[f] = C!NoFrame
      BY <2>2 DEF Turns
    <3> QED BY <3>1, CallRecords DEF C!NoFrame
  <2>3. CASE f \notin new /\ f \notin gone /\ frame[f].from = s
    <3>1. frame'[f] = [frame[f] EXCEPT !.from = "none"]
      BY <2>3 DEF Turns
    <3>2. FrameFits(frame[f]) /\ frame[f] \in FrameRec
      BY <1>0 DEF CallShapes, FramesFit
    <3>3. frame[f].at # "none"
      BY <3>2, <2>3, CallNames DEF FrameFits, C!NoFrame
    <3> QED BY <3>1, <3>2, <3>3 DEF FrameFits, FrameRec
  <2>4. CASE f \notin new /\ f \notin gone /\ frame[f].from # s
    <3>1. frame'[f] = frame[f] /\ frame[f] \in FrameRec
      BY <2>4, <1>0 DEF Turns
    <3>2. frame[f].from # "none" => call'[frame[f].from] = call[frame[f].from]
      BY <3>1, <2>4, <1>0 DEF Turns, FrameRec
    <3> QED BY <3>1, <3>2 DEF CallShapes, FramesFit
  <2> QED BY <2>1, <2>2, <2>3, <2>4
<1>5. WaitersFit'
  <2> SUFFICES ASSUME NEW k \in CallId, wsPending'[k] # "none"
               PROVE  LET c == call'[wsPending'[k]] IN c.at = "ws" /\ c.tool \in C!Direct /\ c.id = k
    BY DEF WaitersFit
  <2>1. CASE wsPending'[k] = s
    BY <2>1, <1>0 DEF Turns
  <2>2. CASE wsPending'[k] # s
    <3>1. wsPending'[k] = wsPending[k] /\ wsPending[k] \in Call
      BY <2>2
    <3>2. call'[wsPending[k]] = call[wsPending[k]]
      BY <2>2, <3>1, <1>0 DEF Turns
    <3> QED BY <3>1, <3>2 DEF CallShapes, WaitersFit
  <2> QED BY <2>1, <2>2
<1> QED BY <1>1, <1>2, <1>3, <1>4, <1>5 DEF FramesFit

\* A call at the socket or on its way over HTTP, as a record.
GoneTo(c, a) == [c EXCEPT !.at = a]

\* How a call is sent off.
SentOff(s, c, gone) ==
    \E d \in {GoneTo(c, "ws"), GoneTo(c, "http")}, new \in SUBSET Frame :
        Turns(s, d, gone, new) /\ Sends(d, gone, new) /\ (d.at = "http" => link = "down") /\ (d.at = "ws" => link = "up")

\* Send gives the call a frame, or a request over HTTP, as the link allows.
LEMMA SendShape ==
    ASSUME CallShapes, NEW s \in Call, NEW c \in CallRec, NEW gone \in SUBSET Frame,
           C!Send(s, c, C!Disowned(s, Taken(gone)))
    PROVE  SentOff(s, c, gone)
<1> DEFINE fr == C!Disowned(s, Taken(gone))
<1>0. call \in [Call -> CallRec] /\ frame \in [Frame -> FrameRec]
  BY DEF CallShapes, C!TypeOK, CallRec, FrameRec
<1>1. \A g \in Frame : fr[g] = IF g \in gone THEN C!NoFrame
                              ELSE IF frame[g].from = s THEN [frame[g] EXCEPT !.from = "none"] ELSE frame[g]
  BY CallNames DEF C!Disowned, Taken, C!NoFrame
<1>2. CASE /\ link = "up" /\ C!FreeFrames(fr) # {}
           /\ frame' = [fr EXCEPT ![C!Pick(C!FreeFrames(fr))] = C!FrameOf(s, c)]
           /\ call' = [call EXCEPT ![s] = GoneTo(c, "ws")]
  <2> DEFINE p == C!Pick(C!FreeFrames(fr))
  <2>1. p \in Frame /\ fr[p].at = "none"
    BY <1>2 DEF C!FreeFrames, C!Pick
  <2>2. p \in gone \/ frame[p].at = "none"
    BY <2>1, <1>1, <1>0 DEF FrameRec
  <2>3. C!FrameOf(s, c) = C!FrameOf(s, GoneTo(c, "ws")) /\ GoneTo(c, "ws").at = "ws"
    BY DEF C!FrameOf, GoneTo, CallRec, C!Key, C!Own, C!Does
  <2>4. Turns(s, GoneTo(c, "ws"), gone, {p})
    <3>1. fr = [g \in Frame |-> fr[g]]
      BY DEF C!Disowned
    <3>2. \A g \in Frame : frame'[g] = IF g = p THEN C!FrameOf(s, GoneTo(c, "ws")) ELSE fr[g]
      BY <1>2, <2>3, <3>1
    <3>3. frame' = [g \in Frame |-> frame'[g]]
      BY <1>2, <3>1
    <3>4. frame' = [g \in Frame |-> IF g \in {p} THEN C!FrameOf(s, GoneTo(c, "ws"))
                ELSE IF g \in gone THEN C!NoFrame
                ELSE IF frame[g].from = s THEN [frame[g] EXCEPT !.from = "none"] ELSE frame[g]]
      BY <3>2, <3>3, <1>1
    <3> QED BY <1>2, <3>4 DEF Turns
  <2>5. Sends(GoneTo(c, "ws"), gone, {p})
    BY <2>1, <2>2, <2>3 DEF Sends
  <2> QED BY <1>2, <2>1, <2>3, <2>4, <2>5 DEF SentOff
<1>3. CASE link = "down" /\ call' = [call EXCEPT ![s] = GoneTo(c, "http")] /\ frame' = fr
  <2>1. Turns(s, GoneTo(c, "http"), gone, {})
    <3>1. frame' = [g \in Frame |-> IF g \in {} THEN C!FrameOf(s, GoneTo(c, "http"))
                ELSE IF g \in gone THEN C!NoFrame
                ELSE IF frame[g].from = s THEN [frame[g] EXCEPT !.from = "none"] ELSE frame[g]]
      <4>1. fr = [g \in Frame |-> fr[g]]
        BY DEF C!Disowned
      <4> QED BY <1>3, <1>1, <4>1
    <3> QED BY <3>1, <1>3 DEF Turns
  <2>2. Sends(GoneTo(c, "http"), gone, {})
    BY DEF Sends
  <2>3. GoneTo(c, "http").at = "http"
    BY DEF GoneTo, CallRec
  <2> QED BY <2>1, <2>2, <2>3, <1>3 DEF SentOff
<1> QED BY <1>2, <1>3 DEF C!Send, GoneTo

\* A call that is answered leaves its place and its frames.
LEMMA FinishShape ==
    ASSUME CallShapes, NEW s \in Call, NEW gone \in SUBSET Frame, C!Finished(s, Taken(gone))
    PROVE  Turns(s, C!NoCall, gone, {}) /\ Sends(C!NoCall, gone, {})
<1>1. \A g \in Frame : C!Disowned(s, Taken(gone))[g] =
                            IF g \in gone THEN C!NoFrame
                            ELSE IF frame[g].from = s THEN [frame[g] EXCEPT !.from = "none"] ELSE frame[g]
  BY CallNames DEF C!Disowned, Taken, C!NoFrame
<1>2. C!Disowned(s, Taken(gone)) = [g \in Frame |-> C!Disowned(s, Taken(gone))[g]]
  BY DEF C!Disowned
<1>3. frame' = [g \in Frame |-> IF g \in {} THEN C!FrameOf(s, C!NoCall)
                ELSE IF g \in gone THEN C!NoFrame
                ELSE IF frame[g].from = s THEN [frame[g] EXCEPT !.from = "none"] ELSE frame[g]]
  BY <1>1, <1>2 DEF C!Finished
<1> QED BY <1>3 DEF C!Finished, Turns, Sends

\* How a wait goes on: it is given what is queued, it is parked, or the next task is
\* completed.
Gets(s, c, gone, o) ==
    /\ c.rest = {}
    /\ Turns(s, C!NoCall, gone, {}) /\ Sends(C!NoCall, gone, {})
    /\ events' = 0 /\ odd' = o /\ UNCHANGED <<eventWaiter, startedTasks>>
    /\ life' \in {life, "over"}
Parks(s, c, gone, o) ==
    LET d == [c EXCEPT !.at = "parked", !.task = "none"] IN
    /\ c.rest = {} /\ events = 0
    /\ Turns(s, d, gone, {}) /\ Sends(d, gone, {})
    /\ eventWaiter' = s
    /\ odd' = IF \E r \in Call : C!Parked(r) THEN o \cup {"crowded"} ELSE o
    /\ UNCHANGED <<events, life, startedTasks>>
Next1(c, t) == [c EXCEPT !.task = t, !.rest = @ \ {t}]
GoesToNext(s, c, gone, o) ==
    \E t \in c.rest :
        /\ startedTasks' = startedTasks \ {t}
        /\ SentOff(s, Next1(c, t), gone)
        /\ odd' = o
        /\ UNCHANGED <<events, eventWaiter, life>>

\* reconcileStarted goes on with one of those.
LEMMA ReconcileShape ==
    ASSUME CallShapes, NEW s \in Call, NEW c \in CallRec, NEW gone \in SUBSET Frame, NEW o,
           C!Reconcile(s, c, Taken(gone), o)
    PROVE  Gets(s, c, gone, o) \/ Parks(s, c, gone, o) \/ GoesToNext(s, c, gone, o)
<1>1. CASE c.rest = {} /\ C!Park(s, c, Taken(gone), o) /\ UNCHANGED startedTasks
  <2>1. CASE events > 0
    <3>1. events' = 0 /\ odd' = o /\ C!Finished(s, Taken(gone)) /\ UNCHANGED eventWaiter
      BY <1>1, <2>1 DEF C!Park
    <3> QED BY <3>1, <1>1, FinishShape DEF Gets, C!Finished
  <2>2. CASE ~(events > 0)
    <3>0. events = 0
      <4>1. events \in 0..EventCap
        BY DEF CallShapes, C!TypeOK
      <4> QED BY <4>1, <2>2, CallBounds
    <3>1. /\ call' = [call EXCEPT ![s] = [c EXCEPT !.at = "parked", !.task = "none"]]
          /\ eventWaiter' = s
          /\ odd' = IF \E r \in Call : C!Parked(r) THEN o \cup {"crowded"} ELSE o
          /\ frame' = C!Disowned(s, Taken(gone))
          /\ UNCHANGED <<events, life>>
      BY <1>1, <2>2 DEF C!Park
    <3> DEFINE d == [c EXCEPT !.at = "parked", !.task = "none"]
    <3>2. \A g \in Frame : C!Disowned(s, Taken(gone))[g] =
                            IF g \in gone THEN C!NoFrame
                            ELSE IF frame[g].from = s THEN [frame[g] EXCEPT !.from = "none"] ELSE frame[g]
      BY CallNames DEF C!Disowned, Taken, C!NoFrame
    <3>3. C!Disowned(s, Taken(gone)) = [g \in Frame |-> C!Disowned(s, Taken(gone))[g]]
      BY DEF C!Disowned
    <3>4. frame' = [g \in Frame |-> IF g \in {} THEN C!FrameOf(s, d)
                ELSE IF g \in gone THEN C!NoFrame
                ELSE IF frame[g].from = s THEN [frame[g] EXCEPT !.from = "none"] ELSE frame[g]]
      BY <3>1, <3>2, <3>3
    <3>5. Turns(s, d, gone, {}) /\ Sends(d, gone, {})
      BY <3>4, <3>1 DEF Turns, Sends
    <3> QED BY <3>0, <3>1, <3>5, <1>1 DEF Parks
  <2> QED BY <2>1, <2>2
<1>2. ASSUME NEW t \in c.rest, startedTasks' = startedTasks \ {t},
             C!Send(s, Next1(c, t), C!Disowned(s, Taken(gone))), odd' = o, UNCHANGED <<C!wait, life>>
      PROVE  GoesToNext(s, c, gone, o)
  <2>1. Next1(c, t) \in CallRec
    BY DEF CallRec, Next1
  <2>2. SentOff(s, Next1(c, t), gone)
    BY <1>2, <2>1, SendShape
  <2> QED BY <1>2, <2>2 DEF GoesToNext, C!wait
<1> QED BY <1>1, <1>2 DEF C!Reconcile, Next1

\* Where a call has gone leaves the slot and the queue as they were, unless it is
\* parked or is given the queue.
Slotting(s, d, o) ==
    /\ events' \in {0, events} /\ life' \in {life, "over"}
    /\ odd' \in {o, o \cup {"crowded"}}
    /\ \/ eventWaiter' = eventWaiter /\ d.at # "parked"
       \/ /\ eventWaiter' = s /\ d.at = "parked" /\ events' = 0
          /\ "crowded" \in odd' \/ \A r \in Call : ~C!Parked(r)

\* A wait goes on as d: with the next task, or with none left.
WaitGoes(s, c, o, d) ==
    /\ CallFits(d)
    /\ d = C!NoCall \/ (d.tool = "wait_for_events" /\ d.client = c.client)
    /\ d.task \in c.rest \cup {"none"}
    /\ d.at \in {"ws", "http"} => d.task \in c.rest
    /\ d.rest = c.rest \ {d.task} /\ startedTasks' = startedTasks \ {d.task}
    /\ Slotting(s, d, o)

\* Whichever it is, the wait goes on as some call d.
LEMMA WaitShape ==
    ASSUME CallShapes, NEW s \in Call, NEW c \in CallRec, NEW gone \in SUBSET Frame, NEW o,
           c.tool = "wait_for_events", c.id = 0,
           C!Reconcile(s, c, Taken(gone), o)
    PROVE  \E d \in CallRec, new \in SUBSET Frame :
               Turns(s, d, gone, new) /\ Sends(d, gone, new) /\ WaitGoes(s, c, o, d)
<1>0. startedTasks \subseteq Task /\ "none" \notin startedTasks
  BY CallNames DEF CallShapes, C!TypeOK
<1>1. CASE Gets(s, c, gone, o)
  <2>1. c.rest = {}
    BY <1>1 DEF Gets
  <2>2. WaitGoes(s, c, o, C!NoCall)
    <3>1. C!NoCall.at = "free" /\ C!NoCall.task = "none" /\ C!NoCall.rest = {}
      BY DEF C!NoCall
    <3>2. Slotting(s, C!NoCall, o)
      BY <1>1, <3>1 DEF Gets, Slotting
    <3>3. startedTasks' = startedTasks \ {C!NoCall.task}
      BY <1>0, <1>1, <3>1 DEF Gets
    <3>4. CallFits(C!NoCall)
      BY CallRecords
    <3>5. C!NoCall.rest = c.rest \ {C!NoCall.task}
      BY <2>1, <3>1
    <3>6. C!NoCall.task \in c.rest \cup {"none"} /\ C!NoCall.at \notin {"ws", "http"}
      BY <3>1
    <3> QED BY <3>2, <3>3, <3>4, <3>5, <3>6 DEF WaitGoes
  <2> QED BY <1>1, <2>2, CallRecords DEF Gets
<1>2. CASE Parks(s, c, gone, o)
  <2> DEFINE d == [c EXCEPT !.at = "parked", !.task = "none"]
  <2>1. d \in CallRec
    BY DEF CallRec
  <2>2. CallFits(d)
    <3>1. c.rest = {}
      BY <1>2 DEF Parks
    <3> QED BY <2>1, <3>1 DEF CallRec, CallFits, C!Direct
  <2>3. d.task = "none" /\ d.rest = {} /\ d.at = "parked" /\ d.tool = c.tool /\ d.client = c.client
    BY <1>2 DEF Parks, CallRec
  <2>4. Slotting(s, d, o)
    BY <1>2, <2>3 DEF Parks, Slotting
  <2>5. WaitGoes(s, c, o, d)
    BY <1>0, <1>2, <2>2, <2>3, <2>4 DEF Parks, WaitGoes
  <2> QED BY <1>2, <2>1, <2>5 DEF Parks
<1>3. CASE GoesToNext(s, c, gone, o)
  <2>1. PICK t \in c.rest : /\ startedTasks' = startedTasks \ {t} /\ SentOff(s, Next1(c, t), gone)
                            /\ odd' = o /\ UNCHANGED <<events, eventWaiter, life>>
    BY <1>3 DEF GoesToNext
  <2>2. PICK d \in {GoneTo(Next1(c, t), "ws"), GoneTo(Next1(c, t), "http")}, new \in SUBSET Frame :
            Turns(s, d, gone, new) /\ Sends(d, gone, new)
    BY <2>1 DEF SentOff
  <2>3. /\ d \in CallRec /\ d.tool = c.tool /\ d.client = c.client /\ d.id = 0
        /\ d.at \in {"ws", "http"} /\ d.task = t /\ d.rest = c.rest \ {t}
    BY <2>2 DEF GoneTo, Next1, CallRec
  <2>4. t \in Task
    BY DEF CallRec
  <2>5. CallFits(d)
    BY <2>3, <2>4 DEF CallFits, C!Direct
  <2>6. Slotting(s, d, o)
    BY <2>1, <2>3 DEF Slotting
  <2>7. WaitGoes(s, c, o, d)
    BY <2>1, <2>3, <2>5, <2>6 DEF WaitGoes
  <2> QED BY <2>2, <2>3, <2>7
<1> QED BY <1>1, <1>2, <1>3, ReconcileShape

\* The slot of the waiter survives a call that goes on, or ends.
LEMMA SlotKept ==
    ASSUME CallShapes, OneSlot, NEW s \in Call, NEW d, NEW gone, NEW new, NEW o,
           call[s].at # "parked", odd \subseteq o,
           Turns(s, d, gone, new), Slotting(s, d, o)
    PROVE  OneSlot'
<1>0. call \in [Call -> CallRec]
  BY DEF CallShapes, C!TypeOK, CallRec
<1>1. call'[s] = d /\ \A r \in Call : r # s => call'[r] = call[r]
  BY <1>0 DEF Turns
<1>2. odd \subseteq odd'
  BY DEF Slotting
<1>3. eventWaiter \in Call \cup {"none"}
  BY DEF CallShapes, C!TypeOK
<1>4. CASE eventWaiter' = eventWaiter /\ d.at # "parked"
  <2>1. eventWaiter' # "none" => C!Parked(eventWaiter)'
    BY <1>1, <1>3, <1>4 DEF OneSlot, C!Parked
  <2>2. \A r \in Call : C!Parked(r)' => C!Parked(r)
    BY <1>1, <1>4 DEF C!Parked
  <2>3. events' \in {0, events}
    BY DEF Slotting
  <2> QED BY <1>2, <1>4, <2>1, <2>2, <2>3 DEF OneSlot
<1>5. CASE /\ eventWaiter' = s /\ d.at = "parked" /\ events' = 0
           /\ "crowded" \in odd' \/ \A r \in Call : ~C!Parked(r)
  BY <1>1, <1>5 DEF OneSlot, C!Parked
<1> QED BY <1>4, <1>5 DEF Slotting

\* With one client nobody's reply is another's, whoever goes on.
LEMMA OneClientKept ==
    ASSUME CallShapes, OneClient, NEW s \in Call, NEW d \in CallRec, NEW gone, NEW new, NEW o,
           Turns(s, d, gone, new), Sends(d, gone, new),
           mode' = mode, odd' \in {o, o \cup {"crowded"}},
           wsPending' \in [CallId -> Call \cup {"none"}],
           mode = "stdio" =>
              /\ "mixed" \notin o /\ (d.at # "free" => d.client = C!First)
              /\ \A k \in CallId : /\ wsPending'[k] \in {"none", s, wsPending[k]}
                                   /\ wsPending'[k] = s => \A f \in Frame \ gone : frame[f].key # k
              /\ new # {} /\ C!Key(d) # 0 => wsPending'[C!Key(d)] = s
    PROVE  OneClient'
<1> SUFFICES ASSUME mode = "stdio"
             PROVE  /\ "mixed" \notin odd'
                    /\ \A r \in Call : call'[r].at # "free" => call'[r].client = C!First
                    /\ \A f \in Frame :
                        /\ frame'[f].at # "none" => frame'[f].client = C!First
                        /\ frame'[f].key # 0 /\ wsPending'[frame'[f].key] # "none" =>
                                frame'[f].from = wsPending'[frame'[f].key]
  BY DEF OneClient
<1>0. call \in [Call -> CallRec] /\ frame \in [Frame -> FrameRec]
  BY DEF CallShapes, C!TypeOK, CallRec, FrameRec
<1>1. call'[s] = d /\ \A r \in Call : r # s => call'[r] = call[r]
  BY <1>0 DEF Turns
<1>2. \A r \in Call : call'[r].at # "free" => call'[r].client = C!First
  BY <1>1 DEF OneClient
<1>3. ASSUME NEW f \in Frame
      PROVE  /\ frame'[f].at # "none" => frame'[f].client = C!First
             /\ frame'[f].key # 0 /\ wsPending'[frame'[f].key] # "none" =>
                    frame'[f].from = wsPending'[frame'[f].key]
  <2>1. CASE f \in new
    <3>1. frame'[f] = C!FrameOf(s, d) /\ d.at = "ws"
      BY <2>1 DEF Turns, Sends
    <3> QED BY <2>1, <3>1 DEF C!FrameOf
  <2>2. CASE f \notin new /\ f \in gone
    <3>1. frame'[f] = C!NoFrame
      BY <2>2 DEF Turns
    <3> QED BY <3>1 DEF C!NoFrame
  <2>3. CASE f \notin new /\ f \notin gone
    <3>1. /\ frame'[f] \in {frame[f], [frame[f] EXCEPT !.from = "none"]}
          /\ frame[f].from # s => frame'[f] = frame[f]
      BY <2>3 DEF Turns
    <3>2. /\ frame'[f].at = frame[f].at /\ frame'[f].client = frame[f].client
          /\ frame'[f].key = frame[f].key /\ frame[f].key \in CallId \cup {0}
      <4>1. frame[f] \in FrameRec
        BY <1>0
      <4>2. CASE frame'[f] = frame[f]
        BY <4>1, <4>2 DEF FrameRec
      <4>3. CASE frame'[f] = [frame[f] EXCEPT !.from = "none"]
        BY <4>1, <4>3 DEF FrameRec
      <4> QED BY <3>1, <4>2, <4>3
    <3>3. ASSUME frame[f].key # 0, wsPending'[frame[f].key] # "none"
          PROVE  frame'[f].from = wsPending'[frame[f].key]
      <4>1. wsPending'[frame[f].key] # s
        BY <3>2, <3>3, <2>3
      <4>2. wsPending'[frame[f].key] = wsPending[frame[f].key]
        BY <4>1, <3>2, <3>3
      <4>3. frame[f].from = wsPending[frame[f].key]
        BY <4>2, <3>3 DEF OneClient
      <4> QED BY <4>1, <4>2, <4>3, <3>1
    <3> QED BY <3>2, <3>3 DEF OneClient
  <2> QED BY <2>1, <2>2, <2>3
<1> QED BY <1>2, <1>3

\* A call that goes on forgets no open task, if what it had is known still.
LEMMA KnownKept ==
    ASSUME CallShapes, AllKnown, C!Live, NEW s \in Call, NEW d \in CallRec, NEW gone, NEW new,
           Turns(s, d, gone, new), Sends(d, gone, new),
           untold \subseteq untold', "mixed" \in odd => "mixed" \in odd',
           \A t \in Task : office[t] = "done" => office'[t] = "done",
           \A t \in Task : office'[t] = "in-progress" => office[t] = "in-progress" \/ Known(t)',
           \A t \in Task : t \in startedTasks \cup call[s].rest => Known(t)',
           \A t \in Task : t = call[s].task /\ call[s].tool \in {"start_task", "wait_for_events"} => Known(t)'
    PROVE  AllKnown'
<1>0. call \in [Call -> CallRec] /\ frame \in [Frame -> FrameRec]
  BY DEF CallShapes, C!TypeOK, CallRec, FrameRec
<1>1. call'[s] = d /\ \A r \in Call : r # s => call'[r] = call[r]
  BY <1>0 DEF Turns
<1>2. ASSUME NEW t \in Task, Known(t)
      PROVE  Known(t)'
  <2>1. CASE office[t] = "done" \/ t \in untold \/ "mixed" \in odd
    BY <2>1 DEF Known
  <2>2. CASE t \in startedTasks
    BY <2>2
  <2>3. CASE \E r \in Call : \/ t \in call[r].rest
                             \/ t = call[r].task /\ call[r].tool \in {"start_task", "wait_for_events"}
    <3>1. PICK r \in Call : \/ t \in call[r].rest
                            \/ t = call[r].task /\ call[r].tool \in {"start_task", "wait_for_events"}
      BY <2>3
    <3>2. CASE r = s
      BY <3>1, <3>2
    <3>3. CASE r # s
      <4>1. call'[r] = call[r]
        BY <1>1, <3>3
      <4> QED BY <3>1, <4>1 DEF Known
    <3> QED BY <3>2, <3>3
  <2> QED BY <1>2, <2>1, <2>2, <2>3 DEF Known
<1>3. ASSUME NEW t \in Task, NEW f \in Frame, Starts(f, t)'
      PROVE  Known(t)'
  <2>1. CASE f \in new
    <3>1. frame'[f] = C!FrameOf(s, d)
      BY <2>1 DEF Turns
    <3>2. C!Does(d) = "start_task" /\ d.task = t
      BY <3>1, <1>3 DEF Starts, C!FrameOf
    <3>3. d.tool = "start_task"
      BY <3>2 DEF C!Does
    <3> QED BY <1>1, <3>2, <3>3 DEF Known
  <2>2. CASE f \notin new /\ f \in gone
    <3>1. frame'[f] = C!NoFrame
      BY <2>2 DEF Turns
    <3> QED BY <3>1, <1>3 DEF C!NoFrame, Starts
  <2>3. CASE f \notin new /\ f \notin gone
    <3>0. frame[f] \in FrameRec
      BY <1>0
    <3>1. frame'[f] = frame[f] \/ frame'[f] = [frame[f] EXCEPT !.from = "none"]
      BY <2>3 DEF Turns
    <3>2. Starts(f, t)
      <4>1. CASE frame'[f] = frame[f]
        BY <4>1, <1>3 DEF Starts
      <4>2. CASE frame'[f] = [frame[f] EXCEPT !.from = "none"]
        BY <4>2, <3>0, <1>3 DEF Starts, FrameRec
      <4> QED BY <3>1, <4>1, <4>2
    <3> QED BY <3>2, <1>2 DEF AllKnown
  <2> QED BY <2>1, <2>2, <2>3
<1>4. ASSUME NEW t \in Task, office'[t] = "in-progress"
      PROVE  Known(t)'
  BY <1>2, <1>4 DEF AllKnown
<1> QED BY <1>3, <1>4 DEF AllKnown

\* A reply to complete_task stays true, a task never being undone.
LEMMA DoneKept ==
    ASSUME CallShapes, DoneIsDone, NEW s \in Call, NEW d \in CallRec, NEW gone, NEW new,
           Turns(s, d, gone, new),
           \A t \in Task : office[t] = "done" => office'[t] = "done"
    PROVE  DoneIsDone'
<1> SUFFICES ASSUME NEW f \in Frame, frame'[f].at = "back", frame'[f].does = "complete_task"
             PROVE  office'[frame'[f].task] = "done"
  BY DEF DoneIsDone
<1>0. frame[f] \in FrameRec
  BY DEF CallShapes, C!TypeOK, FrameRec
<1>1. f \notin new
  BY DEF Turns, C!FrameOf
<1>2. f \notin gone
  BY <1>1 DEF Turns, C!NoFrame
<1>3. frame'[f] = frame[f] \/ frame'[f] = [frame[f] EXCEPT !.from = "none"]
  BY <1>1, <1>2 DEF Turns
<1>4. frame[f].at = "back" /\ frame[f].does = "complete_task" /\ frame'[f].task = frame[f].task
  <2>1. CASE frame'[f] = frame[f]
    BY <2>1
  <2>2. CASE frame'[f] = [frame[f] EXCEPT !.from = "none"]
    BY <2>2, <1>0 DEF FrameRec
  <2> QED BY <1>3, <2>1, <2>2
<1>5. frame[f].task \in Task
  BY <1>4 DEF CallShapes, FramesFit, FrameFits
<1> QED BY <1>4, <1>5 DEF DoneIsDone

\* The one call there is goes on as d, its frame taken in.
LEMMA OrdinaryKept ==
    ASSUME CallShapes, NEW s \in Call, NEW d \in CallRec, CallFits(d), NEW gone, NEW new,
           Turns(s, d, gone, new), Sends(d, gone, new),
           \A r \in Call : r # s => call[r].at = "free",
           \A f \in Frame : f \in gone \/ frame[f].at = "none",
           again' = {},
           \A t \in startedTasks' : office'[t] # "done",
           d.tool = "wait_for_events" =>
              /\ d.rest \subseteq startedTasks' /\ d.task \notin startedTasks'
              /\ d.at \in {"ws", "http"} => office'[d.task] # "done"
    PROVE  OneAtATime' /\ NotDone'
<1>0. call \in [Call -> CallRec] /\ frame \in [Frame -> FrameRec]
  BY DEF CallShapes, C!TypeOK, CallRec, FrameRec
<1>1. call'[s] = d /\ \A r \in Call : r # s => call'[r] = call[r]
  BY <1>0 DEF Turns
<1>2. \A r \in Call : r # s => call'[r] = C!NoCall
  BY <1>1 DEF CallShapes, CallsFit, CallFits
<1>3. \A f \in Frame : frame'[f].at # "none" => f \in new /\ frame'[f] = C!FrameOf(s, d)
  <2> SUFFICES ASSUME NEW f \in Frame, frame'[f].at # "none", f \notin new
               PROVE  FALSE
    BY DEF Turns
  <2>1. CASE f \in gone
    BY <2>1 DEF Turns, C!NoFrame
  <2>2. CASE f \notin gone
    <3>1. frame[f] = C!NoFrame
      BY <2>2 DEF CallShapes, FramesFit, FrameFits
    <3>2. frame[f].from # s
      BY <3>1, CallNames DEF C!NoFrame
    <3>3. frame'[f] = C!NoFrame
      BY <2>2, <3>1, <3>2 DEF Turns
    <3> QED BY <3>3 DEF C!NoFrame
  <2> QED BY <2>1, <2>2
<1>4. \A f \in Frame : frame'[f].at # "none" =>
            /\ frame'[f].from = s /\ frame'[f].at = "out" /\ d.at = "ws"
            /\ f \in new
  BY <1>3 DEF C!FrameOf, Sends
<1>5. OneAtATime'
  <2>1. \A r, q \in Call : call'[r].at # "free" /\ call'[q].at # "free" => r = q
    BY <1>2 DEF C!NoCall
  <2>2. \A f \in Frame : frame'[f].at # "none" => frame'[f].from # "none" /\ call'[frame'[f].from].at = "ws"
    BY <1>1, <1>4, CallNames
  <2>3. \A f, g \in Frame : frame'[f].at # "none" /\ frame'[g].at # "none" => f = g
    BY <1>4 DEF Sends
  <2> QED BY <2>1, <2>2, <2>3 DEF OneAtATime
<1>6. NotDone'
  <2>1. ASSUME NEW r \in Call, call'[r].tool = "wait_for_events"
        PROVE  /\ call'[r].rest \subseteq startedTasks' /\ call'[r].task \notin startedTasks'
               /\ call'[r].at = "http" => office'[call'[r].task] # "done"
               /\ \A f \in Frame : frame'[f].from = r /\ frame'[f].at \in {"out", "cut off"} =>
                        office'[call'[r].task] # "done"
    <3>1. r = s
      BY <1>2, <2>1 DEF C!NoCall
    <3> QED BY <1>1, <1>4, <2>1, <3>1
  <2>2. \A f \in Frame : frame'[f].at # "back"
    BY <1>4
  <2> QED BY <2>1, <2>2 DEF NotDone
<1> QED BY <1>5, <1>6

\* The types, with the records of this module.
LEMMA CallTypes ==
    /\ C!TypeOK <=> /\ OthersOK /\ call \in [Call -> CallRec] /\ frame \in [Frame -> FrameRec]
                  /\ wsPending \in [CallId -> Call \cup {"none"}]
    /\ C!TypeOK' <=> /\ OthersOK' /\ call' \in [Call -> CallRec] /\ frame' \in [Frame -> FrameRec]
                   /\ wsPending' \in [CallId -> Call \cup {"none"}]
  BY DEF C!TypeOK, OthersOK, CallRec, FrameRec

\* The shapes of calls, frames and waiters, when a call goes on as d.
LEMMA ShapesKept ==
    ASSUME CallShapes, NEW s \in Call, NEW d \in CallRec, CallFits(d),
           NEW gone, NEW new, Turns(s, d, gone, new), Sends(d, gone, new),
           wsPending' \in [CallId -> Call \cup {"none"}],
           \A k \in CallId : wsPending'[k] = s => d.at = "ws" /\ d.tool \in C!Direct /\ d.id = k,
           \A k \in CallId : wsPending'[k] \in {"none", s, wsPending[k]},
           OthersOK'
    PROVE  CallShapes'
<1>1. /\ call' \in [Call -> CallRec] /\ frame' \in [Frame -> FrameRec]
      /\ CallsFit' /\ FramesFit' /\ WaitersFit'
  BY GoesOn
<1> QED BY <1>1, CallTypes DEF CallShapes

\* A call that was sent goes on as d, or ends, once it has its answer.
Settled(s, o, d) ==
    /\ CallFits(d) /\ Slotting(s, d, o)
    /\ d = C!NoCall \/ (d.tool = call[s].tool /\ d.client = call[s].client /\ d.tool \notin C!Direct)
    /\ call[s].tool = "wait_for_events" => WaitGoes(s, call[s], o, d)
    /\ call[s].tool # "wait_for_events" => d.tool # "wait_for_events"

\* A wait that had its answer is settled.
LEMMA WaitSettled ==
    ASSUME CallShapes, NEW s \in Call, NEW gone \in SUBSET Frame, NEW o,
           call[s].tool = "wait_for_events", C!Reconcile(s, call[s], Taken(gone), o)
    PROVE  \E d \in CallRec, new \in SUBSET Frame :
               Turns(s, d, gone, new) /\ Sends(d, gone, new) /\ Settled(s, o, d)
<1>1. call[s] \in CallRec /\ call[s].id = 0
  BY CallTypes DEF CallShapes, CallsFit, CallFits, C!Direct
<1>2. PICK d \in CallRec, new \in SUBSET Frame :
          Turns(s, d, gone, new) /\ Sends(d, gone, new) /\ WaitGoes(s, call[s], o, d)
  BY <1>1, WaitShape
<1>3. Settled(s, o, d)
  BY <1>2 DEF Settled, WaitGoes, C!Direct
<1> QED BY <1>2, <1>3

\* A call that is not a wait is settled by its end.
LEMMA FinishSettled ==
    ASSUME CallShapes, NEW s \in Call, NEW gone \in SUBSET Frame, NEW o,
           call[s].tool # "wait_for_events",
           C!Finished(s, Taken(gone)), odd' = o, UNCHANGED C!wait
    PROVE  Turns(s, C!NoCall, gone, {}) /\ Sends(C!NoCall, gone, {}) /\ Settled(s, o, C!NoCall)
<1>1. C!NoCall.at = "free" /\ C!NoCall.tool = "none"
  BY DEF C!NoCall
<1>2. Slotting(s, C!NoCall, o)
  BY <1>1 DEF Slotting, C!Finished, C!wait
<1>3. CallFits(C!NoCall)
  BY CallRecords
<1> QED BY <1>1, <1>2, <1>3, FinishShape DEF Settled

\* A call that had its answer goes on or ends, and keeps account of the task.
LEMMA AnsweredShape ==
    ASSUME CallShapes, NEW s \in Call, NEW gone \in SUBSET Frame, NEW o,
           call[s].at \in {"ws", "http"}, C!Answered(s, Taken(gone), o)
    PROVE  \E d \in CallRec, new \in SUBSET Frame :
               /\ Turns(s, d, gone, new) /\ Sends(d, gone, new) /\ Settled(s, o, d)
               /\ call[s].tool # "wait_for_events" => C!Track(call[s])
<1>0. call[s] \in CallRec /\ call[s].tool # "none"
  BY CallTypes DEF CallShapes, CallsFit, CallFits
<1>1. CASE call[s].tool = "wait_for_events"
  BY <1>1, WaitSettled DEF C!Answered
<1>2. CASE call[s].tool = "ask_user"
  <2> DEFINE d == [call[s] EXCEPT !.at = "asking"]
  <2>1. /\ call' = [call EXCEPT ![s] = d]
        /\ frame' = C!Disowned(s, Taken(gone)) /\ odd' = o
        /\ UNCHANGED <<startedTasks, events, eventWaiter, life>>
    BY <1>2, CallTypes DEF C!Answered, C!wait, CallShapes
  <2>2. d \in CallRec /\ d.tool = "ask_user" /\ d.at = "asking" /\ d.client = call[s].client
    BY <1>0, <1>2 DEF CallRec
  <2>3. CallFits(d)
    <3>1. CallFits(call[s])
      BY DEF CallShapes, CallsFit
    <3> QED BY <1>0, <1>2, <3>1 DEF CallFits, CallRec, C!Direct
  <2>4. \A g \in Frame : C!Disowned(s, Taken(gone))[g] =
                            IF g \in gone THEN C!NoFrame
                            ELSE IF frame[g].from = s THEN [frame[g] EXCEPT !.from = "none"] ELSE frame[g]
    BY CallNames DEF C!Disowned, Taken, C!NoFrame
  <2>5. C!Disowned(s, Taken(gone)) = [g \in Frame |-> C!Disowned(s, Taken(gone))[g]]
    BY DEF C!Disowned
  <2>6. frame' = [g \in Frame |-> IF g \in {} THEN C!FrameOf(s, d)
                ELSE IF g \in gone THEN C!NoFrame
                ELSE IF frame[g].from = s THEN [frame[g] EXCEPT !.from = "none"] ELSE frame[g]]
    BY <2>1, <2>4, <2>5
  <2>7. Turns(s, d, gone, {}) /\ Sends(d, gone, {})
    BY <2>1, <2>6 DEF Turns, Sends
  <2>8. Slotting(s, d, o)
    BY <2>1, <2>2 DEF Slotting
  <2>9. Settled(s, o, d) /\ C!Track(call[s])
    BY <1>2, <2>1, <2>2, <2>3, <2>8 DEF Settled, C!Track, C!Direct
  <2> QED BY <2>2, <2>7, <2>9
<1>3. CASE call[s].tool \in C!Direct
  <2>1. C!Track(call[s]) /\ C!Finished(s, Taken(gone)) /\ odd' = o /\ UNCHANGED C!wait
    BY <1>3 DEF C!Answered, C!Direct
  <2>2. Turns(s, C!NoCall, gone, {}) /\ Sends(C!NoCall, gone, {}) /\ Settled(s, o, C!NoCall)
    BY <1>3, <2>1, FinishSettled DEF C!Direct
  <2> QED BY <2>1, <2>2, CallRecords
<1> QED BY <1>0, <1>1, <1>2, <1>3 DEF CallRec, C!Tool, C!Direct

\* A call that failed goes on or ends, and leaves what was started alone.
LEMMA FailedShape ==
    ASSUME CallShapes, NEW s \in Call, NEW gone \in SUBSET Frame, NEW o, C!Failed(s, Taken(gone), o)
    PROVE  \E d \in CallRec, new \in SUBSET Frame :
               /\ Turns(s, d, gone, new) /\ Sends(d, gone, new) /\ Settled(s, o, d)
               /\ call[s].tool # "wait_for_events" => startedTasks' = startedTasks
<1>1. CASE call[s].tool = "wait_for_events"
  BY <1>1, WaitSettled DEF C!Failed
<1>2. CASE call[s].tool # "wait_for_events"
  <2>1. C!Finished(s, Taken(gone)) /\ odd' = o /\ UNCHANGED <<startedTasks, C!wait>>
    BY <1>2 DEF C!Failed
  <2>2. Turns(s, C!NoCall, gone, {}) /\ Sends(C!NoCall, gone, {}) /\ Settled(s, o, C!NoCall)
    BY <1>2, <2>1, FinishSettled
  <2> QED BY <2>1, <2>2, CallRecords
<1> QED BY <1>1, <1>2

\* What is kept, but for what the office knows.
LEMMA SettledKeeps ==
    ASSUME CallShapes, OneClient, OneSlot, NEW s \in Call, call[s].at \in {"ws", "http"},
           NEW d \in CallRec, NEW gone \in SUBSET Frame, NEW new \in SUBSET Frame,
           NEW o, o \subseteq {"retried", "parallel", "mixed", "crowded", "unheard"}, odd \subseteq o,
           mode = "stdio" => "mixed" \notin o,
           Turns(s, d, gone, new), Sends(d, gone, new), Settled(s, o, d),
           UNCHANGED <<mode, link, made>>,
           wsPending' \in [CallId -> Call \cup {"none"}],
           \A k \in CallId : wsPending'[k] \in {"none", wsPending[k]} /\ wsPending'[k] # s,
           startedTasks' \subseteq Task, office' \in [Task -> {"pending", "in-progress", "done"}],
           untold' \subseteq Task, again' \subseteq Task, callFaults' \in 0..CallFaults
    PROVE  CallShapes' /\ OneClient' /\ OneSlot'
<1>0. OthersOK /\ call \in [Call -> CallRec]
  BY CallTypes DEF CallShapes
<1>1. Slotting(s, d, o) /\ CallFits(d)
  BY DEF Settled
<1>2. events' \in 0..EventCap
  BY <1>0, <1>1, CallBounds DEF OthersOK, Slotting
<1>3. OthersOK'
  BY <1>0, <1>1, <1>2 DEF OthersOK, Slotting
<1>4. CallShapes'
  BY <1>1, <1>3, ShapesKept
<1>5. OneSlot'
  BY <1>1, SlotKept
<1>6. odd' \in {o, o \cup {"crowded"}}
  BY <1>1 DEF Slotting
<1>7. new # {} => C!Key(d) = 0
  BY DEF Sends, Settled, C!NoCall, C!Key, C!Own
<1>8. mode = "stdio" /\ d.at # "free" => d.client = C!First
  BY <1>0 DEF OneClient, Settled, C!NoCall
<1>9. OneClient'
  BY <1>6, <1>7, <1>8, OneClientKept
<1> QED BY <1>4, <1>5, <1>9

\* What was open, and not forgotten, is known still.
LEMMA KnownSettled ==
    ASSUME CallShapes, NEW s \in Call, NEW d \in CallRec, NEW gone, NEW new, NEW o,
           Turns(s, d, gone, new), Settled(s, o, d),
           call[s].tool # "wait_for_events" => \A t \in startedTasks : t \in startedTasks' \/ Known(t)'
    PROVE  \A t \in Task : t \in startedTasks \cup call[s].rest => Known(t)'
<1>0. call \in [Call -> CallRec] /\ CallFits(call[s])
  BY CallTypes DEF CallShapes, CallsFit
<1>1. call'[s] = d
  BY <1>0 DEF Turns
<1> SUFFICES ASSUME NEW t \in Task, t \in startedTasks \cup call[s].rest
             PROVE  Known(t)'
  OBVIOUS
<1>2. CASE call[s].tool = "wait_for_events"
  <2>1. /\ startedTasks' = startedTasks \ {d.task} /\ d.rest = call[s].rest \ {d.task}
        /\ d = C!NoCall \/ d.tool = "wait_for_events"
    BY <1>2 DEF Settled, WaitGoes
  <2>2. CASE t = d.task
    <3>1. d.tool = "wait_for_events"
      BY <2>1, <2>2, CallNames DEF C!NoCall
    <3> QED BY <1>1, <2>2, <3>1 DEF Known
  <2>3. CASE t # d.task
    <3>1. t \in startedTasks' \/ t \in call'[s].rest
      BY <1>1, <2>1, <2>3
    <3> QED BY <3>1 DEF Known
  <2> QED BY <2>2, <2>3
<1>3. CASE call[s].tool # "wait_for_events"
  <2>1. t \in startedTasks
    BY <1>0, <1>3 DEF CallFits
  <2> QED BY <1>3, <2>1 DEF Known
<1> QED BY <1>2, <1>3

\* With one call, what was started and is done that call completes.
LEMMA OpenTasks ==
    ASSUME CallShapes, OneAtATime, NotDone, NEW s \in Call, call[s].at # "free",
           NEW t \in startedTasks, office[t] = "done"
    PROVE  call[s].at = "ws" /\ call[s].tool = "complete_task" /\ call[s].task = t
<1>1. PICK r \in Call : call[r].at = "ws" /\ call[r].tool = "complete_task" /\ call[r].task = t
  BY DEF NotDone, Completes
<1>2. r = s
  BY <1>1 DEF OneAtATime
<1> QED BY <1>1, <1>2

\* With one call at a time, what is left to complete stays open.
LEMMA OrdinarySettled ==
    ASSUME CallShapes, OneAtATime, NotDone, NEW s \in Call, call[s].at # "free",
           NEW d \in CallRec, NEW gone, NEW new, NEW o,
           Turns(s, d, gone, new), Sends(d, gone, new), Settled(s, o, d),
           \A f \in Frame : f \in gone \/ frame[f].at = "none",
           again' = {},
           \A t \in startedTasks' : office'[t] # "done",
           call[s].tool = "wait_for_events" => \A t \in startedTasks : office'[t] # "done"
    PROVE  OneAtATime' /\ NotDone'
<1>1. \A r \in Call : r # s => call[r].at = "free"
  BY DEF OneAtATime
<1>2. CallFits(d)
  BY DEF Settled
<1>3. ASSUME d.tool = "wait_for_events"
      PROVE  /\ d.rest \subseteq startedTasks' /\ d.task \notin startedTasks'
             /\ d.at \in {"ws", "http"} => office'[d.task] # "done"
  <2>1. call[s].tool = "wait_for_events"
    BY <1>3 DEF Settled
  <2>2. call[s].rest \subseteq startedTasks
    BY <2>1 DEF NotDone
  <2>3. /\ d.rest = call[s].rest \ {d.task} /\ startedTasks' = startedTasks \ {d.task}
        /\ d.at \in {"ws", "http"} => d.task \in call[s].rest
    BY <2>1 DEF Settled, WaitGoes
  <2> QED BY <2>1, <2>2, <2>3
<1> QED BY <1>1, <1>2, <1>3, OrdinaryKept

\* The inductive invariant of the calls.
CallsInv == CallShapes /\ OneClient /\ AllKnown /\ DoneIsDone /\ Ordinarily /\ OneSlot

\* What the office does with a tool: it completes, starts or leaves tasks.
LEMMA RunShape ==
    ASSUME OthersOK, NEW d, NEW t, NEW own, d \in {"start_task", "complete_task"} => t \in Task,
           C!Run(d, t, own)
    PROVE  /\ office' \in [Task -> {"pending", "in-progress", "done"}]
           /\ \A x \in Task : office[x] = "done" => office'[x] = "done"
           /\ \A x \in Task : office'[x] = "in-progress" =>
                  office[x] = "in-progress" \/ (x = t /\ d = "start_task" /\ ~C!Refused(d, t))
           /\ d = "complete_task" => office'[t] = "done"
           /\ d = "start_task" /\ ~C!Refused(d, t) => office'[t] = "in-progress"
           /\ \A x \in Task : office'[x] = "done" => office[x] = "done" \/ (x = t /\ d = "complete_task")
           /\ again' \subseteq again \cup {t}
           /\ d \notin {"start_task", "complete_task"} => again' = again
           /\ again' = again \/ (own /\ d = "complete_task" /\ office[t] = "done")
<1>0. office \in [Task -> {"pending", "in-progress", "done"}]
  BY DEF OthersOK
<1>1. CASE d = "complete_task"
  BY <1>0, <1>1 DEF C!Run
<1>2. CASE d = "start_task"
  <2>1. CASE C!Refused(d, t)
    BY <1>0, <1>2, <2>1 DEF C!Run, C!Refused
  <2>2. CASE ~C!Refused(d, t)
    BY <1>0, <1>2, <2>2 DEF C!Run, C!Refused
  <2> QED BY <2>1, <2>2
<1>3. CASE d \notin {"start_task", "complete_task"}
  BY <1>0, <1>3 DEF C!Run, C!Refused
<1> QED BY <1>1, <1>2, <1>3

\* No frame taken in.
LEMMA FrameTook == frame \in [Frame -> FrameRec] => frame = Taken({})
  BY DEF Taken

\* Who waits for the reply in a frame has sent it, or waits under its id.
LEMMA WaitsFor ==
    ASSUME CallShapes, NEW f \in Frame, C!Waits(f) \in Call
    PROVE  LET s == C!Waits(f) IN
           /\ call[s].at \in {"ws", "http"}
           /\ frame[f].key # 0 => call[s].tool \in C!Direct /\ call[s].id = frame[f].key
           /\ frame[f].key = 0 => frame[f].from = s /\ call[s].tool \notin C!Direct
<1> DEFINE s == C!Waits(f)
<1>0. frame[f].key \in CallId \cup {0}
  BY CallTypes DEF CallShapes, FrameRec
<1>1. CASE frame[f].key # 0
  BY <1>0, <1>1, CallNames DEF C!Waits, CallShapes, WaitersFit
<1>2. CASE frame[f].key = 0
  <2>1. frame[f].from = s
    BY <1>2 DEF C!Waits
  <2>2. Owns(call[s], frame[f])
    BY <2>1, CallNames DEF CallShapes, FramesFit
  <2>3. call[s].tool \in C!Direct => call[s].id \in CallId
    BY DEF CallShapes, CallsFit, CallFits
  <2> QED BY <1>2, <2>1, <2>2, <2>3, CallBounds DEF Owns, C!Key, C!Own
<1> QED BY <1>1, <1>2

\* Then nobody waits under its id.
LEMMA TakenOut ==
    ASSUME CallShapes, NEW f \in Frame, C!Waits(f) \in Call,
           wsPending' = IF frame[f].key = 0 THEN wsPending ELSE [wsPending EXCEPT ![frame[f].key] = "none"]
    PROVE  \A k \in CallId : wsPending'[k] \in {"none", wsPending[k]} /\ wsPending'[k] # C!Waits(f)
<1> DEFINE s == C!Waits(f)
<1> SUFFICES ASSUME NEW k \in CallId
             PROVE  wsPending'[k] \in {"none", wsPending[k]} /\ wsPending'[k] # s
  OBVIOUS
<1>0. wsPending \in [CallId -> Call \cup {"none"}] /\ frame[f].key \in CallId \cup {0}
  BY CallTypes DEF CallShapes, FrameRec
<1>1. wsPending[k] = s => call[s].tool \in C!Direct /\ call[s].id = k
  BY CallNames DEF CallShapes, WaitersFit
<1>2. /\ frame[f].key # 0 => call[s].id = frame[f].key
      /\ frame[f].key = 0 => call[s].tool \notin C!Direct
  BY WaitsFor
<1>3. CASE frame[f].key = 0
  BY <1>1, <1>2, <1>3
<1>4. CASE frame[f].key # 0
  BY <1>0, <1>1, <1>2, <1>4, CallNames
<1> QED BY <1>3, <1>4

\* An answer comes by the socket.
LEMMA AnswerComes ==
    ASSUME CallsInv, NEW f \in Frame, C!Response(f), C!Waits(f) # "none", frame[f].at = "back"
    PROVE  CallsInv'
<1> DEFINE r == frame[f]
<1> DEFINE s == C!Waits(f)
<1> DEFINE o == IF s # r.from THEN odd \cup {"mixed"} ELSE odd
<1>0. OthersOK /\ call \in [Call -> CallRec] /\ frame \in [Frame -> FrameRec]
      /\ wsPending \in [CallId -> Call \cup {"none"}]
  BY CallTypes DEF CallsInv, CallShapes
<1>1. /\ C!Live
      /\ wsPending' = IF r.key = 0 THEN wsPending ELSE [wsPending EXCEPT ![r.key] = "none"]
      /\ C!Answered(s, [frame EXCEPT ![f] = C!NoFrame], o)
      /\ UNCHANGED <<mode, link, office, untold, again, made, callFaults>>
  BY DEF C!Response
<1>2. [frame EXCEPT ![f] = C!NoFrame] = Taken({f})
  BY <1>0 DEF Taken
<1>3. r \in FrameRec /\ r.key \in CallId \cup {0} /\ r.from \in Call \cup {"none"}
  BY <1>0 DEF FrameRec
<1>4. s \in Call
  BY <1>0, <1>3 DEF C!Waits
<1>5. /\ call[s].at \in {"ws", "http"}
      /\ r.key # 0 => call[s].tool \in C!Direct /\ call[s].id = r.key
      /\ r.key = 0 => r.from = s /\ call[s].tool \notin C!Direct
  BY <1>4, WaitsFor DEF CallsInv
<1>6. PICK d \in CallRec, new \in SUBSET Frame :
          /\ Turns(s, d, {f}, new) /\ Sends(d, {f}, new) /\ Settled(s, o, d)
          /\ call[s].tool # "wait_for_events" => C!Track(call[s])
  BY <1>1, <1>2, <1>4, <1>5, AnsweredShape DEF CallsInv
<1>7. odd \subseteq o /\ o \subseteq {"retried", "parallel", "mixed", "crowded", "unheard"}
  BY <1>0 DEF OthersOK
<1>8. mode = "stdio" => "mixed" \notin o
  <2>1. ASSUME mode = "stdio" PROVE s = r.from
    BY <1>3, <1>4, <2>1, CallNames DEF CallsInv, OneClient, C!Waits
  <2> QED BY <2>1 DEF CallsInv, OneClient
<1>9. \A k \in CallId : wsPending'[k] \in {"none", wsPending[k]} /\ wsPending'[k] # s
  BY <1>1, <1>4, TakenOut DEF CallsInv
<1>10. wsPending' \in [CallId -> Call \cup {"none"}]
  BY <1>0, <1>1
<1>11. call[s] \in CallRec /\ CallFits(call[s]) /\ (call[s].tool # "ask_user" => call[s].task \in Task)
  BY <1>0, <1>4, <1>5 DEF CallsInv, CallShapes, CallsFit, CallFits
<1>12. startedTasks' \subseteq Task
  <2>1. CASE call[s].tool = "wait_for_events"
    BY <1>0, <1>6, <2>1 DEF Settled, WaitGoes, OthersOK
  <2>2. CASE call[s].tool # "wait_for_events"
    BY <1>0, <1>6, <1>11, <2>2 DEF C!Track, OthersOK
  <2> QED BY <2>1, <2>2
<1>13. CallShapes' /\ OneClient' /\ OneSlot'
  <2>1. UNCHANGED <<mode, link, made>> /\ office' \in [Task -> {"pending", "in-progress", "done"}]
        /\ untold' \subseteq Task /\ again' \subseteq Task /\ callFaults' \in 0..CallFaults
    BY <1>0, <1>1 DEF OthersOK
  <2> QED BY <1>4, <1>5, <1>6, <1>7, <1>8, <1>9, <1>10, <1>12, <2>1, SettledKeeps DEF CallsInv
<1>14. odd' \in {o, o \cup {"crowded"}}
  BY <1>6 DEF Settled, Slotting
<1>15. s = r.from => Owns(call[s], r)
  BY <1>4, CallNames DEF CallsInv, CallShapes, FramesFit
<1>16. call'[s] = d
  BY <1>0, <1>4, <1>6 DEF Turns
<1>17. AllKnown'
  <2>1. CASE s # r.from
    <3>1. "mixed" \in odd'
      BY <1>14, <2>1
    <3> QED BY <3>1 DEF AllKnown, Known
  <2>2. CASE s = r.from
    <3>1. r.does = C!Does(call[s]) /\ r.task = call[s].task
      BY <1>15, <2>2 DEF Owns
    <3>2. C!Does(call[s]) = "complete_task" => office'[call[s].task] = "done"
      BY <1>1, <3>1 DEF CallsInv, DoneIsDone
    <3>3. call[s].tool # "wait_for_events" => \A t \in startedTasks : t \in startedTasks' \/ Known(t)'
      BY <1>6, <3>2 DEF C!Track, Known, C!Does
    <3>4. \A t \in Task : t \in startedTasks \cup call[s].rest => Known(t)'
      BY <1>4, <1>6, <3>3, KnownSettled DEF CallsInv
    <3>5. \A t \in Task : t = call[s].task /\ call[s].tool \in {"start_task", "wait_for_events"} => Known(t)'
      BY <1>6, <3>2 DEF Known, C!Does, C!Track
    <3> QED BY <1>1, <1>4, <1>6, <1>7, <1>14, <3>4, <3>5, KnownKept DEF CallsInv
  <2> QED BY <2>1, <2>2
<1>18. DoneIsDone'
  BY <1>1, <1>4, <1>6, DoneKept DEF CallsInv
<1>19. Ordinarily'
  <2> SUFFICES ASSUME Plain'
               PROVE  OneAtATime' /\ NotDone'
    BY DEF Ordinarily
  <2>1. Plain
    BY <1>7, <1>14 DEF Plain
  <2>2. OneAtATime /\ NotDone
    BY <2>1 DEF CallsInv, Ordinarily
  <2>3. s = r.from
    BY <1>3, <1>4, <1>5, <2>2 DEF OneAtATime
  <2>4. \A g \in Frame : g \in {f} \/ frame[g].at = "none"
    BY <2>2 DEF OneAtATime
  <2>5. r.does = C!Does(call[s]) /\ r.task = call[s].task
    BY <1>15, <2>3 DEF Owns
  <2>6. \A t \in startedTasks : office[t] = "done" => call[s].tool = "complete_task" /\ call[s].task = t
    BY <1>4, <1>5, <2>2, OpenTasks DEF CallsInv
  <2>7. call[s].tool = "wait_for_events" => \A t \in startedTasks : office'[t] # "done"
    BY <1>1, <2>6
  <2>8. \A t \in startedTasks' : office'[t] # "done"
    <3>1. CASE call[s].tool = "wait_for_events"
      BY <1>6, <2>7, <3>1 DEF Settled, WaitGoes
    <3>2. CASE call[s].tool = "start_task"
      <4>1. office[call[s].task] # "done"
        BY <2>2, <2>5, <3>2 DEF NotDone, C!Does
      <4> QED BY <1>1, <1>6, <2>6, <3>2, <4>1 DEF C!Track
    <3>3. CASE call[s].tool \notin {"wait_for_events", "start_task"}
      BY <1>1, <1>6, <2>6, <3>3 DEF C!Track
    <3> QED BY <3>1, <3>2, <3>3
  <2>9. again' = {}
    BY <1>1, <2>2 DEF OneAtATime
  <2> QED BY <1>4, <1>5, <1>6, <2>2, <2>4, <2>7, <2>8, <2>9, OrdinarySettled DEF CallsInv
<1> QED BY <1>13, <1>17, <1>18, <1>19 DEF CallsInv

\* A call goes over HTTP, for a second time or because the socket is down.
LEMMA HttpEnds ==
    ASSUME CallsInv, NEW s \in Call, C!Http(s)
    PROVE  CallsInv'
<1> DEFINE c == call[s]
<1>0. OthersOK /\ call \in [Call -> CallRec] /\ frame \in [Frame -> FrameRec]
      /\ wsPending \in [CallId -> Call \cup {"none"}]
  BY CallTypes DEF CallsInv, CallShapes
<1>1. C!Live /\ c.at = "http" /\ UNCHANGED <<mode, link, wsPending, made>>
  BY DEF C!Http
<1>2. c \in CallRec /\ CallFits(c) /\ (c.tool # "ask_user" => c.task \in Task) /\ c.tool # "none"
  BY <1>0, <1>1 DEF CallsInv, CallShapes, CallsFit, CallFits
<1>3. frame = Taken({})
  BY <1>0, FrameTook
<1>4. C!Does(c) \in {"start_task", "complete_task"} => c.task \in Task
  BY <1>2 DEF C!Does
<1> DEFINE ran == C!Run(C!Does(c), c.task, C!Own(c))
<1> DEFINE toldIt == untold' = IF c.tool \in {"start_task", "wait_for_events"} THEN untold \cup {c.task} ELSE untold
<1>5. PICK o \in {odd, odd \cup {"unheard"}} :
          \/ ran /\ ~C!Refused(C!Does(c), c.task) /\ C!Answered(s, frame, o) /\ o = odd /\ UNCHANGED <<untold, callFaults>>
          \/ ran /\ C!Refused(C!Does(c), c.task) /\ C!Failed(s, frame, o) /\ o = odd /\ UNCHANGED <<untold, callFaults>>
          \/ ran /\ C!Failed(s, frame, o) /\ "unheard" \in o /\ toldIt /\ callFaults < CallFaults /\ callFaults' = callFaults + 1
          \/ UNCHANGED <<office, again>> /\ C!Failed(s, frame, o) /\ o = odd /\ toldIt
             /\ callFaults < CallFaults /\ callFaults' = callFaults + 1
  BY DEF C!Http
<1> DEFINE answered == C!Answered(s, frame, o)
<1>6. PICK d \in CallRec, new \in SUBSET Frame :
          /\ Turns(s, d, {}, new) /\ Sends(d, {}, new) /\ Settled(s, o, d)
          /\ c.tool # "wait_for_events" => \/ C!Track(c) /\ ran /\ ~C!Refused(C!Does(c), c.task) /\ o = odd
                                           \/ startedTasks' = startedTasks
          /\ \/ ran /\ ~C!Refused(C!Does(c), c.task) /\ UNCHANGED <<untold, callFaults>>
                /\ (c.tool # "wait_for_events" => C!Track(c))
             \/ ran /\ C!Refused(C!Does(c), c.task) /\ UNCHANGED <<untold, callFaults>>
             \/ toldIt /\ callFaults < CallFaults /\ callFaults' = callFaults + 1
  <2>1. CASE ran /\ ~C!Refused(C!Does(c), c.task) /\ C!Answered(s, frame, o) /\ o = odd /\ UNCHANGED <<untold, callFaults>>
    <3>1. C!Answered(s, Taken({}), o)
      BY <1>3, <2>1
    <3>2. PICK d \in CallRec, new \in SUBSET Frame :
          /\ Turns(s, d, {}, new) /\ Sends(d, {}, new) /\ Settled(s, o, d)
          /\ c.tool # "wait_for_events" => C!Track(c)
      BY <1>1, <3>1, AnsweredShape DEF CallsInv
    <3> QED BY <2>1, <3>2
  <2>2. CASE C!Failed(s, frame, o)
    <3>1. C!Failed(s, Taken({}), o)
      BY <1>3, <2>2
    <3>2. PICK d \in CallRec, new \in SUBSET Frame :
          /\ Turns(s, d, {}, new) /\ Sends(d, {}, new) /\ Settled(s, o, d)
          /\ c.tool # "wait_for_events" => startedTasks' = startedTasks
      BY <3>1, FailedShape DEF CallsInv
    <3>3. \/ ran /\ C!Refused(C!Does(c), c.task) /\ UNCHANGED <<untold, callFaults>>
          \/ toldIt /\ callFaults < CallFaults /\ callFaults' = callFaults + 1
          \/ ran /\ ~C!Refused(C!Does(c), c.task) /\ C!Answered(s, frame, o) /\ o = odd /\ UNCHANGED <<untold, callFaults>>
      BY <1>5
    <3> QED BY <2>1, <3>2, <3>3
  <2> QED BY <1>5, <2>1, <2>2
<1>7. ran \/ UNCHANGED <<office, again>>
  BY <1>5
<1>8. /\ office' \in [Task -> {"pending", "in-progress", "done"}]
      /\ \A x \in Task : office[x] = "done" => office'[x] = "done"
      /\ \A x \in Task : office'[x] = "in-progress" =>
             office[x] = "in-progress" \/ (x = c.task /\ c.tool = "start_task" /\ ran /\ ~C!Refused(C!Does(c), c.task))
      /\ \A x \in Task : office'[x] = "done" => office[x] = "done" \/ (x = c.task /\ C!Does(c) = "complete_task")
      /\ again' \subseteq Task
      /\ again' = again \/ (C!Own(c) /\ C!Does(c) = "complete_task" /\ office[c.task] = "done")
  <2>1. CASE ran
    <3> HIDE DEF c
    <3>1. C!Does(c) = "start_task" => c.tool = "start_task"
      BY DEF C!Does
    <3>2. again' \subseteq Task
      BY <1>0, <1>4, <2>1, RunShape DEF OthersOK
    <3> QED BY <1>0, <1>4, <2>1, <3>1, <3>2, RunShape
  <2>2. CASE UNCHANGED <<office, again>>
    BY <1>0, <2>2 DEF OthersOK
  <2> QED BY <1>7, <2>1, <2>2
<1>9. ran /\ C!Does(c) = "complete_task" => office'[c.task] = "done"
  <2> HIDE DEF c
  <2> QED BY <1>0, <1>4, RunShape
<1>10. \A k \in CallId : wsPending'[k] \in {"none", wsPending[k]} /\ wsPending'[k] # s
  BY <1>1, CallNames DEF CallsInv, CallShapes, WaitersFit
<1>11. startedTasks' \subseteq Task
  <2>1. CASE c.tool = "wait_for_events"
    BY <1>0, <1>6, <2>1 DEF Settled, WaitGoes, OthersOK
  <2>2. CASE c.tool # "wait_for_events"
    BY <1>0, <1>6, <1>2, <2>2 DEF C!Track, OthersOK
  <2> QED BY <2>1, <2>2
<1>12. /\ odd \subseteq o /\ o \subseteq {"retried", "parallel", "mixed", "crowded", "unheard"}
       /\ mode = "stdio" => "mixed" \notin o
  BY <1>0 DEF OthersOK, CallsInv, OneClient
<1>13. /\ untold \subseteq untold' /\ untold' \subseteq Task /\ callFaults' \in 0..CallFaults
  BY <1>0, <1>2, <1>6, CallBounds DEF OthersOK
<1>14. CallShapes' /\ OneClient' /\ OneSlot'
  <2>1. wsPending' \in [CallId -> Call \cup {"none"}]
    BY <1>0, <1>1
  <2> QED BY <1>1, <1>6, <1>8, <1>10, <1>11, <1>12, <1>13, <2>1, SettledKeeps DEF CallsInv
<1>15. odd' \in {o, o \cup {"crowded"}}
  BY <1>6 DEF Settled, Slotting
<1>16. call'[s] = d
  BY <1>0, <1>6 DEF Turns
<1>17. AllKnown'
  <2>1. c.tool # "wait_for_events" => \A t \in startedTasks : t \in startedTasks' \/ Known(t)'
    BY <1>6, <1>9 DEF C!Track, Known, C!Does
  <2>2. \A t \in Task : t \in startedTasks \cup call[s].rest => Known(t)'
    BY <1>6, <2>1, KnownSettled DEF CallsInv
  <2>3. \A t \in Task : t = call[s].task /\ call[s].tool \in {"start_task", "wait_for_events"} => Known(t)'
    <3> SUFFICES ASSUME NEW t \in Task, t = c.task, c.tool \in {"start_task", "wait_for_events"}
                 PROVE  Known(t)'
      OBVIOUS
    <3>1. CASE toldIt
      BY <3>1 DEF Known
    <3>2. CASE ran /\ ~C!Refused(C!Does(c), c.task) /\ (c.tool # "wait_for_events" => C!Track(c))
      BY <1>9, <3>2 DEF Known, C!Track, C!Does
    <3>3. CASE ran /\ C!Refused(C!Does(c), c.task)
      <4>1. office[t] = "done"
        BY <3>3 DEF C!Refused
      <4> QED BY <1>8, <4>1 DEF Known
    <3> QED BY <1>6, <3>1, <3>2, <3>3
  <2>4. \A t \in Task : office'[t] = "in-progress" => office[t] = "in-progress" \/ Known(t)'
    BY <1>8, <2>3
  <2> QED BY <1>1, <1>6, <1>8, <1>12, <1>13, <1>15, <2>2, <2>3, <2>4, KnownKept DEF CallsInv
<1>18. DoneIsDone'
  BY <1>6, <1>8, DoneKept DEF CallsInv
<1>19. Ordinarily'
  <2> SUFFICES ASSUME Plain'
               PROVE  OneAtATime' /\ NotDone'
    BY DEF Ordinarily
  <2>1. Plain
    BY <1>12, <1>15 DEF Plain
  <2>2. OneAtATime /\ NotDone
    BY <2>1 DEF CallsInv, Ordinarily
  <2>3. \A g \in Frame : g \in {} \/ frame[g].at = "none"
    <3> SUFFICES ASSUME NEW g \in Frame, frame[g].at # "none"
                 PROVE  FALSE
      OBVIOUS
    <3>1. frame[g].from # "none" /\ call[frame[g].from].at = "ws" /\ frame[g].from \in Call \cup {"none"}
      BY <1>0, <2>2 DEF OneAtATime, FrameRec
    <3>2. frame[g].from = s
      BY <1>1, <2>2, <3>1 DEF OneAtATime
    <3> QED BY <1>1, <3>1, <3>2
  <2>4. \A t \in startedTasks : office[t] # "done"
    BY <1>1, <2>2, OpenTasks DEF CallsInv
  <2>5. c.tool = "wait_for_events" => c.task \notin startedTasks /\ office[c.task] # "done"
    BY <1>1, <2>2 DEF NotDone
  <2>6. c.tool = "wait_for_events" => \A t \in startedTasks : office'[t] # "done"
    BY <1>8, <2>4, <2>5, <1>0 DEF OthersOK
  <2>7. again' = {}
    <3>1. C!Own(c) /\ C!Does(c) = "complete_task" => c.tool = "wait_for_events"
      BY DEF C!Own, C!Does, C!Direct
    <3> QED BY <1>8, <2>2, <2>5, <3>1 DEF OneAtATime
  <2>8. o = odd
    BY <1>15 DEF Plain
  <2>9. \A t \in startedTasks' : office'[t] # "done"
    <3>1. CASE c.tool = "wait_for_events"
      BY <1>6, <2>6, <3>1 DEF Settled, WaitGoes
    <3>2. CASE c.tool = "start_task"
      <4>1. (C!Track(c) /\ ran /\ ~C!Refused(C!Does(c), c.task)) \/ startedTasks' = startedTasks
        BY <1>6, <3>2
      <4>2. \A t \in startedTasks : office'[t] # "done"
        BY <1>0, <1>8, <2>4, <3>2 DEF OthersOK, C!Does
      <4>3. ran /\ ~C!Refused(C!Does(c), c.task) => office'[c.task] # "done"
        BY <1>2, <1>8, <3>2 DEF C!Refused, C!Does
      <4> QED BY <3>2, <4>1, <4>2, <4>3 DEF C!Track
    <3>3. CASE c.tool = "ask_user"
      BY <1>0, <1>6, <1>8, <2>4, <3>3 DEF C!Track, C!Does, OthersOK
    <3>4. CASE c.tool = "complete_task"
      <4>1. CASE C!Track(c)
        BY <1>0, <1>8, <2>4, <3>4, <4>1 DEF C!Track, OthersOK
      <4>2. CASE ~C!Track(c)
        <5>1. startedTasks' = startedTasks
          BY <1>6, <3>4, <4>2
        <5>2. office' = office
          BY <1>5, <2>8, <1>1, <2>1, <4>2, <3>4 DEF C!Refused, C!Does, Plain, C!Answered
        <5> QED BY <2>4, <5>1, <5>2
      <4> QED BY <4>1, <4>2
    <3> QED BY <1>2, <3>1, <3>2, <3>3, <3>4 DEF CallRec, C!Tool
  <2> QED BY <1>1, <1>6, <2>2, <2>3, <2>6, <2>7, <2>9, OrdinarySettled DEF CallsInv
<1> QED BY <1>14, <1>17, <1>18, <1>19 DEF CallsInv

\* Nothing an invariant is about has changed.
LEMMA CallsStay ==
    ASSUME UNCHANGED <<call, startedTasks, office, odd, untold, again>>
    PROVE  /\ \A t \in Task : Known(t) <=> Known(t)'
           /\ C!Live /\ AllKnown /\ frame' = frame => AllKnown'
           /\ Plain' => Plain
           /\ OneAtATime /\ frame' = frame => OneAtATime'
           /\ NotDone /\ frame' = frame => NotDone'
           /\ Ordinarily /\ frame' = frame => Ordinarily'
<1>1. \A t \in Task : Known(t) <=> Known(t)'
  BY DEF Known
<1>2. C!Live /\ AllKnown /\ frame' = frame => AllKnown'
  BY <1>1 DEF AllKnown, Starts, C!Live
<1>3. Plain' => Plain
  BY DEF Plain
<1>4. OneAtATime /\ frame' = frame => OneAtATime'
  BY DEF OneAtATime
<1>5. NotDone /\ frame' = frame => NotDone'
  <2> SUFFICES ASSUME NotDone, frame' = frame
               PROVE  NotDone'
    OBVIOUS
  <2>1. \A t \in startedTasks : Completes(t) <=> Completes(t)'
    BY DEF Completes
  <2>2. \A t \in startedTasks' : office'[t] = "done" => Completes(t)'
    BY <2>1 DEF NotDone, Completes
  <2>3. /\ \A s \in Call : call'[s].tool = "wait_for_events" =>
              /\ call'[s].rest \subseteq startedTasks' /\ call'[s].task \notin startedTasks'
              /\ call'[s].at = "http" => office'[call'[s].task] # "done"
              /\ \A f \in Frame : frame'[f].from = s /\ frame'[f].at \in {"out", "cut off"} =>
                        office'[call'[s].task] # "done"
    BY DEF NotDone
  <2>4. \A f \in Frame : frame'[f].at = "back" /\ frame'[f].does = "start_task" => office'[frame'[f].task] # "done"
    BY DEF NotDone
  <2> QED BY <2>2, <2>3, <2>4 DEF NotDone
<1>6. Ordinarily /\ frame' = frame => Ordinarily'
  BY <1>3, <1>4, <1>5 DEF Ordinarily
<1> QED BY <1>1, <1>2, <1>3, <1>4, <1>5, <1>6

\* A call that waits for an event, or for the user, ends.
LEMMA WaiterEnds ==
    ASSUME CallsInv, C!Live, NEW s \in Call, call[s].at \in {"parked", "asking"}, C!Finished(s, frame),
           UNCHANGED <<mode, link, wsPending, startedTasks, office, C!history, made, callFaults>>,
           events' \in {0, events},
           \/ eventWaiter' = "none" /\ ("crowded" \notin odd => \A r \in Call : C!Parked(r) => r = s)
           \/ eventWaiter' = eventWaiter /\ call[s].at = "asking"
    PROVE  CallsInv'
<1>0. OthersOK /\ call \in [Call -> CallRec] /\ frame \in [Frame -> FrameRec]
      /\ wsPending \in [CallId -> Call \cup {"none"}]
  BY CallTypes DEF CallsInv, CallShapes
<1>1. Turns(s, C!NoCall, {}, {}) /\ Sends(C!NoCall, {}, {})
  BY <1>0, FrameTook, FinishShape DEF CallsInv
<1>2. C!NoCall.at = "free" /\ C!NoCall.tool = "none" /\ C!NoCall \in CallRec /\ CallFits(C!NoCall)
  BY CallRecords DEF C!NoCall
<1>3. call'[s] = C!NoCall /\ \A r \in Call : r # s => call'[r] = call[r]
  BY <1>0, <1>1 DEF Turns
<1>4. UNCHANGED <<odd, untold, again>>
  BY DEF C!history
<1>5. \A k \in CallId : wsPending'[k] = wsPending[k] /\ wsPending'[k] # s
  BY CallNames DEF CallsInv, CallShapes, WaitersFit
<1>6. OthersOK'
  <2>1. life' \in {life, "over"} /\ eventWaiter' \in {"none", eventWaiter} /\ events' \in 0..EventCap
    BY <1>0, CallBounds DEF C!Finished, OthersOK
  <2> QED BY <1>0, <1>4, <2>1 DEF OthersOK
<1>7. CallShapes'
  BY <1>0, <1>1, <1>2, <1>5, <1>6, ShapesKept DEF CallsInv
<1>8. OneClient'
  BY <1>0, <1>1, <1>2, <1>4, <1>5, OneClientKept DEF CallsInv, OneClient
<1>9. AllKnown'
  <2>1. CallFits(call[s])
    BY DEF CallsInv, CallShapes, CallsFit
  <2>2. \A t \in Task : t \in startedTasks \cup call[s].rest => Known(t)'
    BY <2>1 DEF CallFits, Known
  <2>3. \A t \in Task : t = call[s].task /\ call[s].tool \in {"start_task", "wait_for_events"} => Known(t)'
    BY <2>1, CallNames DEF CallFits, C!Direct
  <2> QED BY <1>1, <1>2, <1>4, <2>2, <2>3, KnownKept DEF CallsInv
<1>10. DoneIsDone'
  BY <1>1, <1>2, DoneKept DEF CallsInv
<1>11. Ordinarily'
  <2> SUFFICES ASSUME Plain'
               PROVE  OneAtATime' /\ NotDone'
    BY DEF Ordinarily
  <2>1. OneAtATime /\ NotDone
    BY <1>4 DEF Plain, CallsInv, Ordinarily
  <2>2. \A r \in Call : r # s => call[r].at = "free"
    BY <2>1 DEF OneAtATime
  <2>3. \A f \in Frame : f \in {} \/ frame[f].at = "none"
    <3> SUFFICES ASSUME NEW f \in Frame, frame[f].at # "none"
                 PROVE  FALSE
      OBVIOUS
    <3>1. frame[f].from \in Call /\ call[frame[f].from].at = "ws"
      BY <1>0, <2>1 DEF OneAtATime, FrameRec
    <3> QED BY <2>2, <3>1
  <2>4. \A t \in startedTasks' : office'[t] # "done"
    BY <2>1, OpenTasks DEF CallsInv
  <2>5. again' = {}
    BY <1>4, <2>1 DEF OneAtATime
  <2> QED BY <1>1, <1>2, <2>2, <2>3, <2>4, <2>5, OrdinaryKept DEF CallsInv
<1>12. OneSlot'
  <2>1. CASE eventWaiter' = "none" /\ ("crowded" \notin odd => \A r \in Call : C!Parked(r) => r = s)
    BY <1>2, <1>3, <1>4, <2>1 DEF OneSlot, C!Parked
  <2>2. CASE eventWaiter' = eventWaiter /\ call[s].at = "asking"
    <3>1. eventWaiter # "none" => eventWaiter \in Call /\ eventWaiter # s /\ call[eventWaiter].at = "parked"
      BY <1>0, <2>2 DEF CallsInv, OneSlot, C!Parked, OthersOK
    <3>2. \A r \in Call : C!Parked(r)' => C!Parked(r)
      BY <1>2, <1>3 DEF C!Parked
    <3> QED BY <1>3, <1>4, <2>2, <3>1, <3>2 DEF CallsInv, OneSlot, C!Parked
  <2> QED BY <2>1, <2>2
<1> QED BY <1>7, <1>8, <1>9, <1>10, <1>11, <1>12 DEF CallsInv

\* An event wakes the waiter, or is queued.
LEMMA EventKeeps ==
    ASSUME CallsInv, C!Event
    PROVE  CallsInv'
<1>0. OthersOK
  BY CallTypes DEF CallsInv, CallShapes
<1>1. CASE eventWaiter = "none"
  <2>1. /\ UNCHANGED <<call, frame, eventWaiter, life, mode, link, wsPending, startedTasks, office,
                       odd, untold, again, made, callFaults>>
        /\ events' \in 0..EventCap
    BY <1>0, <1>1, CallBounds DEF C!Event, C!history, OthersOK
  <2>2. CallShapes'
    BY <1>0, <2>1, CallTypes DEF CallsInv, CallShapes, OthersOK, CallsFit, FramesFit, WaitersFit
  <2>3. OneClient'
    BY <2>1 DEF CallsInv, OneClient
  <2>4. AllKnown'
    BY <2>1 DEF CallsInv, AllKnown, C!Live, Starts, Known
  <2>5. DoneIsDone'
    BY <2>1 DEF CallsInv, DoneIsDone
  <2>6. Ordinarily'
    BY <2>1, CallsStay DEF CallsInv, C!Event
  <2>7. OneSlot'
    BY <1>1, <2>1, CallNames DEF CallsInv, OneSlot, C!Parked
  <2> QED BY <2>2, <2>3, <2>4, <2>5, <2>6, <2>7 DEF CallsInv
<1>2. CASE eventWaiter # "none"
  <2>1. eventWaiter \in Call /\ call[eventWaiter].at = "parked"
    BY <1>0, <1>2 DEF OthersOK, CallsInv, OneSlot, C!Parked
  <2>2. "crowded" \notin odd => \A r \in Call : C!Parked(r) => r = eventWaiter
    BY DEF CallsInv, OneSlot
  <2>3. /\ C!Live /\ C!Finished(eventWaiter, frame) /\ events' = 0 /\ eventWaiter' = "none"
        /\ UNCHANGED <<mode, link, wsPending, startedTasks, office, C!history, made, callFaults>>
    BY <1>2 DEF C!Event
  <2> QED BY <2>1, <2>2, <2>3, WaiterEnds
<1> QED BY <1>1, <1>2

\* The wait ends without an event.
LEMMA WaitTimeoutKeeps ==
    ASSUME CallsInv, NEW s \in Call, C!WaitTimeout(s)
    PROVE  CallsInv'
<1>1. "crowded" \notin odd => \A r \in Call : C!Parked(r) => r = s
  BY DEF C!WaitTimeout, CallsInv, OneSlot
<1> QED BY <1>1, WaiterEnds DEF C!WaitTimeout, C!Parked

\* The human has answered.
LEMMA AskedKeeps ==
    ASSUME CallsInv, NEW s \in Call, C!Asked(s)
    PROVE  CallsInv'
  BY WaiterEnds DEF C!Asked, C!wait

\* What leaves calls and frames alone, and the office.
LEMMA CallsUnmoved ==
    ASSUME CallsInv, C!Live, UNCHANGED <<mode, C!bridge, frame, office, C!wait, C!history, made, callFaults>>,
           link' \in {"up", "down"}, life' \in {"open", "closed", "over"}
    PROVE  CallsInv'
<1>1. UNCHANGED <<call, frame, eventWaiter, events, mode, wsPending, startedTasks, office,
                  odd, untold, again, made, callFaults>>
  BY DEF C!bridge, C!wait, C!history
<1>2. CallShapes'
  BY <1>1, CallTypes DEF CallsInv, CallShapes, OthersOK, CallsFit, FramesFit, WaitersFit
<1>3. OneClient'
  BY <1>1 DEF CallsInv, OneClient
<1>4. AllKnown'
  BY <1>1, CallsStay DEF CallsInv
<1>5. DoneIsDone'
  BY <1>1 DEF CallsInv, DoneIsDone
<1>6. Ordinarily'
  BY <1>1, CallsStay DEF CallsInv
<1>7. OneSlot'
  BY <1>1 DEF CallsInv, OneSlot, C!Parked
<1> QED BY <1>2, <1>3, <1>4, <1>5, <1>6, <1>7 DEF CallsInv

\* The process ends, and everything under way with it.
LEMMA SignalKeeps ==
    ASSUME CallsInv, C!Signal
    PROVE  CallsInv'
<1>0. OthersOK /\ call \in [Call -> CallRec] /\ frame \in [Frame -> FrameRec]
      /\ wsPending \in [CallId -> Call \cup {"none"}]
  BY CallTypes DEF CallsInv, CallShapes
<1>1. /\ call' = [s \in Call |-> C!NoCall] /\ frame' = [f \in Frame |-> C!NoFrame]
      /\ wsPending' = [i \in CallId |-> "none"] /\ startedTasks' = {} /\ events' = 0 /\ eventWaiter' = "none"
      /\ life' = "over" /\ UNCHANGED <<mode, link, office, odd, untold, again, made, callFaults>>
  BY DEF C!Signal, C!history
<1>2. OthersOK'
  BY <1>0, <1>1, CallBounds DEF OthersOK
<1>3. /\ \A s \in Call : call'[s] = C!NoCall
      /\ \A f \in Frame : frame'[f] = C!NoFrame
  BY <1>1
<1>4. call' \in [Call -> CallRec] /\ frame' \in [Frame -> FrameRec] /\ wsPending' \in [CallId -> Call \cup {"none"}]
  BY <1>1, CallRecords
<1>5. CallsFit' /\ FramesFit' /\ WaitersFit'
  <2>1. CallsFit'
    BY <1>3, CallRecords DEF CallsFit
  <2>2. FramesFit'
    <3>1. C!NoFrame.from = "none"
      BY DEF C!NoFrame
    <3> QED BY <1>3, <3>1, CallRecords DEF FramesFit
  <2>3. WaitersFit'
    BY <1>1 DEF WaitersFit
  <2> QED BY <2>1, <2>2, <2>3
<1>6. CallShapes'
  BY <1>2, <1>4, <1>5, CallTypes DEF CallShapes
<1>7. OneClient'
  BY <1>1, <1>3 DEF CallsInv, OneClient, C!NoCall, C!NoFrame
<1>8. AllKnown'
  BY <1>1 DEF AllKnown, C!Live
<1>9. DoneIsDone'
  BY <1>3 DEF DoneIsDone, C!NoFrame
<1>10. Ordinarily'
  <2>1. Plain' => again' = {}
    BY <1>1 DEF CallsInv, Ordinarily, Plain, OneAtATime
  <2>2. \A s \in Call : call'[s].at = "free" /\ call'[s].tool = "none"
    BY <1>3 DEF C!NoCall
  <2>3. \A f \in Frame : frame'[f].at = "none"
    BY <1>3 DEF C!NoFrame
  <2>4. again' = {} => OneAtATime'
    BY <2>2, <2>3 DEF OneAtATime
  <2>5. NotDone'
    BY <1>1, <2>2, <2>3 DEF NotDone
  <2> QED BY <2>1, <2>4, <2>5 DEF Ordinarily
<1>11. OneSlot'
  BY <1>1, <1>3 DEF OneSlot, C!Parked, C!NoCall
<1> QED BY <1>6, <1>7, <1>8, <1>9, <1>10, <1>11 DEF CallsInv

\* The link goes down: frames on their way are cut off, replies are lost.
LEMMA LinkDownKeeps ==
    ASSUME CallsInv, C!LinkDown
    PROVE  CallsInv'
<1>0. OthersOK /\ call \in [Call -> CallRec] /\ frame \in [Frame -> FrameRec]
      /\ wsPending \in [CallId -> Call \cup {"none"}]
  BY CallTypes DEF CallsInv, CallShapes
<1>1. /\ C!Live /\ link' = "down" /\ callFaults < CallFaults /\ callFaults' = callFaults + 1
      /\ UNCHANGED <<call, eventWaiter, events, mode, wsPending, startedTasks, office, life,
                  odd, untold, again, made>>
  BY DEF C!LinkDown, C!bridge, C!wait, C!history
<1>2. \A f \in Frame :
          \/ frame'[f] = C!NoFrame
          \/ frame[f].at = "out" /\ frame'[f] = [frame[f] EXCEPT !.at = "cut off"]
  BY DEF C!LinkDown
<1>3. \A f \in Frame : frame[f] \in FrameRec
  BY <1>0
<1>4. frame' \in [Frame -> FrameRec]
  <2>1. \A f \in Frame : [frame[f] EXCEPT !.at = "cut off"] \in FrameRec
    BY <1>3 DEF FrameRec
  <2>2. frame' = [f \in Frame |-> frame'[f]]
    BY DEF C!LinkDown
  <2>3. C!NoFrame \in FrameRec
    BY CallRecords
  <2>4. \A f \in Frame : frame'[f] \in FrameRec
    BY <1>2, <2>1, <2>3
  <2> QED BY <2>2, <2>4
<1>5. \A f \in Frame :
         \/ /\ frame'[f].at = "none" /\ frame'[f] = C!NoFrame /\ frame'[f].from = "none" /\ frame'[f].key = 0
         \/ /\ frame[f].at = "out" /\ frame'[f].at = "cut off"
            /\ frame'[f].key = frame[f].key /\ frame'[f].from = frame[f].from
            /\ frame'[f].client = frame[f].client /\ frame'[f].does = frame[f].does
            /\ frame'[f].task = frame[f].task
  <2> SUFFICES ASSUME NEW f \in Frame
               PROVE
         \/ /\ frame'[f].at = "none" /\ frame'[f] = C!NoFrame /\ frame'[f].from = "none" /\ frame'[f].key = 0
         \/ /\ frame[f].at = "out" /\ frame'[f].at = "cut off"
            /\ frame'[f].key = frame[f].key /\ frame'[f].from = frame[f].from
            /\ frame'[f].client = frame[f].client /\ frame'[f].does = frame[f].does
            /\ frame'[f].task = frame[f].task
    OBVIOUS
  <2>1. CASE frame'[f] = C!NoFrame
    BY <2>1 DEF C!NoFrame
  <2>2. CASE frame[f].at = "out" /\ frame'[f] = [frame[f] EXCEPT !.at = "cut off"]
    BY <1>3, <2>2 DEF FrameRec
  <2> QED BY <1>2, <2>1, <2>2
<1>6. OthersOK'
  BY <1>0, <1>1, CallBounds DEF OthersOK
<1>7. CallShapes'
  <2>1. CallsFit' /\ WaitersFit'
    BY <1>1 DEF CallsInv, CallShapes, CallsFit, WaitersFit
  <2>2. FramesFit'
    <3> SUFFICES ASSUME NEW f \in Frame
                 PROVE  FrameFits(frame'[f]) /\ (frame'[f].from # "none" => Owns(call'[frame'[f].from], frame'[f]))
      BY DEF FramesFit
    <3>1. CASE frame'[f] = C!NoFrame /\ frame'[f].from = "none"
      BY <3>1, CallRecords
    <3>2. CASE frame[f].at = "out" /\ frame'[f].at = "cut off"
      <4>1. /\ frame'[f].key = frame[f].key /\ frame'[f].from = frame[f].from
            /\ frame'[f].client = frame[f].client /\ frame'[f].does = frame[f].does
            /\ frame'[f].task = frame[f].task
        BY <1>5, <3>2
      <4>2. FrameFits(frame[f]) /\ (frame[f].from # "none" => Owns(call[frame[f].from], frame[f]))
        BY DEF CallsInv, CallShapes, FramesFit
      <4>3. FrameFits(frame'[f])
        BY <3>2, <4>1, <4>2 DEF FrameFits
      <4> QED BY <1>1, <4>1, <4>2, <4>3 DEF Owns
    <3> QED BY <1>5, <3>1, <3>2
  <2> QED BY <1>0, <1>1, <1>4, <1>6, <2>1, <2>2, CallTypes DEF CallShapes
<1>8. OneClient'
  BY <1>1, <1>5 DEF CallsInv, OneClient
<1>9. AllKnown'
  <2>1. \A t \in Task : Known(t) <=> Known(t)'
    BY <1>1, CallsStay
  <2>2. \A f \in Frame, t \in Task : Starts(f, t)' => Starts(f, t)
    BY <1>5 DEF Starts
  <2> QED BY <1>1, <2>1, <2>2 DEF CallsInv, AllKnown
<1>10. DoneIsDone'
  BY <1>5 DEF DoneIsDone
<1>11. Ordinarily'
  <2> SUFFICES ASSUME Plain'
               PROVE  OneAtATime' /\ NotDone'
    BY DEF Ordinarily
  <2>1. OneAtATime /\ NotDone
    BY <1>1 DEF Plain, CallsInv, Ordinarily
  <2>2. OneAtATime'
    <3>1. /\ again' = {}
          /\ \A s, r \in Call : call'[s].at # "free" /\ call'[r].at # "free" => s = r
      BY <1>1, <2>1 DEF OneAtATime
    <3>2. \A f \in Frame : frame'[f].at # "none" => frame[f].at # "none" /\ frame'[f].from = frame[f].from
      BY <1>5
    <3>3. /\ \A f \in Frame : frame[f].at # "none" => frame[f].from # "none" /\ call[frame[f].from].at = "ws"
          /\ \A f, g \in Frame : frame[f].at # "none" /\ frame[g].at # "none" => f = g
      BY <2>1 DEF OneAtATime
    <3>4. \A f \in Frame : frame'[f].at # "none" => frame'[f].from # "none" /\ call'[frame'[f].from].at = "ws"
      BY <1>1, <3>2, <3>3
    <3>5. \A f, g \in Frame : frame'[f].at # "none" /\ frame'[g].at # "none" => f = g
      BY <3>2, <3>3
    <3> QED BY <3>1, <3>4, <3>5 DEF OneAtATime
  <2>3. NotDone'
    <3>1. \A t \in startedTasks' : office'[t] = "done" => Completes(t)'
      BY <1>1, <2>1 DEF NotDone, Completes
    <3>2. ASSUME NEW s \in Call, call'[s].tool = "wait_for_events"
          PROVE  /\ call'[s].rest \subseteq startedTasks' /\ call'[s].task \notin startedTasks'
                 /\ call'[s].at = "http" => office'[call'[s].task] # "done"
                 /\ \A f \in Frame : frame'[f].from = s /\ frame'[f].at \in {"out", "cut off"} =>
                        office'[call'[s].task] # "done"
      <4>1. /\ call[s].rest \subseteq startedTasks /\ call[s].task \notin startedTasks
            /\ call[s].at = "http" => office[call[s].task] # "done"
            /\ \A f \in Frame : frame[f].from = s /\ frame[f].at \in {"out", "cut off"} =>
                        office[call[s].task] # "done"
        BY <1>1, <2>1, <3>2 DEF NotDone
      <4>2. \A f \in Frame : frame'[f].from = s /\ frame'[f].at \in {"out", "cut off"} =>
                frame[f].from = s /\ frame[f].at = "out"
        BY <1>5
      <4> QED BY <1>1, <4>1, <4>2
    <3>3. \A f \in Frame : frame'[f].at # "back"
      BY <1>5
    <3> QED BY <3>1, <3>2, <3>3 DEF NotDone
  <2> QED BY <2>2, <2>3
<1>12. OneSlot'
  BY <1>1 DEF CallsInv, OneSlot, C!Parked
<1> QED BY <1>7, <1>8, <1>9, <1>10, <1>11, <1>12 DEF CallsInv

\* A call at the socket is to go over HTTP.
LEMMA GoesHttp ==
    ASSUME CallsInv, C!Live, NEW s \in Call, call[s].at \in {"ws", "http"},
           call' = [call EXCEPT ![s].at = "http"], frame' \in [Frame -> FrameRec],
           \A f \in Frame : \/ frame'[f] = frame[f] \/ frame'[f] = C!NoFrame
                            \/ frame[f].key = 0 /\ frame'[f] = [frame[f] EXCEPT !.from = "none"],
           wsPending' \in [CallId -> Call \cup {"none"}],
           \A k \in CallId : wsPending'[k] \in {"none", wsPending[k]} /\ wsPending'[k] # s,
           odd \subseteq odd', odd' \subseteq {"retried", "parallel", "mixed", "crowded", "unheard"},
           "retried" \in odd', mode = "stdio" => "mixed" \notin odd',
           UNCHANGED <<mode, link, startedTasks, office, C!wait, life, untold, again, made, callFaults>>
    PROVE  CallsInv'
<1>0. OthersOK /\ call \in [Call -> CallRec] /\ frame \in [Frame -> FrameRec]
      /\ wsPending \in [CallId -> Call \cup {"none"}]
  BY CallTypes DEF CallsInv, CallShapes
<1> DEFINE d == [call[s] EXCEPT !.at = "http"]
<1>1. call' = [call EXCEPT ![s] = d]
  BY <1>0
<1>2. /\ call'[s] = d /\ \A r \in Call : r # s => call'[r] = call[r]
  BY <1>0, <1>1
<1>3. call[s] \in CallRec
  BY <1>0
<1>4. /\ d \in CallRec /\ d.at = "http" /\ d.client = call[s].client /\ d.id = call[s].id
      /\ d.tool = call[s].tool /\ d.task = call[s].task /\ d.rest = call[s].rest
  BY <1>3 DEF CallRec
<1>5. OthersOK'
  BY <1>0 DEF OthersOK, C!wait
<1>6. CallsFit'
  <2>1. CallFits(call[s])
    BY DEF CallsInv, CallShapes, CallsFit
  <2>2. CallFits(d)
    BY <1>4, <2>1 DEF CallFits
  <2> QED BY <1>2, <2>2 DEF CallsInv, CallShapes, CallsFit
<1>7. \A f \in Frame :
         \/ frame'[f] = C!NoFrame /\ frame'[f].at = "none" /\ frame'[f].from = "none" /\ frame'[f].key = 0
         \/ /\ frame'[f].at = frame[f].at /\ frame'[f].key = frame[f].key
            /\ frame'[f].client = frame[f].client /\ frame'[f].does = frame[f].does
            /\ frame'[f].task = frame[f].task
            /\ frame'[f].from = frame[f].from \/ (frame[f].key = 0 /\ frame'[f].from = "none")
            /\ frame[f].at = "none" => frame'[f] = C!NoFrame
  <2> SUFFICES ASSUME NEW f \in Frame
               PROVE
         \/ frame'[f] = C!NoFrame /\ frame'[f].at = "none" /\ frame'[f].from = "none" /\ frame'[f].key = 0
         \/ /\ frame'[f].at = frame[f].at /\ frame'[f].key = frame[f].key
            /\ frame'[f].client = frame[f].client /\ frame'[f].does = frame[f].does
            /\ frame'[f].task = frame[f].task
            /\ frame'[f].from = frame[f].from \/ (frame[f].key = 0 /\ frame'[f].from = "none")
            /\ frame[f].at = "none" => frame'[f] = C!NoFrame
    OBVIOUS
  <2>0. frame[f] \in FrameRec /\ (frame[f].at = "none" => frame[f] = C!NoFrame)
    BY <1>0 DEF CallsInv, CallShapes, FramesFit, FrameFits
  <2>1. CASE frame'[f] = C!NoFrame
    BY <2>1 DEF C!NoFrame
  <2>2. CASE frame'[f] = frame[f]
    BY <2>0, <2>2
  <2>3. CASE frame[f].key = 0 /\ frame'[f] = [frame[f] EXCEPT !.from = "none"]
    <3>1. frame[f].at = "none" => frame'[f] = C!NoFrame
      BY <2>0, <2>3 DEF C!NoFrame
    <3> QED BY <2>0, <2>3, <3>1 DEF FrameRec
  <2> QED BY <2>1, <2>2, <2>3
<1>8. FramesFit'
  <2> SUFFICES ASSUME NEW f \in Frame
               PROVE  FrameFits(frame'[f]) /\ (frame'[f].from # "none" => Owns(call'[frame'[f].from], frame'[f]))
    BY DEF FramesFit
  <2>1. CASE frame'[f] = C!NoFrame
    BY <2>1, CallRecords DEF C!NoFrame
  <2>2. CASE frame'[f] # C!NoFrame
    <3>1. /\ frame'[f].at = frame[f].at /\ frame'[f].key = frame[f].key
          /\ frame'[f].client = frame[f].client /\ frame'[f].does = frame[f].does
          /\ frame'[f].task = frame[f].task /\ frame[f].at # "none"
          /\ frame'[f].from = frame[f].from \/ frame'[f].from = "none"
      BY <1>7, <2>2
    <3>2. FrameFits(frame[f]) /\ (frame[f].from # "none" => Owns(call[frame[f].from], frame[f]))
      BY DEF CallsInv, CallShapes, FramesFit
    <3>3. FrameFits(frame'[f])
      BY <3>1, <3>2 DEF FrameFits
    <3>4. ASSUME frame'[f].from # "none"
          PROVE  Owns(call'[frame'[f].from], frame'[f])
      <4>1. frame'[f].from = frame[f].from /\ frame[f].from \in Call /\ Owns(call[frame[f].from], frame[f])
        BY <1>0, <3>1, <3>2, <3>4 DEF FrameRec
      <4>2. CASE frame[f].from = s
        BY <1>2, <1>4, <3>1, <4>1, <4>2 DEF Owns, C!Key, C!Own, C!Does
      <4>3. CASE frame[f].from # s
        BY <1>2, <3>1, <4>1, <4>3 DEF Owns
      <4> QED BY <4>2, <4>3
    <3> QED BY <3>3, <3>4
  <2> QED BY <2>1, <2>2
<1>9. WaitersFit'
  <2> SUFFICES ASSUME NEW k \in CallId, wsPending'[k] # "none"
               PROVE  LET c == call'[wsPending'[k]] IN c.at = "ws" /\ c.tool \in C!Direct /\ c.id = k
    BY DEF WaitersFit
  <2>1. wsPending'[k] = wsPending[k] /\ wsPending[k] \in Call /\ wsPending[k] # s
    BY <1>0
  <2>2. call'[wsPending[k]] = call[wsPending[k]]
    BY <1>2, <2>1
  <2> QED BY <2>1, <2>2 DEF CallsInv, CallShapes, WaitersFit
<1>10. CallShapes'
  <2>1. call' \in [Call -> CallRec]
    BY <1>0, <1>1, <1>4
  <2> QED BY <1>5, <1>6, <1>8, <1>9, <2>1, CallTypes DEF CallShapes
<1>11. OneClient'
  <2> SUFFICES ASSUME mode = "stdio"
               PROVE  /\ \A r \in Call : call'[r].at # "free" => call'[r].client = C!First
                      /\ \A f \in Frame :
                          /\ frame'[f].at # "none" => frame'[f].client = C!First
                          /\ frame'[f].key # 0 /\ wsPending'[frame'[f].key] # "none" =>
                                  frame'[f].from = wsPending'[frame'[f].key]
    BY DEF OneClient
  <2>1. \A r \in Call : call'[r].at # "free" => call'[r].client = C!First
    BY <1>2, <1>4 DEF CallsInv, OneClient
  <2>2. ASSUME NEW f \in Frame
        PROVE  /\ frame'[f].at # "none" => frame'[f].client = C!First
               /\ frame'[f].key # 0 /\ wsPending'[frame'[f].key] # "none" =>
                      frame'[f].from = wsPending'[frame'[f].key]
    <3>1. frame[f].key \in CallId \cup {0}
      BY <1>0 DEF FrameRec
    <3> QED BY <1>7, <3>1 DEF CallsInv, OneClient
  <2> QED BY <2>1, <2>2
<1>12. AllKnown'
  <2>1. \A r \in Call : call'[r].tool = call[r].tool /\ call'[r].task = call[r].task /\ call'[r].rest = call[r].rest
    BY <1>2, <1>4
  <2>2. \A t \in Task : Known(t) => Known(t)'
    BY <2>1 DEF Known
  <2>3. \A f \in Frame, t \in Task : Starts(f, t)' => Starts(f, t)
    BY <1>7 DEF Starts
  <2> QED BY <2>2, <2>3 DEF CallsInv, AllKnown
<1>13. DoneIsDone'
  BY <1>7 DEF CallsInv, DoneIsDone
<1>14. Ordinarily'
  BY DEF Ordinarily, Plain
<1>15. OneSlot'
  <2>1. \A r \in Call : C!Parked(r)' <=> C!Parked(r)
    BY <1>2, <1>4 DEF C!Parked
  <2>2. eventWaiter' = eventWaiter /\ events' = events /\ eventWaiter \in Call \cup {"none"}
    BY <1>0 DEF C!wait, OthersOK
  <2>3. eventWaiter # "none" => C!Parked(eventWaiter)'
    BY <2>1, <2>2 DEF CallsInv, OneSlot
  <2> QED BY <2>1, <2>2, <2>3 DEF CallsInv, OneSlot
<1> QED BY <1>10, <1>11, <1>12, <1>13, <1>14, <1>15 DEF CallsInv

\* A request times out on the socket and is sent again over HTTP.
LEMMA WsTimeoutKeeps ==
    ASSUME CallsInv, NEW s \in Call, C!WsTimeout(s)
    PROVE  CallsInv'
<1>0. OthersOK /\ call \in [Call -> CallRec] /\ frame \in [Frame -> FrameRec]
      /\ wsPending \in [CallId -> Call \cup {"none"}]
  BY CallTypes DEF CallsInv, CallShapes
<1> DEFINE k0 == C!Key(call[s])
<1>1. /\ C!Live /\ call[s].at = "ws" /\ call' = [call EXCEPT ![s].at = "http"]
      /\ wsPending' = IF k0 = 0 THEN wsPending ELSE [wsPending EXCEPT ![k0] = "none"]
      /\ frame' = IF C!Own(call[s]) THEN C!Disowned(s, frame) ELSE frame
      /\ odd' = odd \cup {"retried"}
      /\ UNCHANGED <<mode, link, startedTasks, office, C!wait, life, untold, again, made, callFaults>>
  BY DEF C!WsTimeout
<1>2. CallFits(call[s]) /\ call[s] \in CallRec
  BY <1>0 DEF CallsInv, CallShapes, CallsFit
<1>3. \A k \in CallId : wsPending'[k] \in {"none", wsPending[k]} /\ wsPending'[k] # s
  <2> SUFFICES ASSUME NEW k \in CallId
               PROVE  wsPending'[k] \in {"none", wsPending[k]} /\ wsPending'[k] # s
    OBVIOUS
  <2>1. wsPending[k] = s => call[s].tool \in C!Direct /\ call[s].id = k
    BY CallNames DEF CallsInv, CallShapes, WaitersFit
  <2>2. k # 0
    BY CallBounds
  <2>3. call[s].tool \in C!Direct => k0 = call[s].id
    BY DEF C!Key, C!Own
  <2> QED BY <1>0, <1>1, <2>1, <2>2, <2>3, CallNames
<1>4. wsPending' \in [CallId -> Call \cup {"none"}]
  BY <1>0, <1>1
<1>5. \A f \in Frame : \/ frame'[f] = frame[f]
                       \/ frame[f].key = 0 /\ frame'[f] = [frame[f] EXCEPT !.from = "none"]
  <2> SUFFICES ASSUME NEW f \in Frame, frame'[f] # frame[f]
               PROVE  frame[f].key = 0 /\ frame'[f] = [frame[f] EXCEPT !.from = "none"]
    OBVIOUS
  <2>1. C!Own(call[s]) /\ frame[f].from = s /\ frame'[f] = [frame[f] EXCEPT !.from = "none"]
    BY <1>1 DEF C!Disowned
  <2>2. Owns(call[s], frame[f])
    BY <2>1, CallNames DEF CallsInv, CallShapes, FramesFit
  <2> QED BY <2>1, <2>2 DEF Owns, C!Key
<1>6. frame' \in [Frame -> FrameRec]
  <2>1. C!Disowned(s, frame) \in [Frame -> FrameRec]
    BY <1>0, CallRecords DEF C!Disowned
  <2> QED BY <1>0, <1>1, <2>1
<1>7. /\ odd \subseteq odd' /\ odd' \subseteq {"retried", "parallel", "mixed", "crowded", "unheard"}
      /\ "retried" \in odd' /\ mode = "stdio" => "mixed" \notin odd'
  BY <1>0, <1>1 DEF OthersOK, CallsInv, OneClient
<1> QED BY <1>1, <1>3, <1>4, <1>5, <1>6, <1>7, GoesHttp

\* An error sends the call that waits over HTTP.
LEMMA ErrorComes ==
    ASSUME CallsInv, NEW f \in Frame, C!Response(f), C!Waits(f) # "none", frame[f].at # "back"
    PROVE  CallsInv'
<1> DEFINE r == frame[f]
<1> DEFINE s == C!Waits(f)
<1> DEFINE o == IF s # r.from THEN odd \cup {"mixed"} ELSE odd
<1>0. OthersOK /\ call \in [Call -> CallRec] /\ frame \in [Frame -> FrameRec]
      /\ wsPending \in [CallId -> Call \cup {"none"}]
  BY CallTypes DEF CallsInv, CallShapes
<1>1. /\ C!Live
      /\ wsPending' = IF r.key = 0 THEN wsPending ELSE [wsPending EXCEPT ![r.key] = "none"]
      /\ call' = [call EXCEPT ![s].at = "http"]
      /\ frame' = [frame EXCEPT ![f] = C!NoFrame]
      /\ odd' = o \cup {"retried"}
      /\ UNCHANGED <<startedTasks, C!wait, life>>
      /\ UNCHANGED <<mode, link, office, untold, again, made, callFaults>>
  BY DEF C!Response
<1>3. r \in FrameRec /\ r.key \in CallId \cup {0} /\ r.from \in Call \cup {"none"}
  BY <1>0 DEF FrameRec
<1>4. s \in Call
  BY <1>0, <1>3 DEF C!Waits
<1>5. /\ call[s].at \in {"ws", "http"}
      /\ r.key # 0 => call[s].tool \in C!Direct /\ call[s].id = r.key
      /\ r.key = 0 => r.from = s /\ call[s].tool \notin C!Direct
  BY <1>4, WaitsFor DEF CallsInv
<1>6. mode = "stdio" => "mixed" \notin odd'
  <2>1. ASSUME mode = "stdio" PROVE s = r.from
    BY <1>3, <1>4, <2>1, CallNames DEF CallsInv, OneClient, C!Waits
  <2> QED BY <1>1, <2>1 DEF CallsInv, OneClient
<1>7. \A k \in CallId : wsPending'[k] \in {"none", wsPending[k]} /\ wsPending'[k] # s
  BY <1>1, <1>4, <1>5, TakenOut DEF CallsInv
<1>8. wsPending' \in [CallId -> Call \cup {"none"}]
  BY <1>0, <1>1
<1>9. \A g \in Frame : frame'[g] = frame[g] \/ frame'[g] = C!NoFrame
  BY <1>0, <1>1
<1>10. frame' \in [Frame -> FrameRec]
  BY <1>0, <1>1, CallRecords
<1>11. odd \subseteq odd' /\ odd' \subseteq {"retried", "parallel", "mixed", "crowded", "unheard"}
       /\ "retried" \in odd'
  BY <1>0, <1>1 DEF OthersOK
<1> QED BY <1>1, <1>4, <1>5, <1>6, <1>7, <1>8, <1>9, <1>10, <1>11, GoesHttp

\* A frame is run or taken in, and no call moves.
LEMMA FrameMoves ==
    ASSUME CallsInv, C!Live, NEW f \in Frame, frame[f].at # "none",
           NEW x \in {C!NoFrame, [frame[f] EXCEPT !.at = "back"], [frame[f] EXCEPT !.at = "error"]},
           frame' = [frame EXCEPT ![f] = x],
           UNCHANGED <<mode, link, call, wsPending, startedTasks, events, eventWaiter, life, odd, untold, made>>,
           office' \in [Task -> {"pending", "in-progress", "done"}],
           again' \subseteq Task, callFaults' \in 0..CallFaults,
           \A t \in Task : office[t] = "done" => office'[t] = "done",
           \A t \in Task : office'[t] = "in-progress" => office[t] = "in-progress" \/ Starts(f, t),
           \A t \in Task : office'[t] = "done" =>
              office[t] = "done" \/ (frame[f].does = "complete_task" /\ frame[f].task = t),
           x.at = "back" /\ frame[f].does = "complete_task" => office'[frame[f].task] = "done",
           x.at = "back" /\ frame[f].does = "start_task" => office'[frame[f].task] # "done",
           OneAtATime /\ NotDone => again' = {}
    PROVE  CallsInv'
<1>0. OthersOK /\ call \in [Call -> CallRec] /\ frame \in [Frame -> FrameRec]
      /\ wsPending \in [CallId -> Call \cup {"none"}]
  BY CallTypes DEF CallsInv, CallShapes
<1>1. frame'[f] = x /\ \A g \in Frame : g # f => frame'[g] = frame[g]
  BY <1>0
<1>2. frame[f] \in FrameRec
  BY <1>0
<1>3. /\ x \in FrameRec
      /\ \/ x = C!NoFrame /\ x.at = "none" /\ x.key = 0 /\ x.from = "none"
         \/ /\ x.at \in {"back", "error"} /\ x.key = frame[f].key /\ x.client = frame[f].client
            /\ x.from = frame[f].from /\ x.does = frame[f].does /\ x.task = frame[f].task
  <2>1. CASE x = C!NoFrame
    BY <2>1, CallRecords DEF C!NoFrame
  <2>2. CASE x = [frame[f] EXCEPT !.at = "back"]
    BY <1>2, <2>2 DEF FrameRec
  <2>3. CASE x = [frame[f] EXCEPT !.at = "error"]
    BY <1>2, <2>3 DEF FrameRec
  <2> QED BY <2>1, <2>2, <2>3
<1>4. CallShapes'
  <2>1. OthersOK'
    BY <1>0 DEF OthersOK
  <2>2. CallsFit' /\ WaitersFit'
    BY DEF CallsInv, CallShapes, CallsFit, WaitersFit
  <2>3. FramesFit'
    <3> SUFFICES ASSUME NEW g \in Frame
                 PROVE  FrameFits(frame'[g]) /\ (frame'[g].from # "none" => Owns(call[frame'[g].from], frame'[g]))
      BY DEF FramesFit
    <3>1. CASE g # f
      BY <1>1, <3>1 DEF CallsInv, CallShapes, FramesFit
    <3>2. CASE g = f
      <4>1. FrameFits(frame[f]) /\ (frame[f].from # "none" => Owns(call[frame[f].from], frame[f]))
        BY DEF CallsInv, CallShapes, FramesFit
      <4>2. FrameFits(x)
        BY <1>3, <4>1, CallRecords DEF FrameFits
      <4>3. x.from # "none" => Owns(call[x.from], x)
        BY <1>3, <4>1 DEF Owns
      <4> QED BY <1>1, <3>2, <4>2, <4>3
    <3> QED BY <3>1, <3>2
  <2>4. frame' \in [Frame -> FrameRec]
    BY <1>0, <1>3
  <2> QED BY <1>0, <2>1, <2>2, <2>3, <2>4, CallTypes DEF CallShapes
<1>5. OneClient'
  <2> SUFFICES ASSUME mode = "stdio"
               PROVE  \A g \in Frame :
                          /\ frame'[g].at # "none" => frame'[g].client = C!First
                          /\ frame'[g].key # 0 /\ wsPending[frame'[g].key] # "none" =>
                                  frame'[g].from = wsPending[frame'[g].key]
    BY DEF CallsInv, OneClient
  <2>1. \A g \in Frame : g # f => /\ frame'[g].at # "none" => frame'[g].client = C!First
                                  /\ frame'[g].key # 0 /\ wsPending[frame'[g].key] # "none" =>
                                          frame'[g].from = wsPending[frame'[g].key]
    BY <1>1 DEF CallsInv, OneClient
  <2>2. /\ x.at # "none" => x.client = C!First
        /\ x.key # 0 /\ wsPending[x.key] # "none" => x.from = wsPending[x.key]
    BY <1>3 DEF CallsInv, OneClient
  <2> QED BY <1>1, <2>1, <2>2
<1>6. AllKnown'
  <2>1. \A t \in Task : Known(t) => Known(t)'
    BY DEF Known
  <2>2. \A g \in Frame, t \in Task : Starts(g, t)' => Starts(g, t)
    BY <1>1, <1>3 DEF Starts
  <2> QED BY <2>1, <2>2 DEF CallsInv, AllKnown
<1>7. DoneIsDone'
  <2> SUFFICES ASSUME NEW g \in Frame, frame'[g].at = "back", frame'[g].does = "complete_task"
               PROVE  office'[frame'[g].task] = "done"
    BY DEF DoneIsDone
  <2>1. CASE g = f
    BY <1>1, <1>3, <2>1
  <2>2. CASE g # f
    <3>1. frame'[g] = frame[g] /\ frame[g].task \in Task
      BY <1>1, <2>2 DEF CallsInv, CallShapes, FramesFit, FrameFits
    <3> QED BY <3>1 DEF CallsInv, DoneIsDone
  <2> QED BY <2>1, <2>2
<1>8. Ordinarily'
  <2> SUFFICES ASSUME Plain'
               PROVE  OneAtATime' /\ NotDone'
    BY DEF Ordinarily
  <2>1. OneAtATime /\ NotDone
    BY DEF Plain, CallsInv, Ordinarily
  <2>2. \A g \in Frame : frame'[g].at # "none" => g = f
    BY <1>1, <2>1 DEF OneAtATime
  <2>3. frame[f].from \in Call /\ call[frame[f].from].at = "ws" /\ Owns(call[frame[f].from], frame[f])
    BY <1>0, <2>1 DEF OneAtATime, FrameRec, CallsInv, CallShapes, FramesFit
  <2>4. \A r \in Call : call[r].at # "free" => r = frame[f].from
    BY <2>1, <2>3 DEF OneAtATime
  <2>5. OneAtATime'
    <3>1. \A g \in Frame : frame'[g].at # "none" => frame'[g].from = frame[f].from
      BY <1>1, <1>3, <2>2
    <3>2. \A r, q \in Call : call[r].at # "free" /\ call[q].at # "free" => r = q
      BY <2>4
    <3> QED BY <2>1, <2>2, <2>3, <3>1, <3>2, CallNames DEF OneAtATime
  <2>6. \A t \in startedTasks : office'[t] = "done" => Completes(t)
    <3> SUFFICES ASSUME NEW t \in startedTasks, office'[t] = "done"
                 PROVE  Completes(t)
      OBVIOUS
    <3>0. t \in Task
      BY <1>0 DEF OthersOK
    <3>1. CASE office[t] = "done"
      BY <2>1, <3>1 DEF NotDone
    <3>2. CASE frame[f].does = "complete_task" /\ frame[f].task = t
      <4>1. call[frame[f].from].task = t /\ call[frame[f].from].tool \in {"complete_task", "wait_for_events"}
        BY <2>3, <3>2 DEF Owns, C!Does
      <4>2. call[frame[f].from].tool # "wait_for_events"
        BY <2>1, <2>3, <4>1 DEF NotDone
      <4> QED BY <2>3, <4>1, <4>2 DEF Completes
    <3> QED BY <3>0, <3>1, <3>2
  <2>7. ASSUME NEW s \in Call, call[s].tool = "wait_for_events"
        PROVE  /\ call[s].rest \subseteq startedTasks /\ call[s].task \notin startedTasks
               /\ call[s].at # "http"
               /\ \A g \in Frame : ~(frame'[g].from = s /\ frame'[g].at \in {"out", "cut off"})
    <3>1. call[s].at # "http"
      <4>1. call[s].at # "free" => s = frame[f].from
        BY <2>4
      <4> QED BY <2>3, <4>1
    <3>2. \A g \in Frame : frame'[g].at \notin {"out", "cut off"}
      BY <1>1, <1>3, <2>2
    <3> QED BY <2>1, <2>7, <3>1, <3>2 DEF NotDone
  <2>8. \A g \in Frame : frame'[g].at = "back" /\ frame'[g].does = "start_task" => office'[frame'[g].task] # "done"
    BY <1>1, <1>3, <2>2
  <2>9. NotDone'
    <3>1. \A t \in startedTasks' : office'[t] = "done" => Completes(t)'
      BY <2>6 DEF Completes
    <3> QED BY <2>7, <2>8, <3>1 DEF NotDone
  <2> QED BY <2>5, <2>9
<1>9. OneSlot'
  BY DEF CallsInv, OneSlot, C!Parked
<1> QED BY <1>4, <1>5, <1>6, <1>7, <1>8, <1>9 DEF CallsInv

\* The office handles a frame.
LEMMA OfficeRunsKeeps ==
    ASSUME CallsInv, NEW f \in Frame, C!OfficeRuns(f)
    PROVE  CallsInv'
<1> DEFINE r == frame[f]
<1> DEFINE to(y) == [frame EXCEPT ![f] = IF r.at = "out" THEN [r EXCEPT !.at = y] ELSE C!NoFrame]
<1>0. OthersOK /\ call \in [Call -> CallRec] /\ frame \in [Frame -> FrameRec]
  BY CallTypes DEF CallsInv, CallShapes
<1>1. /\ C!Live /\ r.at \in {"out", "cut off"}
      /\ UNCHANGED <<mode, link, call, wsPending, startedTasks, events, eventWaiter, life, odd, untold, made>>
  BY DEF C!OfficeRuns, C!bridge, C!wait
<1>2. r \in FrameRec /\ r.does \in {"start_task", "complete_task", "ask_user"}
      /\ (r.does # "ask_user" => r.task \in Task)
  BY <1>0, <1>1 DEF CallsInv, CallShapes, FramesFit, FrameFits
<1>3. CASE /\ C!Run(r.does, r.task, r.key = 0)
           /\ frame' = to(IF C!Refused(r.does, r.task) THEN "error" ELSE "back")
           /\ UNCHANGED callFaults
  <2> DEFINE y == IF C!Refused(r.does, r.task) THEN "error" ELSE "back"
  <2> DEFINE x == IF r.at = "out" THEN [r EXCEPT !.at = y] ELSE C!NoFrame
  <2>1. frame' = [frame EXCEPT ![f] = x]
    BY <1>3
  <2>2. x \in {C!NoFrame, [r EXCEPT !.at = "back"], [r EXCEPT !.at = "error"]}
    OBVIOUS
  <2>3. x.at = "back" => ~C!Refused(r.does, r.task)
    BY <1>2 DEF C!NoFrame, FrameRec
  <2>4. /\ office' \in [Task -> {"pending", "in-progress", "done"}]
        /\ \A t \in Task : office[t] = "done" => office'[t] = "done"
        /\ \A t \in Task : office'[t] = "in-progress" =>
               office[t] = "in-progress" \/ (t = r.task /\ r.does = "start_task")
        /\ r.does = "complete_task" => office'[r.task] = "done"
        /\ r.does = "start_task" /\ ~C!Refused(r.does, r.task) => office'[r.task] = "in-progress"
        /\ \A t \in Task : office'[t] = "done" => office[t] = "done" \/ (t = r.task /\ r.does = "complete_task")
        /\ again' \subseteq again \cup {r.task} /\ (r.does = "ask_user" => again' = again)
        /\ again' = again \/ (r.key = 0 /\ r.does = "complete_task" /\ office[r.task] = "done")
    <3>1. C!Run(r.does, r.task, r.key = 0) /\ (r.does \in {"start_task", "complete_task"} => r.task \in Task)
      BY <1>2, <1>3
    <3> DEFINE own == r.key = 0
    <3>2. own => r.key = 0
      OBVIOUS
    <3> HIDE DEF r, own
    <3>3. OthersOK /\ C!Run(r.does, r.task, own)
      BY <1>0, <3>1 DEF own
    <3>4. /\ office' \in [Task -> {"pending", "in-progress", "done"}]
          /\ \A x0 \in Task : office[x0] = "done" => office'[x0] = "done"
          /\ \A x0 \in Task : office'[x0] = "in-progress" =>
                 office[x0] = "in-progress" \/ (x0 = r.task /\ r.does = "start_task" /\ ~C!Refused(r.does, r.task))
          /\ r.does = "complete_task" => office'[r.task] = "done"
          /\ r.does = "start_task" /\ ~C!Refused(r.does, r.task) => office'[r.task] = "in-progress"
          /\ \A x0 \in Task : office'[x0] = "done" => office[x0] = "done" \/ (x0 = r.task /\ r.does = "complete_task")
          /\ again' \subseteq again \cup {r.task}
          /\ r.does \notin {"start_task", "complete_task"} => again' = again
          /\ again' = again \/ (own /\ r.does = "complete_task" /\ office[r.task] = "done")
      BY <3>1, <3>3, RunShape
    <3> QED BY <3>2, <3>4
  <2>5. again' \subseteq Task /\ callFaults' \in 0..CallFaults
    BY <1>0, <1>2, <1>3, <2>4 DEF OthersOK
  <2>6. \A t \in Task : office'[t] = "in-progress" => office[t] = "in-progress" \/ Starts(f, t)
    BY <1>1, <2>4 DEF Starts
  <2>7. OneAtATime /\ NotDone => again' = {}
    <3> SUFFICES ASSUME OneAtATime, NotDone
                 PROVE  ~(r.key = 0 /\ r.does = "complete_task" /\ office[r.task] = "done")
      BY <2>4 DEF OneAtATime
    <3> SUFFICES ASSUME r.key = 0, r.does = "complete_task"
                 PROVE  office[r.task] # "done"
      OBVIOUS
    <3>1. r.from \in Call
      BY <1>1, <1>2 DEF OneAtATime, FrameRec
    <3>2. Owns(call[r.from], r) /\ CallFits(call[r.from])
      BY <3>1, CallNames DEF CallsInv, CallShapes, FramesFit, CallsFit
    <3>3. call[r.from].tool = "wait_for_events" /\ call[r.from].task = r.task
      BY <3>2, CallBounds DEF Owns, CallFits, C!Key, C!Own, C!Does, C!Direct
    <3> QED BY <1>1, <3>1, <3>3 DEF NotDone
  <2>8. x.at = "back" /\ r.does = "start_task" => office'[r.task] # "done"
    BY <2>3, <2>4
  <2> HIDE DEF x
  <2> QED BY <1>1, <2>1, <2>2, <2>4, <2>5, <2>6, <2>7, <2>8, FrameMoves
<1>4. CASE /\ callFaults < CallFaults /\ callFaults' = callFaults + 1
           /\ frame' = to("error")
           /\ UNCHANGED <<office, again>>
  <2> DEFINE x == IF r.at = "out" THEN [r EXCEPT !.at = "error"] ELSE C!NoFrame
  <2>1. frame' = [frame EXCEPT ![f] = x]
    BY <1>4
  <2>2. x \in {C!NoFrame, [r EXCEPT !.at = "back"], [r EXCEPT !.at = "error"]}
    OBVIOUS
  <2>3. x.at # "back"
    BY <1>2 DEF C!NoFrame, FrameRec
  <2>4. /\ office' \in [Task -> {"pending", "in-progress", "done"}]
        /\ again' \subseteq Task /\ callFaults' \in 0..CallFaults
    BY <1>0, <1>4, CallBounds DEF OthersOK
  <2>5. OneAtATime /\ NotDone => again' = {}
    BY <1>4 DEF OneAtATime
  <2> HIDE DEF x
  <2> QED BY <1>1, <1>4, <2>1, <2>2, <2>3, <2>4, <2>5, FrameMoves
<1> QED BY <1>3, <1>4 DEF C!OfficeRuns

\* A reply arrives for who waits under its id, or for nobody.
LEMMA ResponseKeeps ==
    ASSUME CallsInv, NEW f \in Frame, C!Response(f)
    PROVE  CallsInv'
<1>1. CASE C!Waits(f) = "none"
  <2>0. OthersOK /\ wsPending \in [CallId -> Call \cup {"none"}] /\ frame[f].key \in CallId \cup {0}
    BY CallTypes DEF CallsInv, CallShapes, FrameRec
  <2>1. /\ C!Live /\ frame[f].at \in {"back", "error"}
        /\ wsPending' = IF frame[f].key = 0 THEN wsPending ELSE [wsPending EXCEPT ![frame[f].key] = "none"]
        /\ frame' = [frame EXCEPT ![f] = C!NoFrame]
        /\ UNCHANGED <<call, startedTasks, C!wait, life, odd>>
        /\ UNCHANGED <<mode, link, office, untold, again, made, callFaults>>
    BY <1>1 DEF C!Response
  <2>2. wsPending' = wsPending
    BY <1>1, <2>0, <2>1 DEF C!Waits
  <2>3. UNCHANGED <<events, eventWaiter>>
    BY <2>1 DEF C!wait
  <2>4. /\ office' \in [Task -> {"pending", "in-progress", "done"}]
        /\ again' \subseteq Task /\ callFaults' \in 0..CallFaults
    BY <2>0, <2>1 DEF OthersOK
  <2>5. OneAtATime /\ NotDone => again' = {}
    BY <2>1 DEF OneAtATime
  <2>6. C!NoFrame.at # "back"
    BY DEF C!NoFrame
  <2> QED BY <2>1, <2>2, <2>3, <2>4, <2>5, <2>6, FrameMoves
<1>2. CASE C!Waits(f) # "none"
  BY <1>2, AnswerComes, ErrorComes
<1> QED BY <1>1, <1>2

\* A call of a client begins.
LEMMA RequestKeeps ==
    ASSUME CallsInv, NEW s \in Call, NEW c \in Client, NEW i \in CallId \cup {0}, NEW tool \in C!Tool,
           NEW t \in Task \cup {"none"}, C!Request(s, c, i, tool, t)
    PROVE  CallsInv'
<1> DEFINE nc == [at |-> "free", client |-> c, id |-> i, tool |-> tool, task |-> t,
                  rest |-> IF tool = "wait_for_events" THEN startedTasks ELSE {}]
<1> DEFINE o == IF C!Busy # {} THEN odd \cup {"parallel"} ELSE odd
<1>0. OthersOK /\ call \in [Call -> CallRec] /\ frame \in [Frame -> FrameRec]
      /\ wsPending \in [CallId -> Call \cup {"none"}]
  BY CallTypes DEF CallsInv, CallShapes
<1>1. /\ life = "open" /\ C!Busy # Call /\ s = C!Pick(Call \ C!Busy) /\ made < MaxCalls
      /\ mode = "stdio" => c = C!First
      /\ C!Fresh(c, i)
      /\ IF tool \in C!Direct THEN i # 0 /\ t # "none" ELSE i = 0 /\ t = "none" /\ c = C!First
      /\ made' = made + 1
      /\ IF tool = "wait_for_events"
         THEN C!Reconcile(s, nc, frame, o) /\ UNCHANGED wsPending
         ELSE /\ C!Send(s, nc, frame)
              /\ wsPending' = IF link = "up" /\ C!Key(nc) # 0 THEN [wsPending EXCEPT ![C!Key(nc)] = s] ELSE wsPending
              /\ odd' = o
              /\ UNCHANGED <<startedTasks, C!wait, life>>
      /\ UNCHANGED <<mode, link, office, untold, again, callFaults>>
  BY DEF C!Request
<1>2. call[s] = C!NoCall
  <2>1. C!Busy \subseteq Call
    BY DEF C!Busy
  <2>2. s \notin C!Busy
    BY <1>1, <2>1 DEF C!Pick
  <2> QED BY <2>2 DEF C!Busy, CallsInv, CallShapes, CallsFit, CallFits
<1>3. /\ nc \in CallRec /\ nc.client = c /\ nc.id = i /\ nc.tool = tool /\ nc.task = t /\ nc.at = "free"
      /\ nc.rest = IF tool = "wait_for_events" THEN startedTasks ELSE {}
      /\ nc.rest \subseteq startedTasks
  BY <1>0 DEF CallRec, OthersOK
<1>4. \A k \in CallId : wsPending[k] # s
  BY <1>2, CallNames DEF CallsInv, CallShapes, WaitersFit, C!NoCall, C!Direct
<1>5. \A f \in Frame : frame[f].from # s
  BY <1>2, CallNames DEF CallsInv, CallShapes, FramesFit, Owns, C!NoCall
<1>6. frame = Taken({}) /\ frame = C!Disowned(s, Taken({}))
  <2>1. frame = Taken({})
    BY <1>0, FrameTook
  <2>2. C!Disowned(s, frame) = frame
    BY <1>0, <1>5 DEF C!Disowned
  <2> QED BY <2>1, <2>2
<1> HIDE DEF nc
<1>7. /\ odd \subseteq o /\ o \subseteq {"retried", "parallel", "mixed", "crowded", "unheard"}
      /\ mode = "stdio" => "mixed" \notin o
      /\ "parallel" \notin o => C!Busy = {}
  BY <1>0 DEF OthersOK, CallsInv, OneClient
<1> HIDE DEF o
\* How the call is sent off, or parked, or given the events there are.
<1>8. \E d \in CallRec, new \in SUBSET Frame :
         /\ Turns(s, d, {}, new) /\ Sends(d, {}, new) /\ CallFits(d) /\ Slotting(s, d, o)
         /\ d.at # "free" => d.client = c
         /\ \/ /\ tool = "wait_for_events" /\ WaitGoes(s, nc, o, d) /\ wsPending' = wsPending /\ (d.at # "free" => C!Key(d) = 0)
            \/ /\ d.tool = tool /\ tool # "wait_for_events" /\ d.id = i /\ startedTasks' = startedTasks
               /\ d.at = "http" => link = "down"
               /\ d.at = "ws" => link = "up"
               /\ d.at \in {"ws", "http"}
               /\ C!Key(d) = C!Key(nc)
               /\ wsPending' = IF link = "up" /\ C!Key(nc) # 0 THEN [wsPending EXCEPT ![C!Key(nc)] = s] ELSE wsPending
  <2>1. CASE tool = "wait_for_events"
    <3>1. C!Reconcile(s, nc, Taken({}), o) /\ nc.tool = "wait_for_events" /\ nc.id = 0 /\ wsPending' = wsPending
      BY <1>1, <1>3, <1>6, <2>1 DEF C!Direct
    <3>2. PICK d \in CallRec, new \in SUBSET Frame :
               Turns(s, d, {}, new) /\ Sends(d, {}, new) /\ WaitGoes(s, nc, o, d)
      BY <1>3, <3>1, WaitShape DEF CallsInv
    <3>3. CallFits(d) /\ Slotting(s, d, o) /\ (d.at # "free" => d.client = c /\ C!Key(d) = 0)
      BY <1>3, <3>2 DEF WaitGoes, C!NoCall, C!Key, C!Own, C!Direct
    <3> QED BY <2>1, <3>1, <3>2, <3>3
  <2>2. CASE tool # "wait_for_events"
    <3>1. C!Send(s, nc, C!Disowned(s, Taken({}))) /\ odd' = o /\ UNCHANGED <<startedTasks, events, eventWaiter, life>>
      BY <1>1, <1>6, <2>2 DEF C!wait
    <3>2. PICK d \in {GoneTo(nc, "ws"), GoneTo(nc, "http")}, new \in SUBSET Frame :
              Turns(s, d, {}, new) /\ Sends(d, {}, new) /\ (d.at = "http" => link = "down") /\ (d.at = "ws" => link = "up")
      BY <1>3, <3>1, SendShape DEF CallsInv, SentOff
    <3>3. /\ d \in CallRec /\ d.tool = tool /\ d.client = c /\ d.id = i /\ d.at \in {"ws", "http"}
          /\ d.task = t /\ d.rest = {}
      BY <1>3, <2>2, <3>2 DEF GoneTo, CallRec
    <3>4. CallFits(d)
      BY <1>1, <2>2, <3>3 DEF CallFits, C!Direct, C!Tool
    <3>5. Slotting(s, d, o)
      BY <3>1, <3>3 DEF Slotting
    <3>6. C!Key(d) = C!Key(nc)
      BY <1>3, <3>3 DEF C!Key, C!Own
    <3> QED BY <1>1, <2>2, <3>1, <3>2, <3>3, <3>4, <3>5, <3>6
  <2> QED BY <2>1, <2>2
<1>9. PICK d \in CallRec, new \in SUBSET Frame :
         /\ Turns(s, d, {}, new) /\ Sends(d, {}, new) /\ CallFits(d) /\ Slotting(s, d, o)
         /\ d.at # "free" => d.client = c
         /\ \/ /\ tool = "wait_for_events" /\ WaitGoes(s, nc, o, d) /\ wsPending' = wsPending /\ (d.at # "free" => C!Key(d) = 0)
            \/ /\ d.tool = tool /\ tool # "wait_for_events" /\ d.id = i /\ startedTasks' = startedTasks
               /\ d.at = "http" => link = "down"
               /\ d.at = "ws" => link = "up"
               /\ d.at \in {"ws", "http"}
               /\ C!Key(d) = C!Key(nc)
               /\ wsPending' = IF link = "up" /\ C!Key(nc) # 0 THEN [wsPending EXCEPT ![C!Key(nc)] = s] ELSE wsPending
  BY <1>8
<1>10. C!Key(nc) \in {0, i} /\ (C!Key(nc) # 0 => tool \in C!Direct /\ C!Key(nc) = i)
  BY <1>3 DEF C!Key, C!Own
<1>11. /\ wsPending' \in [CallId -> Call \cup {"none"}]
       /\ \A k \in CallId : wsPending'[k] \in {s, wsPending[k]}
       /\ \A k \in CallId : wsPending'[k] = s => link = "up" /\ k = i /\ tool \in C!Direct /\ tool # "wait_for_events"
  BY <1>0, <1>4, <1>9, <1>10
<1>12. \A k \in CallId : wsPending'[k] = s => d.at = "ws" /\ d.tool \in C!Direct /\ d.id = k
  BY <1>9, <1>11 DEF C!Direct
<1>13. odd' \in {o, o \cup {"crowded"}} /\ life' \in {life, "over"} /\ events' \in {0, events}
  BY <1>9 DEF Slotting
<1>14. startedTasks' \subseteq Task
  BY <1>0, <1>9 DEF WaitGoes, OthersOK
<1>15. OthersOK'
  <2>1. events' \in 0..EventCap
    BY <1>0, <1>13, CallBounds DEF OthersOK
  <2>2. made' \in 0..MaxCalls
    BY <1>0, <1>1, CallBounds DEF OthersOK
  <2>3. eventWaiter' \in Call \cup {"none"}
    BY <1>0, <1>9 DEF Slotting, OthersOK
  <2> QED BY <1>0, <1>1, <1>7, <1>13, <1>14, <2>1, <2>2, <2>3 DEF OthersOK
<1>16. CallShapes'
  BY <1>9, <1>11, <1>12, <1>15, ShapesKept DEF CallsInv
<1>17. OneSlot'
  <2>1. call[s].at # "parked"
    BY <1>2 DEF C!NoCall
  <2> QED BY <1>7, <1>9, <2>1, SlotKept DEF CallsInv
<1>18. OneClient'
  <2>1. ASSUME mode = "stdio"
        PROVE  /\ "mixed" \notin o /\ (d.at # "free" => d.client = C!First)
               /\ \A k \in CallId : /\ wsPending'[k] \in {"none", s, wsPending[k]}
                                    /\ wsPending'[k] = s => \A f \in Frame \ {} : frame[f].key # k
               /\ new # {} /\ C!Key(d) # 0 => wsPending'[C!Key(d)] = s
    <3>1. c = C!First
      BY <1>1, <2>1
    <3>2. ASSUME NEW k \in CallId, wsPending'[k] = s, NEW f \in Frame, frame[f].key = k
          PROVE  FALSE
      <4>1. k = i /\ k # 0
        BY <1>11, <3>2, CallBounds
      <4>2. frame[f].at # "none"
        BY <3>2, <4>1 DEF CallsInv, CallShapes, FramesFit, FrameFits, C!NoFrame
      <4>3. frame[f].client = c
        BY <2>1, <3>1, <4>2 DEF CallsInv, OneClient
      <4> QED BY <1>1, <3>2, <4>1, <4>3 DEF C!Fresh
    <3>3. ASSUME new # {}, C!Key(d) # 0
          PROVE  wsPending'[C!Key(d)] = s
      <4>1. d.at = "ws"
        BY <1>9, <3>3 DEF Sends
      <4>2. /\ d.tool = tool /\ C!Key(d) = C!Key(nc)
            /\ wsPending' = IF link = "up" /\ C!Key(nc) # 0 THEN [wsPending EXCEPT ![C!Key(nc)] = s] ELSE wsPending
        BY <1>9, <3>3, <4>1
      <4>3. link = "up"
        BY <1>9, <3>3, <4>1
      <4>4. C!Key(nc) \in CallId
        BY <1>10, <3>3, <4>2
      <4> QED BY <1>0, <3>3, <4>2, <4>3, <4>4
    <3> QED BY <1>7, <1>9, <1>11, <2>1, <3>1, <3>2, <3>3
  <2> QED BY <1>1, <1>9, <1>11, <1>13, <2>1, OneClientKept DEF CallsInv
<1>19. AllKnown'
  <2>1. call'[s] = d /\ call[s].rest = {} /\ call[s].tool = "none"
    BY <1>0, <1>2, <1>9 DEF Turns, C!NoCall
  <2>2. ASSUME NEW x \in Task, x \in startedTasks
        PROVE  Known(x)'
    <3>1. CASE startedTasks' = startedTasks
      BY <2>2, <3>1 DEF Known
    <3>2. CASE tool = "wait_for_events" /\ WaitGoes(s, nc, o, d)
      <4>1. CASE x = d.task
        <5>1. d.tool = "wait_for_events"
          BY <3>2, <4>1, CallNames DEF WaitGoes, C!NoCall
        <5> QED BY <2>1, <4>1, <5>1 DEF Known
      <4>2. CASE x # d.task
        BY <2>2, <3>2, <4>2 DEF WaitGoes, Known
      <4> QED BY <4>1, <4>2
    <3> QED BY <1>9, <3>1, <3>2
  <2>3. "mixed" \in odd => "mixed" \in odd'
    BY <1>7, <1>13
  <2>4. C!Live
    BY <1>1 DEF C!Live
  <2> QED BY <1>1, <1>9, <2>1, <2>2, <2>3, <2>4, KnownKept DEF CallsInv
<1>20. DoneIsDone'
  BY <1>1, <1>9, DoneKept DEF CallsInv
<1>21. Ordinarily'
  <2> SUFFICES ASSUME Plain'
               PROVE  OneAtATime' /\ NotDone'
    BY DEF Ordinarily
  <2>1. Plain /\ C!Busy = {}
    BY <1>7, <1>13 DEF Plain
  <2>2. OneAtATime /\ NotDone
    BY <2>1 DEF CallsInv, Ordinarily
  <2>3. \A r \in Call : call[r] = C!NoCall
    BY <2>1 DEF C!Busy, CallsInv, CallShapes, CallsFit, CallFits
  <2>4. \A f \in Frame : f \in {} \/ frame[f].at = "none"
    <3> SUFFICES ASSUME NEW f \in Frame, frame[f].at # "none"
                 PROVE  FALSE
      OBVIOUS
    <3>1. frame[f].from \in Call /\ call[frame[f].from].at = "ws"
      BY <1>0, <2>2 DEF OneAtATime, FrameRec
    <3> QED BY <2>3, <3>1 DEF C!NoCall
  <2>5. \A x \in startedTasks : office'[x] # "done"
    <3>1. \A x \in startedTasks : ~Completes(x)
      BY <2>3 DEF Completes, C!NoCall
    <3> QED BY <1>1, <2>2, <3>1 DEF NotDone
  <2>6. \A x \in startedTasks' : office'[x] # "done"
    BY <1>9, <2>5 DEF WaitGoes
  <2>7. ASSUME d.tool = "wait_for_events"
        PROVE  /\ d.rest \subseteq startedTasks' /\ d.task \notin startedTasks'
               /\ d.at \in {"ws", "http"} => office'[d.task] # "done"
    <3>1. /\ d.rest = nc.rest \ {d.task} /\ startedTasks' = startedTasks \ {d.task}
          /\ d.at \in {"ws", "http"} => d.task \in nc.rest
      BY <1>9, <2>7 DEF WaitGoes
    <3> QED BY <1>3, <2>5, <3>1
  <2>8. again' = {}
    BY <1>1, <2>2 DEF OneAtATime
  <2>9. \A r \in Call : r # s => call[r].at = "free"
    BY <2>3 DEF C!NoCall
  <2> QED BY <1>9, <2>4, <2>6, <2>7, <2>8, <2>9, OrdinaryKept DEF CallsInv
<1> QED BY <1>16, <1>17, <1>18, <1>19, <1>20, <1>21 DEF CallsInv

\* At first nothing is under way.
LEMMA CallsStart == C!Init => CallsInv
<1> SUFFICES ASSUME C!Init
             PROVE  CallsInv
  OBVIOUS
<1>1. /\ \A s \in Call : call[s] = C!NoCall
      /\ \A f \in Frame : frame[f] = C!NoFrame
      /\ call \in [Call -> CallRec] /\ frame \in [Frame -> FrameRec]
      /\ wsPending \in [CallId -> Call \cup {"none"}] /\ \A k \in CallId : wsPending[k] = "none"
  BY CallRecords DEF C!Init
<1>2. OthersOK
  BY CallBounds DEF C!Init, OthersOK
<1>3. C!NoCall.at = "free" /\ C!NoCall.tool = "none" /\ C!NoFrame.at = "none" /\ C!NoFrame.from = "none" /\ C!NoFrame.key = 0
  BY DEF C!NoCall, C!NoFrame
<1>4. CallShapes
  <2>1. CallsFit
    BY <1>1, CallRecords DEF CallsFit
  <2>2. FramesFit
    BY <1>1, <1>3, CallRecords DEF FramesFit
  <2>3. WaitersFit
    BY <1>1 DEF WaitersFit
  <2> QED BY <1>1, <1>2, <2>1, <2>2, <2>3, CallTypes DEF CallShapes
<1>5. OneClient
  BY <1>1, <1>3 DEF C!Init, OneClient
<1>6. AllKnown /\ DoneIsDone
  BY <1>1, <1>3 DEF C!Init, AllKnown, Starts, DoneIsDone
<1>7. Ordinarily
  BY <1>1, <1>3 DEF C!Init, Ordinarily, OneAtATime, NotDone
<1>8. OneSlot
  BY <1>1, <1>3 DEF C!Init, OneSlot, C!Parked
<1> QED BY <1>4, <1>5, <1>6, <1>7, <1>8 DEF CallsInv

\* What the other parts do leaves the calls alone.
LEMMA CallsRest ==
    ASSUME CallsInv, UNCHANGED cv
    PROVE  CallsInv'
<1>1. UNCHANGED <<mode, link, call, wsPending, startedTasks, frame, office, events, eventWaiter, life,
                  odd, untold, again, made, callFaults>>
  BY DEF cv
<1>2. CallShapes'
  BY <1>1, CallTypes DEF CallsInv, CallShapes, OthersOK, CallsFit, FramesFit, WaitersFit
<1>3. OneClient'
  BY <1>1 DEF CallsInv, OneClient
<1>4. AllKnown'
  <2>1. \A t \in Task : Known(t) => Known(t)'
    BY <1>1 DEF Known
  <2> QED BY <1>1, <2>1 DEF CallsInv, AllKnown, C!Live, Starts
<1>5. DoneIsDone'
  BY <1>1 DEF CallsInv, DoneIsDone
<1>6. Ordinarily'
  BY <1>1, CallsStay DEF CallsInv
<1>7. OneSlot'
  BY <1>1 DEF CallsInv, OneSlot, C!Parked
<1> QED BY <1>2, <1>3, <1>4, <1>5, <1>6, <1>7 DEF CallsInv

\* Every step keeps the invariant.
LEMMA CallsStep == CallsInv /\ (C!Next \/ UNCHANGED cv) => CallsInv'
<1> SUFFICES ASSUME CallsInv, C!Next \/ UNCHANGED cv
             PROVE  CallsInv'
  OBVIOUS
<1>1. CASE UNCHANGED cv
  BY <1>1, CallsRest
<1>2. ASSUME NEW s \in Call, NEW c \in Client, NEW i \in CallId \cup {0}, NEW tool \in C!Tool,
             NEW t \in Task \cup {"none"}, C!Request(s, c, i, tool, t)
      PROVE  CallsInv'
  BY <1>2, RequestKeeps
<1>3. ASSUME NEW f \in Frame, C!OfficeRuns(f) \/ C!Response(f)
      PROVE  CallsInv'
  BY <1>3, OfficeRunsKeeps, ResponseKeeps
<1>4. ASSUME NEW s \in Call, C!WsTimeout(s) \/ C!Http(s) \/ C!WaitTimeout(s) \/ C!Asked(s)
      PROVE  CallsInv'
  BY <1>4, WsTimeoutKeeps, HttpEnds, WaitTimeoutKeeps, AskedKeeps
<1>5. CASE C!Event \/ C!LinkDown \/ C!Signal
  BY <1>5, EventKeeps, LinkDownKeeps, SignalKeeps
<1>6. CASE C!LinkUp
  <2>1. UNCHANGED life /\ life' \in {"open", "closed", "over"}
    BY <1>6, CallTypes DEF C!LinkUp, CallsInv, CallShapes, OthersOK
  <2> QED BY <1>6, <2>1, CallsUnmoved DEF C!LinkUp
<1>7. CASE C!Close
  <2>1. C!Live /\ life' \in {"open", "closed", "over"} /\ link' \in {"up", "down"}
    BY <1>7, CallTypes DEF C!Close, C!Live, CallsInv, CallShapes, OthersOK
  <2> QED BY <1>7, <2>1, CallsUnmoved DEF C!Close
<1>8. CASE C!Over
  <2>1. UNCHANGED cv
    BY <1>8 DEF C!Over, C!vars, C!bridge, C!wait, C!history, cv
  <2> QED BY <2>1, CallsRest
<1> QED BY <1>1, <1>2, <1>3, <1>4, <1>5, <1>6, <1>7, <1>8 DEF C!Next

\* The invariant gives what the run checks.
LEMMA CallsSuffice ==
    CallsInv => C!TypeOK /\ C!OneClientNoMix /\ C!NoTaskForgotten /\ C!CompletesOpenTasks /\ C!EventsWake
<1> SUFFICES ASSUME CallsInv
             PROVE  C!TypeOK /\ C!OneClientNoMix /\ C!NoTaskForgotten /\ C!CompletesOpenTasks /\ C!EventsWake
  OBVIOUS
<1>1. C!TypeOK /\ OthersOK
  BY CallTypes DEF CallsInv, CallShapes
<1>2. C!OneClientNoMix
  BY <1>1 DEF CallsInv, OneClient, C!OneClientNoMix, OthersOK
<1>3. C!NoTaskForgotten
  <2> SUFFICES ASSUME NEW t \in Task, C!Live, office[t] = "in-progress"
               PROVE  \/ t \in startedTasks \cup untold
                      \/ \E s \in C!Busy : t \in {call[s].task} \cup call[s].rest
                      \/ "mixed" \in odd
    BY DEF C!NoTaskForgotten
  <2>1. Known(t)
    BY DEF CallsInv, AllKnown
  <2>2. ASSUME NEW s \in Call, t \in call[s].rest \/ t = call[s].task
        PROVE  s \in C!Busy
    BY <2>2, CallNames DEF C!Busy, CallsInv, CallShapes, CallsFit, CallFits, C!NoCall
  <2> QED BY <2>1, <2>2 DEF Known
<1>4. C!CompletesOpenTasks
  BY DEF C!CompletesOpenTasks, CallsInv, Ordinarily, Plain, OneAtATime
<1>5. C!EventsWake
  BY <1>1 DEF C!EventsWake, CallsInv, OneSlot, OthersOK
<1> QED BY <1>1, <1>2, <1>3, <1>4, <1>5

\* The bridge gives no call another's answer while it has one client, forgets no task
\* the office has in progress, completes none twice and wakes who waits, but for what
\* happened out of the ordinary; whatever the other parts of the link do.
THEOREM CallsCorrect == MCSpec => []CallsHold
<1>1. MCInit => CallsInv
  BY CallsStart DEF MCInit
<1>2. CallsInv /\ [MCNext]_<<part, ov, fv, cv>> => CallsInv'
  <2>1. [MCNext]_<<part, ov, fv, cv>> => C!Next \/ UNCHANGED cv
    BY DEF MCNext
  <2> QED BY <2>1, CallsStep
<1>3. CallsInv => CallsHold
  BY CallsSuffice DEF CallsHold
<1> QED BY <1>1, <1>2, <1>3, PTL DEF MCSpec

-----------------------------------------------------------------------------
(* The readers of the link's frames. *)

\* The units of a frame that carries a message name it.
Full == {u \in F!Unit : u.kind \in {"text", "start", "cont"} => u.msg \in F!Msg}

Received == [first : F!Msg, last : F!Msg \cup {0}]
Reader == [buffer : Seq(Full), frag : F!Msg \cup {0}, got : Seq(Received)]

\* A frame, whole.
OneFrame == [kind : {"text", "start", "cont", "ping", "close"}, msg : F!Msg \cup {0}]

\* Units P are the frames fs.
Whole(P, fs) ==
    /\ Len(P) = 2 * Len(fs)
    /\ \A j \in 1 .. Len(fs) : /\ P[2 * j - 1].part = "head"
                               /\ P[2 * j - 1].kind = fs[j].kind /\ P[2 * j - 1].msg = fs[j].msg
                               /\ P[2 * j].msg = fs[j].msg

Ends(f) == f.kind \in {"text", "cont"}

\* The message that is sent next, or under way.
Top(o) == IF o.half = 0 THEN o.next ELSE o.half

\* Before frame j the first fragment of m has been sent, and nothing but pings since.
Begun(frag, fs, m, j) ==
    \/ \E i \in 1 .. Len(fs) : /\ i < j /\ fs[i].kind = "start" /\ fs[i].msg = m
                               /\ \A l \in 1 .. Len(fs) : i < l /\ l < j => fs[l].kind = "ping"
    \/ frag = m /\ \A l \in 1 .. Len(fs) : l < j => fs[l].kind = "ping"

\* What is yet to be read is what was sent and not handed on.
HandedSame(o, got) ==
    /\ Len(got) <= Len(o.sent)
    /\ \A k \in 1 .. Len(got) : got[k].first = o.sent[k] /\ got[k].last = o.sent[k]
ToCome(o, got, fs) ==
    LET low == Top(o) - (Len(o.sent) - Len(got)) IN
    /\ \A j \in 1 .. Len(fs) : Ends(fs[j]) => low <= fs[j].msg /\ fs[j].msg < Top(o)
    /\ \A m \in F!Msg : low <= m /\ m < Top(o) => \E j \in 1 .. Len(fs) : Ends(fs[j]) /\ fs[j].msg = m
    /\ \A i, j \in 1 .. Len(fs) : i < j /\ Ends(fs[i]) /\ Ends(fs[j]) => fs[i].msg < fs[j].msg
Fragments(o, frag, fs) ==
    /\ \A j \in 1 .. Len(fs) : fs[j].kind = "cont" => Begun(frag, fs, fs[j].msg, j)
    /\ o.half # 0 => Begun(frag, fs, o.half, Len(fs) + 1)
Reads(o, got, frag, fs) == HandedSame(o, got) /\ ToCome(o, got, fs) /\ Fragments(o, frag, fs)

\* The units can be read as frames to that effect.
Readable(o, in, P) == \E fs \in Seq(OneFrame) : Whole(P, fs) /\ Reads(o, in.got, in.frag, fs)

OfficeRec == [next : 1 .. MaxMsg + 1, control : 0 .. MaxControl, half : F!Msg \cup {0}, sent : Seq(F!Msg)]

\* The office sends the messages in order, one after the other.
InOrder(o) ==
    /\ o.half # 0 => o.next = o.half + 1
    /\ \A k \in 1 .. Len(o.sent) : o.sent[k] = Top(o) - Len(o.sent) + k - 1

FrameTypes ==
    /\ flClient \in [who : {"loop", "bridge"}, misread : {"junk", "waits"}]
    /\ flConn \in [state : {"down", "opening", "open"}, made : 0 .. MaxConn, stale : BOOLEAN]
    /\ flOffice \in OfficeRec /\ flWire \in Seq(Full) /\ flIn \in Reader

Closes(P) == \E k \in 1 .. Len(P) : P[k].kind = "close"

\* What is still to be read of a connection.
Pipe == IF flConn.state = "open" THEN flIn.buffer \o flWire ELSE flWire

FramesInv ==
    /\ FrameTypes /\ InOrder(flOffice)
    /\ flConn.state = "down" => flWire = <<>> /\ flOffice.sent = <<>> /\ flOffice.half = 0
    /\ flConn.state # "open" => flIn.got = <<>>
    /\ flConn.state = "opening" => ~Closes(flWire)
    /\ flConn.stale => flClient.who = "bridge" /\ flConn.state # "opening"
    /\ flConn.state # "open" /\ flClient.who = "loop" => flIn.buffer = <<>>
    /\ ~flConn.stale /\ F!Up => Readable(flOffice, flIn, Pipe)

\* What was begun before a frame is begun when that frame is taken in.
LEMMA BegunTaken ==
    ASSUME NEW fs \in Seq(OneFrame), fs # <<>>, NEW frag, NEW frag2, NEW m, NEW j \in Nat, 2 <= j,
           Begun(frag, fs, m, j),
           fs[1].kind = "start" => frag2 = fs[1].msg,
           fs[1].kind = "ping" => frag2 = frag
    PROVE  Begun(frag2, Tail(fs), m, j - 1)
<1>1. Len(Tail(fs)) = Len(fs) - 1 /\ Len(fs) \in Nat \ {0} /\ \A l \in 1 .. Len(fs) - 1 : Tail(fs)[l] = fs[l + 1]
  OBVIOUS
<1>2. ASSUME NEW i \in 1 .. Len(fs), i < j, fs[i].kind = "start", fs[i].msg = m, i # 1,
             \A l \in 1 .. Len(fs) : i < l /\ l < j => fs[l].kind = "ping"
      PROVE  Begun(frag2, Tail(fs), m, j - 1)
  <2>1. i - 1 \in 1 .. Len(Tail(fs)) /\ Tail(fs)[i - 1] = fs[i]
    BY <1>1, <1>2
  <2>2. ASSUME NEW l \in 1 .. Len(Tail(fs)), i - 1 < l, l < j - 1 PROVE Tail(fs)[l].kind = "ping"
    <3>1. l + 1 \in 1 .. Len(fs) /\ i < l + 1 /\ l + 1 < j
      BY <1>1, <2>2
    <3>2. Tail(fs)[l] = fs[l + 1]
      BY <1>1, <2>2
    <3> QED BY <3>1, <3>2, <1>2
  <2>3. i - 1 < j - 1
    BY <1>2
  <2> QED BY <1>2, <2>1, <2>2, <2>3 DEF Begun
<1>3. ASSUME frag2 = m, \A l \in 1 .. Len(fs) : 1 < l /\ l < j => fs[l].kind = "ping"
      PROVE  Begun(frag2, Tail(fs), m, j - 1)
  <2>1. ASSUME NEW l \in 1 .. Len(Tail(fs)), l < j - 1 PROVE Tail(fs)[l].kind = "ping"
    <3>1. l + 1 \in 1 .. Len(fs) /\ 1 < l + 1 /\ l + 1 < j
      BY <1>1, <2>1
    <3>2. Tail(fs)[l] = fs[l + 1]
      BY <1>1, <2>1
    <3> QED BY <3>1, <3>2, <1>3
  <2> QED BY <1>3, <2>1 DEF Begun
<1>4. CASE \E i \in 1 .. Len(fs) : /\ i < j /\ fs[i].kind = "start" /\ fs[i].msg = m
                                   /\ \A l \in 1 .. Len(fs) : i < l /\ l < j => fs[l].kind = "ping"
  <2>1. PICK i \in 1 .. Len(fs) : /\ i < j /\ fs[i].kind = "start" /\ fs[i].msg = m
                                  /\ \A l \in 1 .. Len(fs) : i < l /\ l < j => fs[l].kind = "ping"
    BY <1>4
  <2>2. CASE i = 1
    BY <2>1, <2>2, <1>3
  <2>3. CASE i # 1
    BY <2>1, <2>3, <1>2
  <2> QED BY <2>2, <2>3
<1>5. CASE frag = m /\ \A l \in 1 .. Len(fs) : l < j => fs[l].kind = "ping"
  <2>1. fs[1].kind = "ping"
    BY <1>1, <1>5
  <2> QED BY <1>3, <1>5, <2>1
<1> QED BY <1>4, <1>5 DEF Begun

\* The frames after the first are to be read, once it is handled.
LEMMA FragmentsTaken ==
    ASSUME NEW fs \in Seq(OneFrame), fs # <<>>, NEW frag, NEW frag2, NEW o, Fragments(o, frag, fs),
           fs[1].kind = "start" => frag2 = fs[1].msg,
           fs[1].kind = "ping" => frag2 = frag
    PROVE  Fragments(o, frag2, Tail(fs))
<1>1. Len(Tail(fs)) = Len(fs) - 1 /\ Len(fs) \in Nat \ {0} /\ \A l \in 1 .. Len(fs) - 1 : Tail(fs)[l] = fs[l + 1]
  OBVIOUS
<1>2. ASSUME NEW j \in 1 .. Len(Tail(fs)), Tail(fs)[j].kind = "cont"
      PROVE  Begun(frag2, Tail(fs), Tail(fs)[j].msg, j)
  <2>1. j + 1 \in 1 .. Len(fs) /\ Tail(fs)[j] = fs[j + 1] /\ j + 1 \in Nat /\ 2 <= j + 1
    BY <1>1, <1>2
  <2>2. Begun(frag, fs, fs[j + 1].msg, j + 1)
    BY <1>2, <2>1 DEF Fragments
  <2>3. Begun(frag2, Tail(fs), fs[j + 1].msg, (j + 1) - 1)
    BY <2>1, <2>2, BegunTaken
  <2> QED BY <2>1, <2>3
<1>3. ASSUME o.half # 0 PROVE Begun(frag2, Tail(fs), o.half, Len(Tail(fs)) + 1)
  <2>1. Begun(frag, fs, o.half, Len(fs) + 1) /\ Len(fs) + 1 \in Nat /\ 2 <= Len(fs) + 1
    BY <1>1, <1>3 DEF Fragments
  <2>2. Begun(frag2, Tail(fs), o.half, (Len(fs) + 1) - 1)
    BY <2>1, BegunTaken
  <2> QED BY <1>1, <2>2
<1> QED BY <1>2, <1>3 DEF Fragments

\* A frame that ends no message.
LEMMA PassesBy ==
    ASSUME FrameTypes, NEW fs \in Seq(OneFrame), fs # <<>>, NEW got \in Seq(Received),
           ToCome(flOffice, got, fs), ~Ends(fs[1])
    PROVE  ToCome(flOffice, got, Tail(fs))
<1>1. Len(Tail(fs)) = Len(fs) - 1 /\ Len(fs) \in Nat \ {0} /\ \A l \in 1 .. Len(fs) - 1 : Tail(fs)[l] = fs[l + 1]
  OBVIOUS
<1> DEFINE top == Top(flOffice)
<1> DEFINE low == top - (Len(flOffice.sent) - Len(got))
<1>2. ASSUME NEW j \in 1 .. Len(Tail(fs)), Ends(Tail(fs)[j])
      PROVE  low <= Tail(fs)[j].msg /\ Tail(fs)[j].msg < top
  <2>1. j + 1 \in 1 .. Len(fs) /\ Tail(fs)[j] = fs[j + 1]
    BY <1>1, <1>2
  <2> QED BY <1>2, <2>1 DEF ToCome
<1>3. ASSUME NEW m \in F!Msg, low <= m, m < top
      PROVE  \E j \in 1 .. Len(Tail(fs)) : Ends(Tail(fs)[j]) /\ Tail(fs)[j].msg = m
  <2>1. PICK j \in 1 .. Len(fs) : Ends(fs[j]) /\ fs[j].msg = m
    BY <1>3 DEF ToCome
  <2>2. j - 1 \in 1 .. Len(Tail(fs)) /\ Tail(fs)[j - 1] = fs[j]
    BY <1>1, <2>1
  <2> QED BY <2>1, <2>2
<1>4. ASSUME NEW i \in 1 .. Len(Tail(fs)), NEW j \in 1 .. Len(Tail(fs)), i < j, Ends(Tail(fs)[i]), Ends(Tail(fs)[j])
      PROVE  Tail(fs)[i].msg < Tail(fs)[j].msg
  <2>1. i + 1 \in 1 .. Len(fs) /\ j + 1 \in 1 .. Len(fs) /\ i + 1 < j + 1
        /\ Tail(fs)[i] = fs[i + 1] /\ Tail(fs)[j] = fs[j + 1]
    BY <1>1, <1>4
  <2> QED BY <1>4, <2>1 DEF ToCome
<1> QED BY <1>2, <1>3, <1>4 DEF ToCome

\* A frame that ends a message is the next to be handed on.
LEMMA NextHanded ==
    ASSUME FrameTypes, InOrder(flOffice), NEW fs \in Seq(OneFrame), fs # <<>>, NEW got \in Seq(Received),
           HandedSame(flOffice, got), ToCome(flOffice, got, fs), Ends(fs[1]), fs[1].msg \in F!Msg
    PROVE  LET more == Append(got, [first |-> fs[1].msg, last |-> fs[1].msg]) IN
           HandedSame(flOffice, more) /\ ToCome(flOffice, more, Tail(fs))
<1> DEFINE top == Top(flOffice)
<1> DEFINE low == top - (Len(flOffice.sent) - Len(got))
<1> DEFINE m == fs[1].msg
<1> DEFINE more == Append(got, [first |-> m, last |-> m])
<1>0. flOffice.sent \in Seq(F!Msg) /\ top \in Nat /\ Len(flOffice.sent) \in Nat /\ Len(got) \in Nat /\ m \in Nat
  BY FrameBounds DEF FrameTypes, OfficeRec, Top, F!Msg
<1>1. Len(Tail(fs)) = Len(fs) - 1 /\ Len(fs) \in Nat \ {0} /\ \A l \in 1 .. Len(fs) - 1 : Tail(fs)[l] = fs[l + 1]
  OBVIOUS
<1>2. low <= m /\ m < top
  BY <1>1 DEF ToCome
<1>3. 1 <= low
  <2>1. CASE Len(flOffice.sent) = Len(got)
    BY <1>0, <1>2, <2>1 DEF F!Msg
  <2>2. CASE Len(flOffice.sent) # Len(got)
    <3>1. 1 \in 1 .. Len(flOffice.sent) /\ flOffice.sent[1] = top - Len(flOffice.sent) + 1 - 1
      BY <1>0, <2>2 DEF HandedSame, InOrder
    <3>2. flOffice.sent[1] \in F!Msg
      BY <1>0, <3>1
    <3> QED BY <1>0, <3>1, <3>2 DEF F!Msg
  <2> QED BY <2>1, <2>2
<1>4. low = m
  <2>0. low \in Int
    BY <1>0
  <2> SUFFICES ASSUME low < m PROVE FALSE
    <3> HIDE DEF low, m
    <3> QED BY <1>0, <1>2, <2>0
  <2>1. low \in F!Msg /\ low < top
    BY <1>0, <1>2, <1>3, FrameBounds DEF F!Msg, HandedSame
  <2>a. \A n \in F!Msg : low <= n /\ n < top => \E j \in 1 .. Len(fs) : Ends(fs[j]) /\ fs[j].msg = n
    BY DEF ToCome
  <2>2. PICK j \in 1 .. Len(fs) : Ends(fs[j]) /\ fs[j].msg = low
    <3> HIDE DEF low, top, m, more
    <3>1. low <= low
      BY <2>0
    <3> QED BY <2>1, <2>a, <3>1
  <2>3. j # 1
    BY <2>2, <1>0
  <2>4. m < fs[j].msg
    BY <2>2, <2>3, <1>1 DEF ToCome
  <2> QED BY <2>2, <2>4, <1>0
<1>5. Len(more) = Len(got) + 1 /\ \A k \in 1 .. Len(got) : more[k] = got[k]
      /\ more[Len(got) + 1] = [first |-> m, last |-> m]
  BY <1>0
<1>6. Len(got) + 1 \in 1 .. Len(flOffice.sent) /\ flOffice.sent[Len(got) + 1] = m
  BY <1>0, <1>2, <1>4 DEF InOrder
<1>7. HandedSame(flOffice, more)
  <2>1. ASSUME NEW k \in 1 .. Len(more) PROVE more[k].first = flOffice.sent[k] /\ more[k].last = flOffice.sent[k]
    <3>1. CASE k \in 1 .. Len(got)
      BY <3>1, <1>5 DEF HandedSame
    <3>2. CASE k = Len(got) + 1
      BY <3>2, <1>5, <1>6
    <3> QED BY <3>1, <3>2, <1>0, <1>5
  <2> QED BY <2>1, <1>0, <1>5, <1>6 DEF HandedSame
<1>8. top - (Len(flOffice.sent) - Len(more)) = m + 1
  BY <1>0, <1>4, <1>5
<1> HIDE DEF more, m
<1>9. ASSUME NEW j \in 1 .. Len(Tail(fs)), Ends(Tail(fs)[j])
      PROVE  m + 1 <= Tail(fs)[j].msg /\ Tail(fs)[j].msg < top
  <2>1. j + 1 \in 1 .. Len(fs) /\ 1 \in 1 .. Len(fs) /\ 1 < j + 1 /\ Tail(fs)[j] = fs[j + 1]
    BY <1>1, <1>9
  <2>2. m < fs[j + 1].msg /\ fs[j + 1].msg < top
    BY <1>9, <2>1 DEF ToCome, m
  <2>3. fs[j + 1] \in OneFrame
    BY <2>1
  <2>4. fs[j + 1].msg \in Nat
    BY <2>3, FrameBounds DEF OneFrame, F!Msg
  <2> QED BY <2>1, <2>2, <2>4, <1>0
<1>10. ASSUME NEW x \in F!Msg, m + 1 <= x, x < top
      PROVE  \E j \in 1 .. Len(Tail(fs)) : Ends(Tail(fs)[j]) /\ Tail(fs)[j].msg = x
  <2>0. x \in Nat
    BY FrameBounds DEF F!Msg
  <2>1. PICK j \in 1 .. Len(fs) : Ends(fs[j]) /\ fs[j].msg = x
    BY <1>0, <1>4, <1>10, <2>0 DEF ToCome
  <2>2. j # 1
    BY <1>0, <1>10, <2>0, <2>1 DEF m
  <2>3. j - 1 \in 1 .. Len(Tail(fs)) /\ Tail(fs)[j - 1] = fs[j]
    BY <1>1, <2>1, <2>2
  <2> QED BY <2>1, <2>3
<1>11. ASSUME NEW i \in 1 .. Len(Tail(fs)), NEW j \in 1 .. Len(Tail(fs)), i < j, Ends(Tail(fs)[i]), Ends(Tail(fs)[j])
      PROVE  Tail(fs)[i].msg < Tail(fs)[j].msg
  <2>1. i + 1 \in 1 .. Len(fs) /\ j + 1 \in 1 .. Len(fs) /\ i + 1 < j + 1
        /\ Tail(fs)[i] = fs[i + 1] /\ Tail(fs)[j] = fs[j + 1]
    BY <1>1, <1>11
  <2> QED BY <1>11, <2>1 DEF ToCome
<1>12. ToCome(flOffice, more, Tail(fs))
  BY <1>8, <1>9, <1>10, <1>11 DEF ToCome
<1> QED BY <1>7, <1>12 DEF more, m

\* The units behind the first frame are the other frames.
LEMMA WholeTaken ==
    ASSUME NEW b \in Seq(Full), NEW w \in Seq(Full), NEW fs \in Seq(OneFrame), Whole(b \o w, fs), Len(b) >= 2
    PROVE  /\ fs # <<>> /\ b[1].part = "head" /\ b[1].kind = fs[1].kind
           /\ b[1].msg = fs[1].msg /\ b[2].msg = fs[1].msg
           /\ SubSeq(b, 3, Len(b)) \in Seq(Full)
           /\ \A k \in 1 .. Len(SubSeq(b, 3, Len(b))) : SubSeq(b, 3, Len(b))[k] = b[k + 2]
           /\ Whole(SubSeq(b, 3, Len(b)) \o w, Tail(fs))
<1> DEFINE rest == SubSeq(b, 3, Len(b))
<1> DEFINE P == b \o w
<1>1. Len(b) \in Nat /\ Len(w) \in Nat /\ Len(fs) \in Nat /\ Len(P) = Len(b) + Len(w)
      /\ \A k \in 1 .. Len(b) : P[k] = b[k]
  OBVIOUS
<1>2. Len(fs) >= 1 /\ fs # <<>>
  BY <1>1 DEF Whole
<1>3. P[1] = b[1] /\ P[2] = b[2]
  BY <1>1
<1>4. /\ P[2 * 1 - 1].part = "head" /\ P[2 * 1 - 1].kind = fs[1].kind
      /\ P[2 * 1 - 1].msg = fs[1].msg /\ P[2 * 1].msg = fs[1].msg
  <2>1. 1 \in 1 .. Len(fs)
    BY <1>1, <1>2
  <2> QED BY <2>1 DEF Whole
<1>5. rest \in Seq(Full) /\ Len(rest) = Len(b) - 2 /\ \A k \in 1 .. Len(rest) : rest[k] = b[k + 2]
  <2>1. \A k \in 3 .. Len(b) : b[k] \in Full
    OBVIOUS
  <2>2. rest \in Seq(Full) /\ Len(rest) = IF 3 <= Len(b) THEN Len(b) - 3 + 1 ELSE 0
    BY <1>1, <2>1, SubSeqProperties
  <2>4. Len(rest) = Len(b) - 2
    <3>1. Len(b) \in Nat /\ Len(b) >= 2
      BY <1>1
    <3>2. \A n \in Nat : n >= 2 => (IF 3 <= n THEN n - 3 + 1 ELSE 0) = n - 2
      OBVIOUS
    <3>3. (IF 3 <= Len(b) THEN Len(b) - 3 + 1 ELSE 0) = Len(b) - 2
      BY <3>1, <3>2
    <3> QED BY <2>2, <3>3
  <2>3. \A k \in 1 .. Len(b) - 2 : rest[k] = b[k + 2]
    <3>1. \A k \in 1 .. Len(b) - 2 : rest[k] = b[3 + k - 1] /\ 3 + k - 1 = k + 2
      BY <1>1, SubSeqProperties
    <3> QED BY <3>1
  <2> QED BY <2>2, <2>3, <2>4
<1>6. Len(Tail(fs)) = Len(fs) - 1 /\ \A l \in 1 .. Len(fs) - 1 : Tail(fs)[l] = fs[l + 1]
  BY <1>2
<1>7. Len(rest \o w) = 2 * Len(Tail(fs))
  <2>1. Len(P) = 2 * Len(fs)
    BY DEF Whole
  <2>2. Len(rest \o w) = Len(rest) + Len(w)
    BY <1>5
  <2>3. Len(rest \o w) = 2 * Len(fs) - 2
    <3> HIDE DEF rest
    <3> QED BY <2>1, <2>2, <1>1, <1>5
  <2>4. 2 * Len(Tail(fs)) = 2 * Len(fs) - 2
    <3>1. \A n \in Nat : 2 * (n - 1) = 2 * n - 2
      OBVIOUS
    <3>2. 2 * (Len(fs) - 1) = 2 * Len(fs) - 2
      BY <3>1, <1>1
    <3> QED BY <3>2, <1>6
  <2> QED BY <2>3, <2>4
<1>8. \A k \in 1 .. Len(rest \o w) : (rest \o w)[k] = P[k + 2]
  <2> SUFFICES ASSUME NEW k \in 1 .. Len(rest \o w) PROVE (rest \o w)[k] = P[k + 2]
    OBVIOUS
  <2>1. CASE k \in 1 .. Len(rest)
    <3>1. (rest \o w)[k] = rest[k]
      BY <1>5, <2>1
    <3>2. k + 2 \in 1 .. Len(b)
      BY <1>1, <1>5, <2>1
    <3> QED BY <3>1, <3>2, <1>1, <1>5, <2>1
  <2>2. CASE k \notin 1 .. Len(rest)
    <3>1. (rest \o w)[k] = w[k - Len(rest)]
      BY <1>5, <2>2
    <3>2. P[k + 2] = w[(k + 2) - Len(b)]
      BY <1>1, <1>5, <2>2
    <3>3. k - Len(rest) = (k + 2) - Len(b)
      <4> HIDE DEF rest
      <4> QED BY <1>1, <1>5
    <3> QED BY <3>1, <3>2, <3>3
  <2> QED BY <2>1, <2>2
<1>9. ASSUME NEW j \in 1 .. Len(Tail(fs))
      PROVE  /\ (rest \o w)[2 * j - 1].part = "head"
             /\ (rest \o w)[2 * j - 1].kind = Tail(fs)[j].kind /\ (rest \o w)[2 * j - 1].msg = Tail(fs)[j].msg
             /\ (rest \o w)[2 * j].msg = Tail(fs)[j].msg
  <2>1. j + 1 \in 1 .. Len(fs) /\ Tail(fs)[j] = fs[j + 1]
    BY <1>1, <1>2, <1>6
  <2>2. 2 * j - 1 \in 1 .. Len(rest \o w) /\ 2 * j \in 1 .. Len(rest \o w)
    BY <1>1, <1>2, <1>6, <1>7
  <2>3. (rest \o w)[2 * j - 1] = P[(2 * j - 1) + 2] /\ (rest \o w)[2 * j] = P[2 * j + 2]
    BY <1>8, <2>2
  <2>4. (2 * j - 1) + 2 = 2 * (j + 1) - 1 /\ 2 * j + 2 = 2 * (j + 1)
    BY <1>6
  <2>5. /\ P[2 * (j + 1) - 1].part = "head" /\ P[2 * (j + 1) - 1].kind = fs[j + 1].kind
        /\ P[2 * (j + 1) - 1].msg = fs[j + 1].msg /\ P[2 * (j + 1)].msg = fs[j + 1].msg
    BY <2>1 DEF Whole
  <2> QED BY <2>1, <2>3, <2>4, <2>5
<1>10. Whole(rest \o w, Tail(fs))
  BY <1>7, <1>9 DEF Whole
<1> QED BY <1>2, <1>3, <1>4, <1>5, <1>10

\* What handling a frame makes of the reader.
LEMMA OnFrameTypes ==
    ASSUME NEW at \in Reader, NEW head \in Full, NEW last \in F!Msg \cup {0}
    PROVE  /\ F!OnFrame(at, head.kind, head.msg, last) \in Reader
           /\ F!OnFrame(at, head.kind, head.msg, last).buffer = at.buffer
<1>1. at \in Reader
  OBVIOUS
<1>2. head.msg \in F!Msg \cup {0} /\ (head.kind \in {"text", "start", "cont"} => head.msg \in F!Msg)
  BY DEF Full, F!Unit
<1>3. CASE head.kind = "start"
  BY <1>1, <1>2, <1>3 DEF F!OnFrame, Reader
<1>4. CASE head.kind = "cont" /\ at.frag # 0
  <2>1. F!OnFrame(at, head.kind, head.msg, last) = F!HandOn([at EXCEPT !.frag = 0], at.frag, last)
    BY <1>1, <1>4 DEF F!OnFrame
  <2>2. [first |-> at.frag, last |-> last] \in Received /\ [at EXCEPT !.frag = 0] \in Reader
    BY <1>1, <1>4 DEF Reader, Received
  <2> DEFINE y == [at EXCEPT !.frag = 0]
  <2> DEFINE g == Append(at.got, [first |-> at.frag, last |-> last])
  <2>3. g \in Seq(Received)
    BY <1>1, <2>2 DEF Reader
  <2>4. y \in Reader /\ y.got = at.got /\ y.buffer = at.buffer
    BY <2>2
  <2>5. F!OnFrame(at, head.kind, head.msg, last) = [y EXCEPT !.got = g]
    BY <2>1, <2>4 DEF F!HandOn
  <2> HIDE DEF g, y
  <2>6. [y EXCEPT !.got = g] \in Reader
    BY <2>3, <2>4 DEF Reader
  <2>7. [y EXCEPT !.got = g].buffer = at.buffer
    BY <1>1, <2>4 DEF Reader
  <2>8. F!OnFrame(at, head.kind, head.msg, last) \in Reader /\ F!OnFrame(at, head.kind, head.msg, last).buffer = at.buffer
    BY <2>5, <2>6, <2>7
  <2> QED BY <2>8
<1>5. CASE head.kind = "text"
  <2>1. F!OnFrame(at, head.kind, head.msg, last) = F!HandOn(at, head.msg, last)
    BY <1>1, <1>5 DEF F!OnFrame
  <2>2. [first |-> head.msg, last |-> last] \in Received
    BY <1>2, <1>5 DEF Received
  <2> DEFINE g == Append(at.got, [first |-> head.msg, last |-> last])
  <2>3. g \in Seq(Received)
    BY <1>1, <2>2 DEF Reader
  <2>4. F!OnFrame(at, head.kind, head.msg, last) = [at EXCEPT !.got = g]
    BY <2>1 DEF F!HandOn
  <2> HIDE DEF g
  <2> QED BY <1>1, <2>3, <2>4 DEF Reader
<1>6. CASE head.kind \notin {"start", "text"} /\ ~(head.kind = "cont" /\ at.frag # 0)
  BY <1>1, <1>6 DEF F!OnFrame
<1> QED BY <1>3, <1>4, <1>5, <1>6

\* A frame handled: what was handed on and what is still to be read are as they were sent.
LEMMA FrameRead ==
    ASSUME FrameTypes, InOrder(flOffice), NEW in \in Reader, NEW w \in Seq(Full), Len(in.buffer) >= 2,
           Readable(flOffice, in, in.buffer \o w)
    PROVE  LET b == in.buffer
               rest == SubSeq(b, 3, Len(b))
               to == F!OnFrame([in EXCEPT !.buffer = rest], b[1].kind, b[1].msg, b[2].msg)
           IN  Readable(flOffice, to, rest \o w)
<1> DEFINE b == in.buffer
<1> DEFINE rest == SubSeq(b, 3, Len(b))
<1> DEFINE at == [in EXCEPT !.buffer = rest]
<1> DEFINE to == F!OnFrame(at, b[1].kind, b[1].msg, b[2].msg)
<1>0. b \in Seq(Full) /\ in.got \in Seq(Received) /\ in.frag \in F!Msg \cup {0}
  BY DEF Reader
<1>1. PICK fs \in Seq(OneFrame) : Whole(b \o w, fs) /\ Reads(flOffice, in.got, in.frag, fs)
  BY DEF Readable
<1> DEFINE f == fs[1]
<1>2. /\ fs # <<>> /\ b[1].kind = f.kind /\ b[1].msg = f.msg /\ b[2].msg = f.msg
      /\ Whole(rest \o w, Tail(fs))
  BY <1>0, <1>1, WholeTaken
<1>3. Tail(fs) \in Seq(OneFrame) /\ 1 \in 1 .. Len(fs) /\ f \in OneFrame
  BY <1>2
<1>4. b[1] \in Full /\ (f.kind \in {"text", "start", "cont"} => f.msg \in F!Msg)
  <2>1. b[1] \in Full
    BY <1>0
  <2> QED BY <2>1, <1>2 DEF Full
<1>5. at.frag = in.frag /\ at.got = in.got /\ at \in Reader
  <2>1. rest \in Seq(Full)
    BY <1>0, <1>1, WholeTaken
  <2> QED BY <2>1 DEF Reader
<1>6. to = F!OnFrame(at, f.kind, f.msg, f.msg)
  BY <1>2
<1> SUFFICES Reads(flOffice, to.got, to.frag, Tail(fs))
  BY <1>2, <1>3 DEF Readable
<1> HIDE DEF at, b, rest
<1>7. CASE f.kind = "cont"
  <2>1. in.frag = f.msg
    <3>1. Begun(in.frag, fs, f.msg, 1)
      BY <1>1, <1>3, <1>7 DEF Reads, Fragments
    <3> QED BY <3>1, <1>3 DEF Begun
  <2>2. in.frag \in F!Msg /\ in.frag # 0
    BY <2>1, <1>4, <1>7, FrameBounds DEF F!Msg
  <2>3. to = F!HandOn([at EXCEPT !.frag = 0], in.frag, f.msg)
    BY <2>2, <1>5, <1>6, <1>7 DEF F!OnFrame
  <2>4. to.got = Append(in.got, [first |-> f.msg, last |-> f.msg]) /\ to.frag = 0
    BY <2>1, <2>3, <1>5 DEF F!HandOn, Reader
  <2>5. HandedSame(flOffice, to.got) /\ ToCome(flOffice, to.got, Tail(fs))
    BY <2>4, <1>0, <1>1, <1>2, <1>4, <1>7, NextHanded DEF Reads, Ends
  <2>6. Fragments(flOffice, to.frag, Tail(fs))
    BY <1>1, <1>2, <1>7, FragmentsTaken DEF Reads
  <2> QED BY <2>5, <2>6 DEF Reads
<1>8. CASE f.kind = "text"
  <2>3. to = F!HandOn(at, f.msg, f.msg)
    BY <1>5, <1>6, <1>8 DEF F!OnFrame
  <2>4. to.got = Append(in.got, [first |-> f.msg, last |-> f.msg])
    BY <2>3, <1>5 DEF F!HandOn, Reader
  <2>5. HandedSame(flOffice, to.got) /\ ToCome(flOffice, to.got, Tail(fs))
    BY <2>4, <1>0, <1>1, <1>2, <1>4, <1>8, NextHanded DEF Reads, Ends
  <2>6. Fragments(flOffice, to.frag, Tail(fs))
    BY <1>1, <1>2, <1>8, FragmentsTaken DEF Reads
  <2> QED BY <2>5, <2>6 DEF Reads
<1>9. CASE f.kind \notin {"cont", "text"}
  <2>1. to.got = in.got /\ (f.kind = "start" => to.frag = f.msg) /\ (f.kind # "start" => to.frag = in.frag)
    BY <1>5, <1>6, <1>9 DEF F!OnFrame, Reader
  <2>2. ToCome(flOffice, in.got, Tail(fs))
    BY <1>0, <1>1, <1>2, <1>9, PassesBy DEF Reads, Ends
  <2>3. Fragments(flOffice, to.frag, Tail(fs))
    BY <1>1, <1>2, <2>1, FragmentsTaken DEF Reads
  <2> QED BY <2>1, <2>2, <2>3, <1>1 DEF Reads
<1> QED BY <1>7, <1>8, <1>9

Step == [open : BOOLEAN, in : Reader]

\* A buffer that is worked through, with w still on the wire: what has been handed on
\* and what is to come are what was sent.
Good(st, w) ==
    /\ st \in Step
    /\ ~st.open /\ flClient.who = "loop" => st.in.buffer = <<>>
    /\ st.open /\ ~flConn.stale => Readable(flOffice, st.in, st.in.buffer \o w)
    /\ flConn.state = "opening" => st.open /\ ~Closes(st.in.buffer)

\* One frame is taken from it, or nothing, or what looks like a frame.
LEMMA ParseKeeps ==
    ASSUME FrameTypes, InOrder(flOffice), NEW w \in Seq(Full), NEW st, Good(st, w)
    PROVE  Good(F!Parse(st), w)
<1> DEFINE b == st.in.buffer
<1> DEFINE rest == SubSeq(b, 3, Len(b))
<1> DEFINE in == [st.in EXCEPT !.buffer = rest]
<1>1. st \in Step /\ st.in \in Reader /\ b \in Seq(Full) /\ Len(b) \in Nat
  BY DEF Good, Step, Reader
<1>2. CASE F!Parse(st) = st
  BY <1>2
<1>3. CASE F!Parse(st) # st
  <2>1. Len(b) >= 2
    BY <1>1, <1>3 DEF F!Parse
  <2>2. rest \in Seq(Full) /\ \A k \in 1 .. Len(rest) : k + 2 \in 1 .. Len(b) /\ rest[k] = b[k + 2]
    <3>1. \A k \in 3 .. Len(b) : b[k] \in Full
      BY <1>1
    <3>2. /\ rest \in Seq(Full)
          /\ Len(rest) = IF 3 <= Len(b) THEN Len(b) - 3 + 1 ELSE 0
          /\ \A k \in 1 .. Len(b) - 3 + 1 : rest[k] = b[3 + k - 1]
      BY <1>1, <3>1, SubSeqProperties
    <3>3. \A n \in Nat : n >= 2 => (IF 3 <= n THEN n - 3 + 1 ELSE 0) = n - 2
      OBVIOUS
    <3>4. Len(rest) = Len(b) - 2
      BY <1>1, <2>1, <3>2, <3>3
    <3>5. ASSUME NEW k \in 1 .. Len(rest) PROVE k + 2 \in 1 .. Len(b) /\ rest[k] = b[k + 2]
      <4> HIDE DEF b, rest
      <4>1. k \in 1 .. Len(b) - 3 + 1 /\ 3 + k - 1 = k + 2 /\ k + 2 \in 1 .. Len(b)
        BY <1>1, <2>1, <3>4, <3>5
      <4>2. rest[k] = b[3 + k - 1]
        BY <3>2, <4>1
      <4> QED BY <4>1, <4>2
    <3> QED BY <3>2, <3>5
  <2>3. Closes(rest) => Closes(b)
    BY <2>2 DEF Closes
  <2>4. in \in Reader /\ in.buffer = rest
    BY <1>1, <2>2 DEF Reader
  <2>5. st.open /\ ~flConn.stale => b[1].part = "head"
    BY <1>1, <2>1, WholeTaken DEF Good, Readable
  <2>6. b[1] \in Full /\ b[2] \in Full
    BY <1>1, <2>1
  <2>7. CASE b[1].part = "tail" /\ flClient.misread # "waits"
    <3>1. F!Parse(st) = [st EXCEPT !.in = in]
      BY <1>1, <2>1, <2>7 DEF F!Parse
    <3>2. st.open => flConn.stale
      BY <2>5, <2>7
    <3>3. ~st.open /\ flClient.who = "loop" => FALSE
      BY <1>1, <2>1 DEF Good
    <3> HIDE DEF in
    <3> QED BY <1>1, <2>3, <2>4, <3>1, <3>2, <3>3 DEF Good, Step
  <2>8. CASE b[1].part # "tail" /\ b[1].kind = "close"
    <3> DEFINE to == IF flClient.who = "loop" THEN [in EXCEPT !.buffer = <<>>] ELSE in
    <3>1. F!Parse(st) = [open |-> FALSE, in |-> to]
      BY <1>1, <2>1, <2>8 DEF F!Parse
    <3>2. to \in Reader /\ (flClient.who = "loop" => to.buffer = <<>>)
      <4>1. <<>> \in Seq(Full)
        OBVIOUS
      <4> HIDE DEF in
      <4> QED BY <2>4, <4>1 DEF Reader
    <3>3. flConn.state # "opening"
      <4>1. Closes(b)
        BY <1>1, <2>1, <2>8 DEF Closes
      <4> QED BY <4>1 DEF Good
    <3> HIDE DEF to
    <3> QED BY <3>1, <3>2, <3>3 DEF Good, Step
  <2>9. CASE b[1].part # "tail" /\ b[1].kind # "close"
    <3> DEFINE to == F!OnFrame(in, b[1].kind, b[1].msg, b[2].msg)
    <3>1. F!Parse(st) = [st EXCEPT !.in = to]
      BY <1>1, <2>1, <2>9 DEF F!Parse
    <3>2. to \in Reader /\ to.buffer = rest
      <4>1. b[2].msg \in F!Msg \cup {0}
        BY <2>6 DEF Full, F!Unit
      <4> HIDE DEF b, rest, in
      <4> QED BY <2>4, <2>6, <4>1, OnFrameTypes
    <3>3. st.open /\ ~flConn.stale => Readable(flOffice, to, rest \o w)
      BY <1>1, <2>1, FrameRead DEF Good
    <3>4. ~st.open /\ flClient.who = "loop" => FALSE
      BY <1>1, <2>1 DEF Good
    <3> HIDE DEF to
    <3> QED BY <1>1, <2>3, <3>1, <3>2, <3>3, <3>4 DEF Good, Step
  <2>10. b[1].part = "tail" => flClient.misread # "waits"
    BY <1>3, <2>1 DEF F!Parse
  <2> QED BY <2>7, <2>8, <2>9, <2>10
<1> QED BY <1>2, <1>3

\* The buffer after so many frames.
Steps(in) ==
    CHOOSE after : after = [i \in 0 .. Len(in.buffer) |->
                               IF i = 0 THEN [open |-> TRUE, in |-> in] ELSE F!Parse(after[i - 1])]

\* The first of some numbers.
LEMMA LeastOf ==
    ASSUME NEW T, T \subseteq Nat, T # {}
    PROVE  \E x \in T : \A y \in T : x <= y
<1>1. PICK x \in T : \A y \in T : <<y, x>> \notin OpToRel(<, Nat)
  <2>1. \E x \in T : \A y \in T : ~ (<<y, x>> \in OpToRel(<, Nat))
    BY NatLessThanWellFounded, WFMin
  <2> QED
    BY <2>1
<1>2. ASSUME NEW y \in T, y < x PROVE FALSE
  <2>1. <<y, x>> \in OpToRel(<, Nat)
    BY <1>2 DEF OpToRel
  <2> QED
    BY <2>1, <1>1
<1> QED
  BY <1>2

\* Working through a buffer goes frame by frame.
LEMMA StepsAre == \A in : F!ProcessBuffer(in) = Steps(in)[Len(in.buffer) \div 2]
  BY DEF F!ProcessBuffer, Steps

\* There is such a function.
LEMMA StepsExist ==
    ASSUME NEW in, NEW n \in Nat
    PROVE  \E f : f = [i \in 0 .. n |-> IF i = 0 THEN [open |-> TRUE, in |-> in] ELSE F!Parse(f[i - 1])]
<1> DEFINE Is(f, m) == f = [i \in 0 .. m |-> IF i = 0 THEN [open |-> TRUE, in |-> in] ELSE F!Parse(f[i - 1])]
<1> DEFINE T == {m \in Nat : \A f : ~Is(f, m)}
<1> SUFFICES ASSUME \A f : ~Is(f, n) PROVE FALSE
  OBVIOUS
<1>0. T # {}
  <2>1. n \in T
    OBVIOUS
  <2> QED BY <2>1
<1>1. PICK m \in T : \A y \in T : m <= y
  <2> HIDE DEF T
  <2>1. T \subseteq Nat
    BY DEF T
  <2> QED BY <1>0, <2>1, LeastOf
<1>2. m # 0
  <2> SUFFICES ASSUME m = 0 PROVE FALSE
    OBVIOUS
  <2>1. Is([i \in 0 .. 0 |-> [open |-> TRUE, in |-> in]], 0)
    OBVIOUS
  <2> QED BY <1>1, <2>1
<1>3. m - 1 \in Nat /\ m - 1 \notin T
  <2>1. m \in Nat
    OBVIOUS
  <2> HIDE DEF T
  <2>2. m - 1 \in Nat /\ ~(m <= m - 1)
    BY <2>1, <1>2
  <2> QED BY <2>2, <1>1
<1>4. PICK f : Is(f, m - 1)
  BY <1>3
<1> DEFINE g == [i \in 0 .. m |-> IF i < m THEN f[i] ELSE F!Parse(f[m - 1])]
<1>5. \A i \in 0 .. m : i # 0 => g[i - 1] = f[i - 1]
  BY <1>1, <1>2
<1>6. \A i \in 0 .. m : g[i] = IF i = 0 THEN [open |-> TRUE, in |-> in] ELSE F!Parse(f[i - 1])
  <2> HIDE DEF Is
  <2> SUFFICES ASSUME NEW i \in 0 .. m
               PROVE  g[i] = IF i = 0 THEN [open |-> TRUE, in |-> in] ELSE F!Parse(f[i - 1])
    OBVIOUS
  <2>1. CASE i < m
    <3>1. i \in 0 .. m - 1
      BY <1>1, <2>1
    <3> QED BY <1>4, <2>1, <3>1 DEF Is
  <2>2. CASE i = m
    BY <1>1, <1>2, <2>2
  <2> QED BY <1>1, <2>1, <2>2
<1>7. g = [i \in 0 .. m |-> g[i]]
  OBVIOUS
<1>8. Is(g, m)
  <2>1. \A i \in 0 .. m : g[i] = IF i = 0 THEN [open |-> TRUE, in |-> in] ELSE F!Parse(g[i - 1])
    BY <1>5, <1>6
  <2> HIDE DEF g
  <2> QED BY <1>7, <2>1
<1> QED BY <1>1, <1>8

\* Its first value, and each from the one before.
LEMMA StepByStep ==
    ASSUME NEW in, Len(in.buffer) \in Nat
    PROVE  /\ Steps(in)[0] = [open |-> TRUE, in |-> in]
           /\ \A i \in 1 .. Len(in.buffer) : Steps(in)[i] = F!Parse(Steps(in)[i - 1])
<1> DEFINE f == Steps(in)
<1> DEFINE n == Len(in.buffer)
<1>1. f = [i \in 0 .. n |-> IF i = 0 THEN [open |-> TRUE, in |-> in] ELSE F!Parse(f[i - 1])]
  <2> DEFINE Is(h) == h = [i \in 0 .. n |-> IF i = 0 THEN [open |-> TRUE, in |-> in] ELSE F!Parse(h[i - 1])]
  <2>1. \E h : Is(h)
    BY StepsExist
  <2>2. f = CHOOSE h : Is(h)
    BY DEF Steps
  <2> HIDE DEF Is, f, n
  <2>3. Is(f)
    BY <2>1, <2>2
  <2> QED BY <2>3 DEF Is
<1> HIDE DEF f
<1>2. \A i \in 0 .. n : f[i] = IF i = 0 THEN [open |-> TRUE, in |-> in] ELSE F!Parse(f[i - 1])
  BY <1>1
<1>a. 0 \in 0 .. n
  OBVIOUS
<1>3. f[0] = [open |-> TRUE, in |-> in]
  BY <1>2, <1>a
<1>4. \A i \in 1 .. n : f[i] = F!Parse(f[i - 1])
  BY <1>2
<1> QED BY <1>3, <1>4 DEF f

\* All the frames of a buffer are handled.
LEMMA BufferRead ==
    ASSUME FrameTypes, InOrder(flOffice), NEW w \in Seq(Full), NEW in \in Reader,
           Good([open |-> TRUE, in |-> in], w)
    PROVE  Good(F!ProcessBuffer(in), w)
<1> DEFINE n == Len(in.buffer)
<1> DEFINE T == {i \in Nat : i \in 0 .. n /\ ~Good(Steps(in)[i], w)}
<1>1. n \in Nat
  BY DEF Reader
<1>2. /\ Steps(in)[0] = [open |-> TRUE, in |-> in]
      /\ \A i \in 1 .. n : Steps(in)[i] = F!Parse(Steps(in)[i - 1])
  BY <1>1, StepByStep
<1>3. T = {}
  <2> SUFFICES ASSUME T # {} PROVE FALSE
    OBVIOUS
  <2>1. PICK m \in T : \A y \in T : m <= y
    <3>1. T \subseteq Nat
      OBVIOUS
    <3> HIDE DEF T
    <3> QED BY <3>1, LeastOf
  <2>2. m \in Nat /\ m \in 0 .. n /\ ~Good(Steps(in)[m], w)
    OBVIOUS
  <2>3. m # 0
    BY <2>2, <1>2
  <2>4. m - 1 \in Nat /\ m - 1 \in 0 .. n /\ m \in 1 .. n /\ ~(m <= m - 1)
    BY <1>1, <2>2, <2>3
  <2>5. m - 1 \notin T
    <3> HIDE DEF T
    <3> QED BY <2>1, <2>4
  <2>6. Good(Steps(in)[m - 1], w)
    BY <2>4, <2>5
  <2>7. Good(F!Parse(Steps(in)[m - 1]), w)
    BY <2>6, ParseKeeps
  <2> QED BY <1>2, <2>2, <2>4, <2>7
<1>4. n \div 2 \in 0 .. n /\ n \div 2 \in Nat
  <2>1. \A k \in Nat : k \div 2 \in 0 .. k /\ k \div 2 \in Nat
    OBVIOUS
  <2> HIDE DEF n
  <2> QED BY <1>1, <2>1
<1>5. Good(Steps(in)[n \div 2], w)
  BY <1>3, <1>4
<1> QED BY <1>5, StepsAre

\* A chunk put behind the buffer, the rest left on the wire.
LEMMA Cut ==
    ASSUME NEW b \in Seq(Full), NEW w \in Seq(Full), NEW k \in 0 .. Len(w)
    PROVE  /\ SubSeq(w, 1, k) \in Seq(Full) /\ SubSeq(w, k + 1, Len(w)) \in Seq(Full)
           /\ b \o SubSeq(w, 1, k) \in Seq(Full)
           /\ (b \o SubSeq(w, 1, k)) \o SubSeq(w, k + 1, Len(w)) = b \o w
           /\ SubSeq(w, 1, k) \o SubSeq(w, k + 1, Len(w)) = w
           /\ Closes(SubSeq(w, 1, k)) => Closes(w)
           /\ k = 0 => SubSeq(w, k + 1, Len(w)) = w
<1> DEFINE u == SubSeq(w, 1, k)
<1> DEFINE v == SubSeq(w, k + 1, Len(w))
<1>1. Len(w) \in Nat /\ k \in Nat /\ k <= Len(w) /\ \A i \in 1 .. Len(w) : w[i] \in Full
  OBVIOUS
<1>2. u \in Seq(Full) /\ Len(u) = k /\ \A i \in 1 .. k : u[i] = w[i]
  <2>1. \A i \in 1 .. k : w[i] \in Full
    BY <1>1
  <2>2. u \in Seq(Full) /\ Len(u) = (IF 1 <= k THEN k - 1 + 1 ELSE 0) /\ \A i \in 1 .. k - 1 + 1 : u[i] = w[1 + i - 1]
    BY <1>1, <2>1, SubSeqProperties
  <2>3. Len(u) = k
    BY <1>1, <2>2
  <2>4. \A i \in 1 .. k : i \in 1 .. k - 1 + 1 /\ 1 + i - 1 = i
    BY <1>1
  <2> QED BY <2>2, <2>3, <2>4
<1>3. v \in Seq(Full)
  <2>1. \A i \in k + 1 .. Len(w) : w[i] \in Full
    BY <1>1
  <2> QED BY <1>1, <2>1, SubSeqProperties
<1>4. u \o v = w
  <2>1. u \o v = SubSeq(w, 1, Len(w))
    <3>1. 1 \in 1 .. Len(w) + 1 /\ k \in 1 - 1 .. Len(w) /\ Len(w) \in k .. Len(w)
      BY <1>1
    <3> QED BY <3>1, ConcatAdjacentSubSeq
  <2> QED BY <2>1, SubSeqFull
<1>5. (b \o u) \o v = b \o w
  <2> HIDE DEF u, v
  <2>0. b \in Seq(Full) /\ u \in Seq(Full) /\ v \in Seq(Full)
    BY <1>2, <1>3
  <2>1. (b \o u) \o v = b \o (u \o v)
    BY ONLY <2>0, ConcatAssociative
  <2> QED BY <2>1, <1>4
<1>6. b \o u \in Seq(Full)
  BY <1>2
<1>7. Closes(u) => Closes(w)
  BY <1>1, <1>2 DEF Closes
<1>8. k = 0 => v = w
  BY SubSeqFull
<1> QED BY <1>2, <1>3, <1>4, <1>5, <1>6, <1>7, <1>8

\* A frame more of what was begun.
LEMMA BegunMore ==
    ASSUME NEW fs \in Seq(OneFrame), NEW f \in OneFrame, NEW frag, NEW m, NEW j \in Nat, j <= Len(fs) + 1,
           Begun(frag, fs, m, j)
    PROVE  /\ Begun(frag, Append(fs, f), m, j)
           /\ j = Len(fs) + 1 /\ f.kind = "ping" => Begun(frag, Append(fs, f), m, j + 1)
<1> DEFINE gs == Append(fs, f)
<1>1. Len(fs) \in Nat /\ Len(gs) = Len(fs) + 1 /\ (\A l \in 1 .. Len(fs) : gs[l] = fs[l]) /\ gs[Len(fs) + 1] = f
  OBVIOUS
<1> HIDE DEF gs
<1>2. ASSUME NEW l \in 1 .. Len(gs), l < j PROVE l \in 1 .. Len(fs) /\ gs[l] = fs[l]
  BY <1>1, <1>2
<1>3. ASSUME NEW l \in 1 .. Len(gs), l < j + 1, j = Len(fs) + 1, f.kind = "ping"
      PROVE  (l \in 1 .. Len(fs) /\ gs[l] = fs[l] /\ l < j) \/ gs[l].kind = "ping"
  BY <1>1, <1>3
<1>4. CASE \E i \in 1 .. Len(fs) : /\ i < j /\ fs[i].kind = "start" /\ fs[i].msg = m
                                   /\ \A l \in 1 .. Len(fs) : i < l /\ l < j => fs[l].kind = "ping"
  <2>1. PICK i \in 1 .. Len(fs) : /\ i < j /\ fs[i].kind = "start" /\ fs[i].msg = m
                                  /\ \A l \in 1 .. Len(fs) : i < l /\ l < j => fs[l].kind = "ping"
    BY <1>4
  <2>2. i \in 1 .. Len(gs) /\ gs[i] = fs[i] /\ i < j + 1
    BY <1>1, <2>1
  <2>3. Begun(frag, gs, m, j)
    <3>1. \A l \in 1 .. Len(gs) : i < l /\ l < j => gs[l].kind = "ping"
      BY <1>2, <2>1
    <3> QED BY <2>1, <2>2, <3>1 DEF Begun
  <2>4. ASSUME j = Len(fs) + 1, f.kind = "ping" PROVE Begun(frag, gs, m, j + 1)
    <3>1. \A l \in 1 .. Len(gs) : i < l /\ l < j + 1 => gs[l].kind = "ping"
      BY <1>3, <2>1, <2>4
    <3> QED BY <2>1, <2>2, <3>1 DEF Begun
  <2> QED BY <2>3, <2>4 DEF gs
<1>5. CASE frag = m /\ \A l \in 1 .. Len(fs) : l < j => fs[l].kind = "ping"
  <2>1. Begun(frag, gs, m, j)
    BY <1>2, <1>5 DEF Begun
  <2>2. ASSUME j = Len(fs) + 1, f.kind = "ping" PROVE Begun(frag, gs, m, j + 1)
    <3>1. \A l \in 1 .. Len(gs) : l < j + 1 => gs[l].kind = "ping"
      BY <1>3, <1>5, <2>2
    <3> QED BY <3>1, <1>5 DEF Begun
  <2> QED BY <2>1, <2>2 DEF gs
<1> QED BY <1>4, <1>5 DEF Begun

\* A frame behind the others.
LEMMA WholeMore ==
    ASSUME NEW P \in Seq(Full), NEW fs \in Seq(OneFrame), Whole(P, fs), NEW kind, NEW m
    PROVE  Whole(P \o F!Framed(kind, m), Append(fs, [kind |-> kind, msg |-> m]))
<1> DEFINE f == [kind |-> kind, msg |-> m]
<1> DEFINE gs == Append(fs, f)
<1> DEFINE q == F!Framed(kind, m)
<1> DEFINE R == P \o q
<1>1. Len(fs) \in Nat /\ Len(gs) = Len(fs) + 1 /\ (\A l \in 1 .. Len(fs) : gs[l] = fs[l]) /\ gs[Len(fs) + 1] = f
  OBVIOUS
<1>2. /\ Len(q) = 2 /\ q[1].part = "head" /\ q[1].kind = kind /\ q[1].msg = m /\ q[2].msg = m
  BY DEF F!Framed
<1>3. Len(P) \in Nat /\ Len(P) = 2 * Len(fs)
  BY DEF Whole
<1>4. Len(R) = Len(P) + 2 /\ (\A l \in 1 .. Len(P) : R[l] = P[l]) /\ R[Len(P) + 1] = q[1] /\ R[Len(P) + 2] = q[2]
  <2>1. PICK S : q \in Seq(S)
    <3>1. q \in Seq({[part |-> "head", kind |-> kind, msg |-> m], [part |-> "tail", kind |-> kind, msg |-> m]})
      BY DEF F!Framed
    <3> QED BY <3>1
  <2> HIDE DEF q
  <2>2. P \in Seq(S \cup Full) /\ q \in Seq(S \cup Full)
    BY <2>1
  <2>3. /\ Len(R) = Len(P) + Len(q)
        /\ \A l \in 1 .. Len(P) + Len(q) : R[l] = IF l <= Len(P) THEN P[l] ELSE q[l - Len(P)]
    BY <2>2, ConcatProperties
  <2>4. Len(P) + 1 \in 1 .. Len(P) + Len(q) /\ Len(P) + 2 \in 1 .. Len(P) + Len(q)
        /\ 1 .. Len(P) \subseteq 1 .. Len(P) + Len(q)
    BY <1>2, <1>3
  <2>5. (Len(P) + 1) - Len(P) = 1 /\ (Len(P) + 2) - Len(P) = 2
    BY <1>3
  <2> HIDE DEF R
  <2> QED BY <1>2, <1>3, <2>3, <2>4, <2>5
<1> HIDE DEF gs, R, q
<1>5. Len(R) = 2 * Len(gs)
  BY <1>1, <1>3, <1>4
<1>6. ASSUME NEW j \in 1 .. Len(gs)
      PROVE  /\ R[2 * j - 1].part = "head"
             /\ R[2 * j - 1].kind = gs[j].kind /\ R[2 * j - 1].msg = gs[j].msg
             /\ R[2 * j].msg = gs[j].msg
  <2>1. CASE j \in 1 .. Len(fs)
    <3>1. 2 * j - 1 \in 1 .. Len(P) /\ 2 * j \in 1 .. Len(P)
      BY <1>1, <1>3, <2>1
    <3> QED BY <1>1, <1>4, <2>1, <3>1 DEF Whole
  <2>2. CASE j = Len(fs) + 1
    <3>1. 2 * j - 1 = Len(P) + 1 /\ 2 * j = Len(P) + 2
      BY <1>1, <1>3, <2>2
    <3> QED BY <1>1, <1>2, <1>4, <2>2, <3>1
  <2> QED BY <1>1, <2>1, <2>2
<1> QED BY <1>5, <1>6 DEF Whole, gs, R, q

\* The office o becomes p by sending a frame; what is to come is still what was sent.
LEMMA ReadsMore ==
    ASSUME FrameTypes, NEW p \in OfficeRec, NEW fs \in Seq(OneFrame), NEW f \in OneFrame,
           NEW got \in Seq(Received), NEW frag, InOrder(flOffice), InOrder(p),
           Reads(flOffice, got, frag, fs),
           IF Ends(f)
           THEN /\ p.half = 0 /\ p.next = Top(flOffice) + 1 /\ p.sent = Append(flOffice.sent, f.msg)
                /\ f.msg = Top(flOffice) /\ (f.kind = "cont" => flOffice.half = f.msg /\ f.msg # 0)
           ELSE /\ p.sent = flOffice.sent /\ Top(p) = Top(flOffice)
                /\ p.half # 0 => IF f.kind = "start" THEN f.msg = p.half ELSE f.kind = "ping" /\ p.half = flOffice.half
    PROVE  Reads(p, got, frag, Append(fs, f))
<1> DEFINE gs == Append(fs, f)
<1>1. Len(fs) \in Nat /\ Len(gs) = Len(fs) + 1 /\ (\A l \in 1 .. Len(fs) : gs[l] = fs[l]) /\ gs[Len(fs) + 1] = f
  OBVIOUS
<1>2. Len(got) \in Nat /\ flOffice.sent \in Seq(F!Msg) /\ Len(flOffice.sent) \in Nat
      /\ Top(flOffice) \in Nat /\ \A j \in 1 .. Len(fs) : fs[j].msg \in Nat
  <2>1. \A j \in 1 .. Len(fs) : fs[j] \in OneFrame
    OBVIOUS
  <2>2. \A j \in 1 .. Len(fs) : fs[j].msg \in Nat
    BY <2>1, FrameBounds DEF OneFrame, F!Msg
  <2> QED BY <2>2, FrameBounds DEF FrameTypes, OfficeRec, Top, F!Msg
<1> HIDE DEF gs
<1> DEFINE low == Top(flOffice) - (Len(flOffice.sent) - Len(got))
<1> DEFINE low2 == Top(p) - (Len(p.sent) - Len(got))
<1>3. CASE Ends(f)
  <2>1. /\ Top(p) = Top(flOffice) + 1 /\ Len(p.sent) = Len(flOffice.sent) + 1 /\ low2 = low
        /\ \A k \in 1 .. Len(flOffice.sent) : p.sent[k] = flOffice.sent[k]
    <3>1. Top(p) = Top(flOffice) + 1
      BY <1>3 DEF Top
    <3>2. p.sent = Append(flOffice.sent, f.msg)
      BY <1>3
    <3>3. Len(p.sent) = Len(flOffice.sent) + 1 /\ \A k \in 1 .. Len(flOffice.sent) : p.sent[k] = flOffice.sent[k]
      BY <3>2, <1>2
    <3>4. \A x, y, z \in Nat : (x + 1) - ((y + 1) - z) = x - (y - z)
      OBVIOUS
    <3>5. (Top(flOffice) + 1) - ((Len(flOffice.sent) + 1) - Len(got)) = Top(flOffice) - (Len(flOffice.sent) - Len(got))
      BY <3>4, <1>2
    <3> QED BY <3>1, <3>3, <3>5
  <2>2. HandedSame(p, got)
    <3>1. HandedSame(flOffice, got)
      BY DEF Reads
    <3>2. \A x, y \in Nat : x <= y => x <= y + 1 /\ \A k \in 1 .. x : k \in 1 .. y
      OBVIOUS
    <3>3. Len(got) <= Len(flOffice.sent) + 1 /\ \A k \in 1 .. Len(got) : k \in 1 .. Len(flOffice.sent)
      BY <1>2, <3>1, <3>2 DEF HandedSame
    <3>4. \A k \in 1 .. Len(got) : p.sent[k] = flOffice.sent[k]
      BY <2>1, <3>3
    <3> QED BY <2>1, <3>1, <3>3, <3>4 DEF HandedSame
  <2>3. low <= Top(flOffice) /\ low \in Int
    BY <1>2 DEF Reads, HandedSame
  <2>4. \A j \in 1 .. Len(fs) : Ends(fs[j]) => low <= fs[j].msg /\ fs[j].msg < Top(flOffice)
    BY DEF Reads, ToCome
  <2>a. f.msg = Top(flOffice)
    BY <1>3
  <2> HIDE DEF low, low2
  <2>5. \A j \in 1 .. Len(gs) : Ends(gs[j]) => low2 <= gs[j].msg /\ gs[j].msg < Top(p)
    <3> SUFFICES ASSUME NEW j \in 1 .. Len(gs), Ends(gs[j])
                 PROVE  low2 <= gs[j].msg /\ gs[j].msg < Top(p)
      OBVIOUS
    <3>1. CASE j \in 1 .. Len(fs)
      <4>1. gs[j] = fs[j] /\ low <= fs[j].msg /\ fs[j].msg < Top(flOffice) /\ fs[j].msg \in Nat
        BY <1>1, <1>2, <2>4, <3>1
      <4> QED BY <4>1, <1>2, <2>1, <2>3
    <3>2. CASE j = Len(fs) + 1
      <4>1. gs[j].msg = Top(flOffice)
        BY <1>1, <2>a, <3>2
      <4> QED BY <4>1, <1>2, <2>1, <2>3
    <3> QED BY <1>1, <3>1, <3>2
  <2>6. ASSUME NEW m \in F!Msg, low2 <= m, m < Top(p)
        PROVE  \E j \in 1 .. Len(gs) : Ends(gs[j]) /\ gs[j].msg = m
    <3>0. m \in Nat
      BY FrameBounds DEF F!Msg
    <3>1. CASE m = Top(flOffice)
      BY <1>1, <1>3, <2>a, <3>1
    <3>2. CASE m < Top(flOffice)
      <4>1. PICK j \in 1 .. Len(fs) : Ends(fs[j]) /\ fs[j].msg = m
        BY <2>1, <2>6, <3>2 DEF Reads, ToCome, low
      <4> QED BY <4>1, <1>1
    <3> QED BY <1>2, <2>1, <2>6, <3>0, <3>1, <3>2
  <2>7. \A i, j \in 1 .. Len(gs) : i < j /\ Ends(gs[i]) /\ Ends(gs[j]) => gs[i].msg < gs[j].msg
    <3> SUFFICES ASSUME NEW i \in 1 .. Len(gs), NEW j \in 1 .. Len(gs), i < j, Ends(gs[i]), Ends(gs[j])
                 PROVE  gs[i].msg < gs[j].msg
      OBVIOUS
    <3>1. i \in 1 .. Len(fs) /\ gs[i] = fs[i]
      BY <1>1
    <3>2. CASE j \in 1 .. Len(fs)
      BY <1>1, <3>1, <3>2 DEF Reads, ToCome
    <3>3. CASE j = Len(fs) + 1
      BY <1>1, <2>a, <2>4, <3>1, <3>3
    <3> QED BY <1>1, <3>2, <3>3
  <2>8. ToCome(p, got, gs)
    BY <2>5, <2>6, <2>7 DEF ToCome, low2
  <2>9. Fragments(p, frag, gs)
    <3>1. ASSUME NEW j \in 1 .. Len(gs), gs[j].kind = "cont" PROVE Begun(frag, gs, gs[j].msg, j)
      <4>1. CASE j \in 1 .. Len(fs)
        BY <1>1, <3>1, <4>1, BegunMore DEF Reads, Fragments, gs
      <4>2. CASE j = Len(fs) + 1
        <5>1. Begun(frag, fs, f.msg, Len(fs) + 1)
          BY <1>1, <1>3, <3>1, <4>2 DEF Reads, Fragments
        <5> QED BY <1>1, <4>2, <5>1, BegunMore DEF gs
      <4> QED BY <1>1, <4>1, <4>2
    <3>2. p.half = 0
      BY <1>3
    <3> QED BY <3>1, <3>2 DEF Fragments
  <2> QED BY <2>2, <2>8, <2>9 DEF Reads, gs
<1>4. CASE ~Ends(f)
  <2>1. Top(p) = Top(flOffice) /\ p.sent = flOffice.sent
    BY <1>4
  <2>2. HandedSame(p, got)
    BY <2>1 DEF Reads, HandedSame
  <2>3. \A j \in 1 .. Len(gs) : Ends(gs[j]) => j \in 1 .. Len(fs) /\ gs[j] = fs[j]
    BY <1>1, <1>4
  <2>4. \A j \in 1 .. Len(fs) : j \in 1 .. Len(gs) /\ gs[j] = fs[j]
    BY <1>1
  <2>5. ToCome(p, got, gs)
    BY <2>1, <2>3, <2>4 DEF Reads, ToCome
  <2>6. ASSUME NEW j \in 1 .. Len(gs), gs[j].kind = "cont" PROVE Begun(frag, gs, gs[j].msg, j)
    <3>1. j \in 1 .. Len(fs) /\ gs[j] = fs[j]
      BY <2>3, <2>6 DEF Ends
    <3>2. Begun(frag, fs, fs[j].msg, j)
      BY <2>6, <3>1 DEF Reads, Fragments
    <3> QED BY <1>1, <3>1, <3>2, BegunMore DEF gs
  <2>7. ASSUME p.half # 0 PROVE Begun(frag, gs, p.half, Len(gs) + 1)
    <3>1. CASE f.kind = "start"
      <4>1. f.msg = p.half
        BY <1>4, <2>7, <3>1
      <4>2. Len(fs) + 1 \in 1 .. Len(gs) /\ Len(fs) + 1 < Len(gs) + 1
            /\ \A l \in 1 .. Len(gs) : ~(Len(fs) + 1 < l)
        BY <1>1
      <4> QED BY <1>1, <3>1, <4>1, <4>2 DEF Begun
    <3>2. CASE f.kind # "start"
      <4>1. f.kind = "ping" /\ p.half = flOffice.half
        BY <1>4, <2>7, <3>2
      <4>2. Begun(frag, fs, p.half, Len(fs) + 1) /\ Len(fs) + 1 \in Nat
        BY <1>1, <2>7, <4>1 DEF Reads, Fragments
      <4>3. Begun(frag, gs, p.half, (Len(fs) + 1) + 1)
        BY <4>1, <4>2, BegunMore DEF gs
      <4> QED BY <4>3, <1>1
    <3> QED BY <3>1, <3>2
  <2>8. Fragments(p, frag, gs)
    BY <2>6, <2>7 DEF Fragments
  <2> QED BY <2>2, <2>5, <2>8 DEF Reads, gs
<1> QED BY <1>3, <1>4

LEMMA ConcatFull ==
    ASSUME NEW x \in Seq(Full), NEW y \in Seq(Full), NEW z \in Seq(Full)
    PROVE  (x \o y) \o z = x \o (y \o z)
  BY ConcatAssociative

\* The office sends a frame, unless it is down.
LEMMA SendKeeps ==
    ASSUME FramesInv, F!Up, NEW kind \in {"text", "start", "cont", "ping", "close"}, NEW m \in F!Msg \cup {0},
           kind \in {"text", "start", "cont"} => m \in F!Msg,
           F!Sends(kind, m), flOffice' \in OfficeRec, InOrder(flOffice'),
           kind = "close" => flConn.state = "open",
           LET f == [kind |-> kind, msg |-> m]
               p == flOffice'
           IN  IF Ends(f)
               THEN /\ p.half = 0 /\ p.next = Top(flOffice) + 1 /\ p.sent = Append(flOffice.sent, f.msg)
                    /\ f.msg = Top(flOffice) /\ (f.kind = "cont" => flOffice.half = f.msg /\ f.msg # 0)
               ELSE /\ p.sent = flOffice.sent /\ Top(p) = Top(flOffice)
                    /\ p.half # 0 => IF f.kind = "start" THEN f.msg = p.half ELSE f.kind = "ping" /\ p.half = flOffice.half
    PROVE  FramesInv'
<1> DEFINE f == [kind |-> kind, msg |-> m]
<1> DEFINE q == F!Framed(kind, m)
<1>0. FrameTypes /\ flIn.buffer \in Seq(Full) /\ flIn.got \in Seq(Received) /\ flWire \in Seq(Full) /\ f \in OneFrame
  BY DEF FramesInv, FrameTypes, Reader, OneFrame
<1>1. flWire' = flWire \o q /\ flClient' = flClient /\ flConn' = flConn /\ flIn' = flIn
  BY DEF F!Sends
<1>2. q \in Seq(Full) /\ Len(q) = 2 /\ q[1].kind = kind /\ q[2].kind = kind
  BY DEF F!Framed, Full, F!Unit
<1>3. flConn.state # "down"
  BY DEF F!Up
<1> HIDE DEF q
<1>4. FrameTypes'
  BY <1>0, <1>1, <1>2 DEF FrameTypes
<1>5. flConn.state = "opening" => ~Closes(flWire')
  <2> SUFFICES ASSUME flConn.state = "opening", NEW k \in 1 .. Len(flWire'), flWire'[k].kind = "close" PROVE FALSE
    BY DEF Closes
  <2>1. /\ Len(flWire') = Len(flWire) + 2 /\ Len(flWire) \in Nat
        /\ flWire'[k] = IF k <= Len(flWire) THEN flWire[k] ELSE q[k - Len(flWire)]
    <3>1. /\ Len(flWire \o q) = Len(flWire) + Len(q)
          /\ \A i \in 1 .. Len(flWire) + Len(q) :
                (flWire \o q)[i] = IF i <= Len(flWire) THEN flWire[i] ELSE q[i - Len(flWire)]
      BY <1>0, <1>2, ConcatProperties
    <3>2. Len(flWire) \in Nat
      BY <1>0
    <3> QED BY <1>1, <1>2, <3>1, <3>2
  <2>2. CASE k <= Len(flWire)
    BY <2>1, <2>2 DEF FramesInv, Closes
  <2>3. CASE ~(k <= Len(flWire))
    <3>1. k - Len(flWire) \in {1, 2}
      BY <2>1, <2>3
    <3> QED BY <1>2, <2>1, <2>3, <3>1
  <2> QED BY <2>2, <2>3
<1>6. Pipe \in Seq(Full) /\ Pipe' = Pipe \o q
  <2>1. CASE flConn.state = "open"
    <3>1. flIn.buffer \o flWire \in Seq(Full)
      BY <1>0, ConcatProperties
    <3>2. (flIn.buffer \o flWire) \o q = flIn.buffer \o (flWire \o q)
      BY <1>0, <1>2, ConcatFull
    <3> QED BY <1>1, <2>1, <3>1, <3>2 DEF Pipe
  <2>2. CASE flConn.state # "open"
    BY <1>0, <1>1, <2>2 DEF Pipe
  <2> QED BY <2>1, <2>2
<1>7. ~flConn'.stale /\ F!Up' => Readable(flOffice', flIn', Pipe')
  <2> SUFFICES ASSUME ~flConn.stale PROVE Readable(flOffice', flIn, Pipe \o q)
    BY <1>1, <1>6
  <2>1. PICK fs \in Seq(OneFrame) : Whole(Pipe, fs) /\ Reads(flOffice, flIn.got, flIn.frag, fs)
    BY DEF FramesInv, Readable
  <2>2. Whole(Pipe \o q, Append(fs, f))
    BY <1>6, <2>1, WholeMore DEF q
  <2>3. Reads(flOffice', flIn.got, flIn.frag, Append(fs, f))
    BY <1>0, <2>1, ReadsMore DEF FramesInv
  <2>4. Append(fs, f) \in Seq(OneFrame)
    BY <1>0
  <2> QED BY <2>2, <2>3, <2>4 DEF Readable
<1> QED BY <1>1, <1>3, <1>4, <1>5, <1>7 DEF FramesInv

\* What the office sends.
LEMMA OfficeSends ==
    ASSUME FramesInv, F!SendsWhole \/ F!SendsStart \/ F!SendsRest \/ F!SendsControl("ping") \/ F!SendsControl("close")
    PROVE  FramesInv'
<1>0. /\ flOffice \in OfficeRec /\ InOrder(flOffice)
      /\ flOffice.next \in 1 .. MaxMsg + 1 /\ flOffice.control \in 0 .. MaxControl
      /\ flOffice.half \in F!Msg \cup {0} /\ flOffice.sent \in Seq(F!Msg) /\ Len(flOffice.sent) \in Nat
      /\ MaxMsg \in Nat /\ MaxControl \in Nat
  BY FrameBounds DEF FramesInv, FrameTypes, OfficeRec
<1>1. CASE F!SendsWhole
  <2> DEFINE m == flOffice.next
  <2>1. /\ F!Up /\ flOffice.half = 0 /\ m <= MaxMsg /\ F!Sends("text", m)
        /\ flOffice' = [flOffice EXCEPT !.next = @ + 1, !.sent = Append(@, m)]
    BY <1>1 DEF F!SendsWhole
  <2>2. m \in F!Msg /\ m + 1 \in 1 .. MaxMsg + 1
    BY <1>0, <2>1 DEF F!Msg
  <2>3. Append(flOffice.sent, m) \in Seq(F!Msg) /\ Len(Append(flOffice.sent, m)) = Len(flOffice.sent) + 1
        /\ \A k \in 1 .. Len(flOffice.sent) : Append(flOffice.sent, m)[k] = flOffice.sent[k]
    BY <1>0, <2>2
  <2>4. /\ flOffice'.half = 0 /\ flOffice'.next = m + 1 /\ flOffice'.sent = Append(flOffice.sent, m)
        /\ flOffice' \in OfficeRec /\ Top(flOffice) = m
    BY <1>0, <2>1, <2>2, <2>3 DEF OfficeRec, Top
  <2>5. InOrder(flOffice')
    <3>1. Top(flOffice') = m + 1
      BY <2>4 DEF Top
    <3>2. ASSUME NEW k \in 1 .. Len(flOffice.sent) + 1
          PROVE  flOffice'.sent[k] = (m + 1) - (Len(flOffice.sent) + 1) + k - 1
      <4>1. CASE k \in 1 .. Len(flOffice.sent)
        <5>1. flOffice.sent[k] = m - Len(flOffice.sent) + k - 1
          BY <1>0, <2>4, <4>1 DEF InOrder
        <5>2. \A x, y, z \in Nat : (x + 1) - (y + 1) + z - 1 = x - y + z - 1
          OBVIOUS
        <5>3. flOffice'.sent[k] = flOffice.sent[k]
          BY <2>3, <2>4, <4>1
        <5>4. m \in Nat /\ Len(flOffice.sent) \in Nat /\ k \in Nat
          BY <1>0, <2>2 DEF F!Msg
        <5> QED BY <5>1, <5>2, <5>3, <5>4
      <4>2. CASE k = Len(flOffice.sent) + 1
        <5>1. flOffice'.sent[k] = m
          BY <1>0, <2>4, <4>2
        <5>2. \A x, y \in Nat : (x + 1) - (y + 1) + (y + 1) - 1 = x
          OBVIOUS
        <5>3. m \in Nat
          BY <1>0, <2>2 DEF F!Msg
        <5> QED BY <1>0, <4>2, <5>1, <5>2, <5>3
      <4> QED BY <1>0, <4>1, <4>2
    <3> QED BY <2>3, <2>4, <3>1, <3>2 DEF InOrder
  <2> HIDE DEF m
  <2> QED BY <2>1, <2>2, <2>4, <2>5, SendKeeps DEF Ends
<1>2. CASE F!SendsStart
  <2> DEFINE m == flOffice.next
  <2>1. /\ F!Up /\ flOffice.half = 0 /\ m <= MaxMsg /\ F!Sends("start", m)
        /\ flOffice' = [flOffice EXCEPT !.next = @ + 1, !.half = m]
    BY <1>2 DEF F!SendsStart
  <2>2. m \in F!Msg /\ m + 1 \in 1 .. MaxMsg + 1 /\ m # 0
    BY <1>0, <2>1 DEF F!Msg
  <2>4. /\ flOffice'.half = m /\ flOffice'.next = m + 1 /\ flOffice'.sent = flOffice.sent
        /\ flOffice' \in OfficeRec /\ Top(flOffice) = m /\ Top(flOffice') = m
    BY <1>0, <2>1, <2>2 DEF OfficeRec, Top
  <2>5. InOrder(flOffice')
    BY <1>0, <2>4 DEF InOrder
  <2> HIDE DEF m
  <2> QED BY <2>1, <2>2, <2>4, <2>5, SendKeeps DEF Ends
<1>3. CASE F!SendsRest
  <2> DEFINE m == flOffice.half
  <2>1. /\ F!Up /\ m # 0 /\ F!Sends("cont", m)
        /\ flOffice' = [flOffice EXCEPT !.half = 0, !.sent = Append(@, m)]
    BY <1>3 DEF F!SendsRest
  <2>2. m \in F!Msg /\ m \in Nat
    BY <1>0, <2>1 DEF F!Msg
  <2>3. Append(flOffice.sent, m) \in Seq(F!Msg) /\ Len(Append(flOffice.sent, m)) = Len(flOffice.sent) + 1
        /\ \A k \in 1 .. Len(flOffice.sent) : Append(flOffice.sent, m)[k] = flOffice.sent[k]
    BY <1>0, <2>2
  <2>4. /\ flOffice'.half = 0 /\ flOffice'.next = m + 1 /\ flOffice'.sent = Append(flOffice.sent, m)
        /\ flOffice' \in OfficeRec /\ Top(flOffice) = m
    BY <1>0, <2>1, <2>2, <2>3 DEF OfficeRec, Top, InOrder
  <2>5. InOrder(flOffice')
    <3>1. Top(flOffice') = m + 1
      BY <2>4 DEF Top
    <3>2. ASSUME NEW k \in 1 .. Len(flOffice.sent) + 1
          PROVE  flOffice'.sent[k] = (m + 1) - (Len(flOffice.sent) + 1) + k - 1
      <4>1. CASE k \in 1 .. Len(flOffice.sent)
        <5>1. flOffice.sent[k] = m - Len(flOffice.sent) + k - 1
          BY <1>0, <2>4, <4>1 DEF InOrder
        <5>2. \A x, y, z \in Nat : (x + 1) - (y + 1) + z - 1 = x - y + z - 1
          OBVIOUS
        <5>3. flOffice'.sent[k] = flOffice.sent[k]
          BY <2>3, <2>4, <4>1
        <5>4. m \in Nat /\ Len(flOffice.sent) \in Nat /\ k \in Nat
          BY <1>0, <2>2 DEF F!Msg
        <5> QED BY <5>1, <5>2, <5>3, <5>4
      <4>2. CASE k = Len(flOffice.sent) + 1
        <5>1. flOffice'.sent[k] = m
          BY <1>0, <2>4, <4>2
        <5>2. \A x, y \in Nat : (x + 1) - (y + 1) + (y + 1) - 1 = x
          OBVIOUS
        <5>3. m \in Nat
          BY <1>0, <2>2 DEF F!Msg
        <5> QED BY <1>0, <4>2, <5>1, <5>2, <5>3
      <4> QED BY <1>0, <4>1, <4>2
    <3> QED BY <2>3, <2>4, <3>1, <3>2 DEF InOrder
  <2> HIDE DEF m
  <2>6. flOffice.half = m
    BY DEF m
  <2> QED BY <2>1, <2>2, <2>4, <2>5, <2>6, SendKeeps DEF Ends
<1>4. ASSUME NEW kind \in {"ping", "close"}, F!SendsControl(kind) PROVE FramesInv'
  <2>1. /\ F!Up /\ F!Sends(kind, 0) /\ flOffice.control < MaxControl
        /\ kind = "close" => flOffice.half = 0 /\ flConn.state = "open"
        /\ flOffice' = [flOffice EXCEPT !.control = @ + 1]
    BY <1>4 DEF F!SendsControl
  <2>2. flOffice.control + 1 \in 0 .. MaxControl
    BY <1>0, <2>1
  <2>4. /\ flOffice'.half = flOffice.half /\ flOffice'.next = flOffice.next /\ flOffice'.sent = flOffice.sent
        /\ flOffice' \in OfficeRec /\ Top(flOffice') = Top(flOffice)
    BY <1>0, <2>1, <2>2 DEF OfficeRec, Top
  <2>5. InOrder(flOffice')
    BY <1>0, <2>4 DEF InOrder
  <2> QED BY <2>1, <2>4, <2>5, SendKeeps DEF Ends
<1> QED BY <1>1, <1>2, <1>3, <1>4

\* The upgrade is answered.
LEMMA OpenedKeeps ==
    ASSUME FramesInv, NEW k \in 0 .. Len(flWire), F!Opened(k)
    PROVE  FramesInv'
<1> DEFINE u == SubSeq(flWire, 1, k)
<1> DEFINE v == SubSeq(flWire, k + 1, Len(flWire))
<1>0. /\ FrameTypes /\ InOrder(flOffice) /\ flWire \in Seq(Full) /\ flIn \in Reader /\ flIn.buffer \in Seq(Full)
      /\ flConn.state = "opening" /\ ~flConn.stale /\ flIn.got = <<>> /\ ~Closes(flWire)
      /\ Readable(flOffice, flIn, flWire)
      /\ flOffice' = flOffice /\ flClient' = flClient /\ flWire' = v
      /\ flConn' = [flConn EXCEPT !.state = "open", !.stale = k = 0 /\ flIn.buffer # <<>>]
  BY DEF FramesInv, FrameTypes, Reader, F!Opened, F!Up, Pipe
<1>1. u \in Seq(Full) /\ v \in Seq(Full) /\ u \o v = flWire /\ ~Closes(u) /\ (k = 0 => v = flWire)
  BY <1>0, Cut
<1> DEFINE stale == k = 0 /\ flIn.buffer # <<>>
<1>2. flConn'.state = "open" /\ flConn'.stale = stale /\ stale \in BOOLEAN
      /\ flConn' \in [state : {"down", "opening", "open"}, made : 0 .. MaxConn, stale : BOOLEAN]
  <2> HIDE DEF stale
  <2>1. stale \in BOOLEAN
    BY DEF stale
  <2>2. flConn' = [flConn EXCEPT !.state = "open", !.stale = stale]
    BY <1>0 DEF stale
  <2> QED BY <1>0, <2>1, <2>2 DEF FrameTypes
<1>3. CASE k = 0
  <2>1. flIn' = flIn
    BY <1>3 DEF F!Opened
  <2>2. flWire' = flWire
    BY <1>0, <1>1, <1>3
  <2>3. flClient.who = "loop" => flIn.buffer = <<>>
    BY <1>0 DEF FramesInv
  <2>4. flConn'.stale => flClient.who = "bridge"
    BY <1>0, <1>2, <1>3, <2>3 DEF FrameTypes
  <2>5. ~flConn'.stale => Readable(flOffice, flIn, flIn.buffer \o flWire)
    <3> SUFFICES ASSUME flIn.buffer = <<>> PROVE Readable(flOffice, flIn, flIn.buffer \o flWire)
      BY <1>2, <1>3
    <3>1. <<>> \o flWire = flWire
      BY <1>0, ConcatEmptySeq
    <3> QED BY <1>0, <3>1
  <2>6. FrameTypes'
    BY <1>0, <1>2, <2>1, <2>2 DEF FrameTypes
  <2> QED BY <1>0, <1>2, <2>1, <2>2, <2>4, <2>5, <2>6 DEF FramesInv, Pipe
<1>4. CASE k # 0
  <2> DEFINE in == [flIn EXCEPT !.buffer = u]
  <2> DEFINE st == F!ProcessBuffer(in)
  <2>1. flIn' = st.in
    BY <1>4 DEF F!Opened
  <2>2. in \in Reader /\ in.buffer = u /\ in.got = flIn.got /\ in.frag = flIn.frag
    BY <1>0, <1>1 DEF Reader
  <2>3. Good([open |-> TRUE, in |-> in], v)
    <3>1. Readable(flOffice, in, u \o v)
      BY <1>0, <1>1, <2>2 DEF Readable
    <3> HIDE DEF in
    <3> QED BY <1>1, <2>2, <3>1 DEF Good, Step
  <2>4. Good(st, v)
    BY <1>0, <1>1, <2>2, <2>3, BufferRead
  <2>5. st.open /\ st.in \in Reader /\ Readable(flOffice, st.in, st.in.buffer \o v)
    BY <1>0, <2>4 DEF Good, Step
  <2>6. FrameTypes'
    BY <1>0, <1>1, <1>2, <2>1, <2>5 DEF FrameTypes
  <2>7. ~flConn'.stale
    BY <1>2, <1>4
  <2> HIDE DEF st, v
  <2> QED BY <1>0, <1>2, <2>1, <2>5, <2>6, <2>7 DEF FramesInv, Pipe
<1> QED BY <1>3, <1>4

\* The office takes a lost connection's messages as gone.
LEMMA OfficeForgets ==
    ASSUME FrameTypes, InOrder(flOffice), flOffice' = [flOffice EXCEPT !.half = 0, !.sent = <<>>]
    PROVE  flOffice' \in OfficeRec /\ InOrder(flOffice') /\ flOffice'.sent = <<>> /\ flOffice'.half = 0
<1>1. <<>> \in Seq(F!Msg) /\ Len(<<>>) = 0
  OBVIOUS
<1>2. flOffice'.sent = <<>> /\ flOffice'.half = 0 /\ flOffice' \in OfficeRec
  BY <1>1 DEF FrameTypes, OfficeRec
<1> QED BY <1>1, <1>2 DEF InOrder

\* A chunk arrives.
LEMMA ChunkKeeps ==
    ASSUME FramesInv, NEW k \in 1 .. Len(flWire), F!Chunk(k)
    PROVE  FramesInv'
<1> DEFINE u == SubSeq(flWire, 1, k)
<1> DEFINE v == SubSeq(flWire, k + 1, Len(flWire))
<1> DEFINE in == [flIn EXCEPT !.buffer = @ \o u]
<1> DEFINE st == F!ProcessBuffer(in)
<1>0. /\ FrameTypes /\ InOrder(flOffice) /\ flWire \in Seq(Full) /\ flIn \in Reader /\ flIn.buffer \in Seq(Full)
      /\ flConn.state = "open" /\ flClient' = flClient
      /\ flConn \in [state : {"down", "opening", "open"}, made : 0 .. MaxConn, stale : BOOLEAN]
      /\ ~flConn.stale => Readable(flOffice, flIn, flIn.buffer \o flWire)
      /\ flConn.stale => flClient.who = "bridge"
  BY DEF FramesInv, FrameTypes, Reader, F!Chunk, F!Up, Pipe
<1>1. /\ v \in Seq(Full) /\ flIn.buffer \o u \in Seq(Full)
      /\ (flIn.buffer \o u) \o v = flIn.buffer \o flWire
  <2>1. k \in 0 .. Len(flWire)
    BY <1>0
  <2> QED BY <1>0, <2>1, Cut
<1>2. in \in Reader /\ in.buffer = flIn.buffer \o u /\ in.got = flIn.got /\ in.frag = flIn.frag
  BY <1>0, <1>1 DEF Reader
<1>3. Good([open |-> TRUE, in |-> in], v)
  <2>1. ~flConn.stale => Readable(flOffice, in, (flIn.buffer \o u) \o v)
    BY <1>0, <1>1, <1>2 DEF Readable
  <2> HIDE DEF in, v, u
  <2> QED BY <1>0, <1>2, <2>1 DEF Good, Step
<1>4. Good(st, v)
  BY <1>0, <1>1, <1>2, <1>3, BufferRead
<1>5. /\ st.in \in Reader /\ (~st.open /\ flClient.who = "loop" => st.in.buffer = <<>>)
      /\ st.open /\ ~flConn.stale => Readable(flOffice, st.in, st.in.buffer \o v)
  BY <1>4 DEF Good, Step
<1>6. CASE st.open
  <2>1. flIn' = st.in /\ flWire' = v /\ flConn' = flConn /\ flOffice' = flOffice
    BY <1>6 DEF F!Chunk
  <2> HIDE DEF st, v
  <2>2. FrameTypes'
    BY <1>0, <1>1, <1>5, <2>1 DEF FrameTypes
  <2> QED BY <1>0, <1>5, <1>6, <2>1, <2>2 DEF FramesInv, Pipe
<1>7. CASE ~st.open
  <2>1. /\ flIn' = F!Fresh(st.in) /\ flWire' = <<>> /\ flConn' = [flConn EXCEPT !.state = "down"]
        /\ flOffice' = [flOffice EXCEPT !.half = 0, !.sent = <<>>]
    BY <1>7 DEF F!Chunk
  <2> HIDE DEF st, v
  <2>2. flIn' \in Reader /\ flIn'.buffer = st.in.buffer /\ flIn'.got = <<>>
    <3>1. <<>> \in Seq(Received)
      OBVIOUS
    <3> QED BY <1>5, <2>1, <3>1 DEF F!Fresh, Reader
  <2>3. flOffice' \in OfficeRec /\ InOrder(flOffice') /\ flOffice'.sent = <<>> /\ flOffice'.half = 0
    BY <1>0, <2>1, OfficeForgets
  <2>4. flConn'.state = "down" /\ flConn'.stale = flConn.stale
        /\ flConn' \in [state : {"down", "opening", "open"}, made : 0 .. MaxConn, stale : BOOLEAN]
    BY <1>0, <2>1
  <2>5. FrameTypes'
    BY <1>0, <2>1, <2>2, <2>3, <2>4 DEF FrameTypes
  <2> QED BY <1>0, <1>5, <1>7, <2>1, <2>2, <2>3, <2>4, <2>5 DEF FramesInv, F!Up
<1> QED BY <1>6, <1>7

\* The connection is lost.
LEMMA DropsKeeps ==
    ASSUME FramesInv, F!Drops
    PROVE  FramesInv'
<1>0. /\ FrameTypes /\ InOrder(flOffice) /\ flIn \in Reader /\ flClient' = flClient
      /\ flConn \in [state : {"down", "opening", "open"}, made : 0 .. MaxConn, stale : BOOLEAN]
      /\ flConn.stale => flClient.who = "bridge"
      /\ flWire' = <<>> /\ flConn' = [flConn EXCEPT !.state = "down"]
      /\ flOffice' = [flOffice EXCEPT !.half = 0, !.sent = <<>>]
      /\ flIn' = F!Fresh(IF flClient.who = "loop" THEN [flIn EXCEPT !.buffer = <<>>] ELSE flIn)
  BY DEF FramesInv, FrameTypes, F!Drops
<1>1. flIn' \in Reader /\ flIn'.got = <<>> /\ (flClient.who = "loop" => flIn'.buffer = <<>>)
  <2>1. <<>> \in Seq(Received) /\ <<>> \in Seq(Full)
    OBVIOUS
  <2> DEFINE in == IF flClient.who = "loop" THEN [flIn EXCEPT !.buffer = <<>>] ELSE flIn
  <2>2. in \in Reader /\ (flClient.who = "loop" => in.buffer = <<>>)
    BY <1>0, <2>1 DEF Reader
  <2>3. flIn' = F!Fresh(in)
    BY <1>0
  <2> HIDE DEF in
  <2> QED BY <2>1, <2>2, <2>3 DEF F!Fresh, Reader
<1>2. flOffice' \in OfficeRec /\ InOrder(flOffice') /\ flOffice'.sent = <<>> /\ flOffice'.half = 0
  BY <1>0, OfficeForgets
<1>3. flConn'.state = "down" /\ flConn'.stale = flConn.stale
      /\ flConn' \in [state : {"down", "opening", "open"}, made : 0 .. MaxConn, stale : BOOLEAN]
  BY <1>0
<1>4. FrameTypes'
  BY <1>0, <1>1, <1>2, <1>3 DEF FrameTypes
<1> QED BY <1>0, <1>1, <1>2, <1>3, <1>4 DEF FramesInv, F!Up

\* Nothing is to come from an office that has sent nothing.
LEMMA NothingSent ==
    ASSUME NEW in, in.got = <<>>, flOffice.sent = <<>>, flOffice.half = 0, FrameTypes
    PROVE  Readable(flOffice, in, <<>>)
<1>1. <<>> \in Seq(OneFrame) /\ Len(<<>>) = 0 /\ 1 .. 0 = {}
  OBVIOUS
<1>2. Whole(<<>>, <<>>)
  BY <1>1 DEF Whole
<1>3. flOffice.next \in Nat /\ Top(flOffice) = flOffice.next
  BY FrameBounds DEF FrameTypes, OfficeRec, Top
<1>4. HandedSame(flOffice, in.got)
  BY <1>1 DEF HandedSame
<1>5. ToCome(flOffice, in.got, <<>>)
  <2>1. \A m \in F!Msg : ~(flOffice.next - (0 - 0) <= m /\ m < flOffice.next)
    BY <1>3, FrameBounds DEF F!Msg
  <2> QED BY <1>1, <1>3, <2>1 DEF ToCome
<1>6. Fragments(flOffice, in.frag, <<>>)
  BY <1>1 DEF Fragments
<1> QED BY <1>1, <1>2, <1>4, <1>5, <1>6 DEF Readable, Reads

\* A connection is tried.
LEMMA ConnectsKeeps ==
    ASSUME FramesInv, F!Connects
    PROVE  FramesInv'
<1>0. /\ FrameTypes /\ InOrder(flOffice) /\ flIn.got = <<>> /\ flWire = <<>> /\ flOffice.sent = <<>> /\ flOffice.half = 0
      /\ flConn' = [state |-> "opening", made |-> flConn.made + 1, stale |-> FALSE]
      /\ flConn.made < MaxConn /\ UNCHANGED <<flClient, flOffice, flWire, flIn>>
      /\ flClient.who = "loop" => flIn.buffer = <<>>
  BY DEF FramesInv, FrameTypes, F!Connects
<1>1. flConn' \in [state : {"down", "opening", "open"}, made : 0 .. MaxConn, stale : BOOLEAN]
  BY <1>0, FrameBounds DEF FrameTypes
<1>2. FrameTypes'
  BY <1>0, <1>1 DEF FrameTypes
<1>3. Readable(flOffice, flIn, <<>>)
  BY <1>0, NothingSent
<1>4. ~Closes(<<>>)
  BY DEF Closes
<1> QED BY <1>0, <1>2, <1>3, <1>4 DEF FramesInv, Pipe

\* At first there is no connection.
LEMMA FramesStart == F!FlInit => FramesInv
<1> SUFFICES ASSUME F!FlInit PROVE FramesInv
  OBVIOUS
<1>1. <<>> \in Seq(Full) /\ <<>> \in Seq(Received) /\ <<>> \in Seq(F!Msg) /\ Len(<<>>) = 0
  OBVIOUS
<1>2. FrameTypes
  BY <1>1, FrameBounds DEF F!FlInit, FrameTypes, OfficeRec, Reader
<1>3. InOrder(flOffice)
  BY <1>1 DEF F!FlInit, InOrder
<1> QED BY <1>2, <1>3 DEF F!FlInit, FramesInv, F!Up

\* Every step keeps the invariant.
LEMMA FramesStep == FramesInv /\ (F!FlNext \/ UNCHANGED fv) => FramesInv'
<1> SUFFICES ASSUME FramesInv, F!FlNext \/ UNCHANGED fv PROVE FramesInv'
  OBVIOUS
<1>1. CASE UNCHANGED fv
  BY <1>1 DEF fv, FramesInv, FrameTypes, Pipe, F!Up
<1>2. CASE F!Arrives
  <2>1. PICK k \in 0 .. Len(flWire) : F!Opened(k) \/ F!Chunk(k)
    BY <1>2 DEF F!Arrives
  <2>2. F!Chunk(k) => k \in 1 .. Len(flWire)
    BY DEF F!Chunk
  <2> QED BY <2>1, <2>2, OpenedKeeps, ChunkKeeps
<1> QED BY <1>1, <1>2, OfficeSends, DropsKeeps, ConnectsKeeps DEF F!FlNext

\* The invariant gives what the run checks.
LEMMA FramesSuffice == FramesInv => F!FlTypeOK /\ F!WholeAndInOrder
<1> SUFFICES ASSUME FramesInv PROVE F!FlTypeOK /\ F!WholeAndInOrder
  OBVIOUS
<1>1. FrameTypes
  BY DEF FramesInv
<1>2. F!FlTypeOK
  <2>1. Seq(Full) \subseteq Seq(F!Unit)
    <3>1. Full \subseteq F!Unit
      BY DEF Full
    <3> QED BY <3>1
  <2> QED BY <1>1, <2>1 DEF F!FlTypeOK, FrameTypes, OfficeRec, Reader, Received
<1>3. flConn.stale => flClient.who = "bridge"
  BY DEF FramesInv
<1>4. ASSUME ~flConn.stale
      PROVE  HandedSame(flOffice, flIn.got)
  <2>1. CASE F!Up
    BY <1>4, <2>1 DEF FramesInv, Readable, Reads
  <2>2. CASE ~F!Up
    <3>1. flIn.got = <<>> /\ Len(<<>>) = 0 /\ Len(flOffice.sent) \in Nat
      BY <1>1, <2>2 DEF FramesInv, F!Up, FrameTypes, OfficeRec
    <3> QED BY <3>1 DEF HandedSame
  <2> QED BY <2>1, <2>2
<1>5. ASSUME HandedSame(flOffice, flIn.got)
      PROVE  /\ \A i \in 1 .. Len(flIn.got) : flIn.got[i].first = flIn.got[i].last
             /\ F!IsPrefix(F!Handed, flOffice.sent)
  <2> DEFINE n == Len(flIn.got)
  <2> DEFINE s == flOffice.sent
  <2>0. n \in Nat /\ s \in Seq(F!Msg) /\ Len(s) \in Nat /\ n <= Len(s)
    BY <1>1, <1>5 DEF FrameTypes, OfficeRec, Reader, HandedSame
  <2>1. F!Handed = [i \in 1 .. n |-> s[i]]
    BY <1>5 DEF F!Handed, HandedSame
  <2>2. F!Handed \in Seq(F!Msg) /\ Len(F!Handed) = n /\ \A i \in 1 .. n : F!Handed[i] = s[i]
    BY <2>0, <2>1
  <2> QED BY <1>5, <2>0, <2>2 DEF F!IsPrefix, HandedSame
<1> QED BY <1>2, <1>3, <1>4, <1>5 DEF F!WholeAndInOrder

\* On a connection that starts on an empty buffer a client hands on what the office sent,
\* whole and in order, wherever the chunks are cut and connections end; only the bridge
\* ever starts on leftover bytes.
THEOREM FramesCorrect == MCSpec => []FramesHold
<1>1. MCInit => FramesInv
  BY FramesStart DEF MCInit
<1>2. FramesInv /\ [MCNext]_<<part, ov, fv, cv>> => FramesInv'
  <2>1. [MCNext]_<<part, ov, fv, cv>> => F!FlNext \/ UNCHANGED fv
    BY DEF MCNext
  <2> QED BY <2>1, FramesStep
<1>3. FramesInv => FramesHold
  BY FramesSuffice DEF FramesHold
<1> QED BY <1>1, <1>2, <1>3, PTL DEF MCSpec

\* Both at once, as the run checks them.
THEOREM ReadersCorrect == MCSpec => []ReadersHold
BY CallsCorrect, FramesCorrect, PTL DEF ReadersHold
=============================================================================
