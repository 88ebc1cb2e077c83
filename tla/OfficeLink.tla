----------------------------- MODULE OfficeLink -----------------------------
(***************************************************************************)
(* What the office is shown about the agent.                               *)
(*                                                                         *)
(* TaskLoopRunner announces what it does (_notifyWebhook) over the same    *)
(* WebSocket that brings the tasks.  WebSocketPoller queues what it cannot *)
(* send, reconnects after a lost, rejected or silent connection, flushes   *)
(* the queue and calls onConnect, where the loop says again how it stands. *)
(*                                                                         *)
(* The badge of the office is the last status frame it has read.  The loop *)
(* is reduced to what it announces; TaskLoop models what it does.  Every   *)
(* step from a notification to the next await that gives up the thread is  *)
(* one action: a socket event cannot come in between.                      *)
(***************************************************************************)
EXTENDS Integers, Sequences

CONSTANTS
    MaxPending,     \* frames queued without a connection (MAX_PENDING_FRAMES)
    MaxWire,        \* bound: frames under way when the loop sends another
    MaxFaults       \* bound: lost, silent and rejected connections

ASSUME LinkAssumption ==
    /\ MaxPending \in Nat \ {0}
    /\ MaxWire \in Nat \ {0}
    /\ MaxFaults \in Nat

VARIABLES
    (* TaskLoopRunner *)
    state,          \* _state
    pc,             \* where the body is: picking a task or in a turn
    turn,           \* _currentTask: none, or announced to the office or not
    allDone,        \* the body's local variable allTasksDoneNotified
    idleNotified,   \* _idleNotified, which outlives a run of the body
    (* WebSocketPoller *)
    sock,           \* the connection; "silent": dead, and nobody has noticed
    timer,          \* _reconnectTimer
    destroyed,      \* _destroyed
    pending,        \* _pendingFrames
    (* outside *)
    wire,           \* frames written to the socket that the office has not read
    shown,          \* the badge
    faults

body == <<state, pc, turn, allDone, idleNotified>>
conn == <<sock, timer, destroyed>>
vars == <<body, conn, pending, wire, shown, faults>>

Status == {"online", "working", "idle", "alert", "offline"}

Init ==
    /\ state = "idle" /\ pc = "pick" /\ turn = "none"
    /\ allDone = "no" /\ idleNotified = "no"
    /\ sock = "none" /\ timer = "off" /\ destroyed = "no"
    /\ pending = <<>> /\ wire = <<>>
    /\ shown = "offline"
    /\ faults = MaxFaults

-----------------------------------------------------------------------------
(* Sending. *)

\* The oldest frame makes room.
Queued(q, f) == Append(IF Len(q) >= MaxPending THEN Tail(q) ELSE q, f)

\* sendFrame.
Send(f) ==
    \/ /\ sock = "open" /\ Len(wire) < MaxWire
       /\ wire' = Append(wire, f)
       /\ UNCHANGED pending
    \/ sock = "silent" /\ UNCHANGED <<wire, pending>>
    \/ /\ sock \in {"none", "opening"}
       /\ pending' = Queued(pending, f)
       /\ UNCHANGED wire

Quiet == UNCHANGED <<wire, pending>>

-----------------------------------------------------------------------------
(* The body of the loop. *)

\* start(): a new poller connects, and the first frames wait for it.
Start ==
    /\ state = "idle"
    /\ state' = "running" /\ pc' = "pick" /\ turn' = "none" /\ allDone' = "no"
    /\ sock' = "opening" /\ timer' = "off" /\ destroyed' = "no"
    /\ pending' = <<"online">>
    /\ UNCHANGED <<idleNotified, wire, shown, faults>>

Picking == state = "running" /\ pc = "pick"

\* A task is sent, or one the provider is working on is watched for the first
\* time.
Dispatch ==
    /\ Picking
    /\ pc' = "turn" /\ turn' = "announced"
    /\ allDone' = "no" /\ idleNotified' = "no"
    /\ Send("working")
    /\ UNCHANGED <<state, conn, shown, faults>>

\* The task the body had before is watched again: nothing is announced.
WatchAgain ==
    /\ Picking /\ turn # "none"
    /\ pc' = "turn" /\ allDone' = "no"
    /\ Quiet /\ UNCHANGED <<state, turn, idleNotified, conn, shown, faults>>

\* A task with no attempts left is ticked by the loop.
ForceMark ==
    /\ Picking
    /\ allDone' = "no"
    /\ Quiet /\ UNCHANGED <<state, pc, turn, idleNotified, conn, shown, faults>>

\* Nothing is open: say so once.
NothingOpen ==
    /\ Picking
    /\ turn' = "none" /\ allDone' = "yes"
    /\ \/ allDone = "no" /\ idleNotified' = "yes" /\ Send("idle")
       \/ allDone = "yes" /\ UNCHANGED idleNotified /\ Quiet
    /\ UNCHANGED <<state, pc, conn, shown, faults>>

\* Tasks are open but none can be picked: sleep without a word.
NothingToPick ==
    /\ Picking
    /\ turn' = "none"
    /\ Quiet /\ UNCHANGED <<state, pc, allDone, idleNotified, conn, shown, faults>>

InTurn == state = "running" /\ pc = "turn"

\* The turn is over, well or not; task_progress counts as work.
EndTurn ==
    /\ InTurn
    /\ pc' = "pick" /\ turn' = "none"
    /\ Send("working") \/ Quiet
    /\ UNCHANGED <<state, allDone, idleNotified, conn, shown, faults>>

\* The session was compacted or cleared: the task is picked again.
Compacted ==
    /\ InTurn
    /\ pc' = "pick"
    /\ Quiet /\ UNCHANGED <<state, turn, allDone, idleNotified, conn, shown, faults>>

\* A throttle with a fallback provider.
Fallback ==
    /\ InTurn
    /\ pc' = "pick" /\ turn' = "unannounced"
    /\ Send("alert")
    /\ UNCHANGED <<state, allDone, idleNotified, conn, shown, faults>>

\* A throttle, a lost login or a full context.
Pause ==
    /\ InTurn
    /\ state' = "paused" /\ pc' = "pick" /\ turn' = "unannounced"
    /\ Send("alert")
    /\ UNCHANGED <<allDone, idleNotified, conn, shown, faults>>

\* retry(), by the operator or the timer: not a word until the next dispatch.
Retry ==
    /\ state = "paused"
    /\ state' = "running"
    /\ Quiet /\ UNCHANGED <<pc, turn, allDone, idleNotified, conn, shown, faults>>

\* destroy(); a frame written before may or may not be read.
Destroy ==
    /\ sock' = "none" /\ timer' = "off" /\ destroyed' = "yes"
    /\ wire' \in {wire, <<>>}

\* stop(): the poller is destroyed before agent_offline is sent to it.
Stop ==
    /\ state \in {"running", "paused"}
    /\ state' = "stopping"
    /\ Destroy
    /\ pending' = Queued(pending, "offline")
    /\ UNCHANGED <<pc, turn, allDone, idleNotified, shown, faults>>

\* The body has returned after a stop: its frames are queued and thrown away
\* with the poller.
StoppedBody ==
    /\ state = "stopping"
    /\ state' = "idle" /\ turn' = "none"
    /\ pending' = <<>>
    /\ UNCHANGED <<pc, allDone, idleNotified, conn, wire, shown, faults>>

\* The body threw: agent_offline is sent and the connection closed after it.
FailedBody ==
    /\ state = "running"
    /\ state' = "idle" /\ turn' = "none"
    /\ sock' = "none" /\ timer' = "off" /\ destroyed' = "yes"
    /\ pending' = <<>>
    /\ wire' \in {wire, <<>>} \cup (IF sock = "open" THEN {Append(wire, "offline")} ELSE {})
    /\ UNCHANGED <<pc, allDone, idleNotified, shown, faults>>

-----------------------------------------------------------------------------
(* The connection. *)

\* The re-sync of a running loop.
Resync ==
    IF turn # "none" THEN <<"online", "working">>
    ELSE IF idleNotified = "yes" THEN <<"online", "idle">>
    ELSE <<"online">>

\* onConnect without a look at the pause.
ReassertedNow == Resync

\* onConnect.
Reasserted ==
    IF state = "paused" THEN <<"alert">>
    ELSE IF state = "running" THEN Resync
    ELSE <<"offline">>

\* 101 Switching Protocols: flush, then onConnect.  What the connection of an
\* earlier run had under way has arrived or is lost by then.
Handshake ==
    /\ sock = "opening" /\ wire = <<>>
    /\ sock' = "open"
    /\ wire' = pending \o Reasserted
    /\ pending' = <<>>
    /\ turn' = IF state = "running" /\ turn # "none" THEN "announced" ELSE turn
    /\ UNCHANGED <<state, pc, allDone, idleNotified, timer, destroyed, shown, faults>>

\* The connection is given up without another one being scheduled.
GivenUp ==
    /\ sock' = "none"
    /\ UNCHANGED <<timer, destroyed, pending>>

\* _scheduleReconnect.
ScheduleReconnect ==
    /\ sock' = "none"
    /\ timer' = IF destroyed = "yes" THEN "off" ELSE "on"
    /\ UNCHANGED <<destroyed, pending>>

\* error or close, before or after the handshake; a rejected upgrade.
LinkLost ==
    /\ sock # "none" /\ faults > 0
    /\ faults' = faults - 1
    /\ wire' = <<>>
    /\ ScheduleReconnect
    /\ UNCHANGED <<body, shown>>

\* A proxy drops the connection and neither end is told.
GoesSilent ==
    /\ sock = "open" /\ faults > 0
    /\ faults' = faults - 1
    /\ sock' = "silent"
    /\ wire' = <<>>
    /\ UNCHANGED <<body, timer, destroyed, pending, shown>>

\* No pong for PONG_GRACE_MS.
Heartbeat ==
    /\ sock = "silent"
    /\ ScheduleReconnect
    /\ UNCHANGED <<body, wire, shown, faults>>

TimerFires ==
    /\ timer = "on"
    /\ timer' = "off"
    /\ sock' = IF destroyed = "yes" THEN sock ELSE "opening"
    /\ UNCHANGED <<body, destroyed, pending, wire, shown, faults>>

\* The office reads a frame.
Deliver ==
    /\ wire # <<>>
    /\ shown' = Head(wire)
    /\ wire' = Tail(wire)
    /\ UNCHANGED <<body, conn, pending, faults>>

-----------------------------------------------------------------------------
LoopNext ==
    \/ Start \/ Stop \/ StoppedBody \/ FailedBody
    \/ Dispatch \/ WatchAgain \/ ForceMark \/ NothingOpen \/ NothingToPick
    \/ EndTurn \/ Compacted \/ Fallback \/ Pause \/ Retry

LinkNext == Handshake \/ LinkLost \/ GoesSilent \/ Heartbeat \/ TimerFires \/ Deliver

Next == LoopNext \/ LinkNext

Spec == Init /\ [][Next]_vars

\* The upgrade request is answered in the end, the timers fire, and what is on
\* a live connection arrives.  The loop itself may do anything or nothing.
FairSpec ==
    /\ Spec
    /\ WF_vars(Handshake) /\ WF_vars(Heartbeat)
    /\ WF_vars(TimerFires) /\ WF_vars(Deliver)

-----------------------------------------------------------------------------
\* The badge the loop has announced; "any" where it has announced nothing.
Due ==
    CASE state = "paused" -> "alert"
      [] state = "running" /\ turn = "announced" -> "working"
      [] state = "running" /\ turn = "none" /\ allDone = "yes" -> "idle"
      [] OTHER -> "any"

\* Every variable has its type, the queue of frames stays within its bound, a
\* reconnection is scheduled only without a connection, and nothing the
\* announcements rest on is left over: an idle announcement never outlives
\* the announcement of work (webSocketPoller.ts, sendFrame and
\* _scheduleReconnect; taskLoop.ts, _idleNotified).
TypeOK ==
    /\ state \in {"idle", "running", "paused", "stopping"}
    /\ pc \in {"pick", "turn"}
    /\ turn \in {"none", "announced", "unannounced"}
    /\ allDone \in {"no", "yes"} /\ idleNotified \in {"no", "yes"}
    /\ sock \in {"none", "opening", "open", "silent"}
    /\ timer \in {"off", "on"} /\ destroyed \in {"no", "yes"}
    /\ pending \in Seq(Status) /\ Len(pending) <= MaxPending
    /\ wire \in Seq(Status)
    /\ shown \in Status
    /\ faults \in 0..MaxFaults
    /\ timer = "on" => sock = "none"
    /\ allDone = "yes" /\ turn = "none" /\ state = "running" => idleNotified = "yes"

\* Once the office has read everything on a live connection its badge is what
\* the loop has announced, whatever was lost, queued, dropped from the queue
\* or replayed before: a paused agent is never shown at work, nor an idle one
\* (taskLoop.ts, onConnect).
BadgeIsTrue ==
    sock = "open" /\ wire = <<>> => Due \in {"any", shown}

\* While a run lasts the poller never gives up: it is connected, connecting or
\* about to, so that tasks and badges can still get through
\* (webSocketPoller.ts, _scheduleReconnect).
NeverStranded ==
    state \in {"running", "paused"} => sock # "none" \/ timer = "on"

\* The office gets to show every announcement that stands long enough, after
\* lost and silent connections too.
BadgeComesTrue == \A s \in Status : (Due = s) ~> (shown = s \/ Due # s)

\* The link as a whole, in the parts above.
LinkHolds == TypeOK /\ NeverStranded
=============================================================================
