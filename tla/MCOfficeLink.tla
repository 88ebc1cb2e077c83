---------------------------- MODULE MCOfficeLink ----------------------------
(***************************************************************************)
(* For TLC: what reaches the office and what comes from it.  The badge of   *)
(* the loop (OfficeLink), the two readers of frames (FrameLink) and the     *)
(* calls a bridge serves (OperateCalls).  The parts share no state: a       *)
(* behaviour is one of one part, and the others stay where they started.    *)
(***************************************************************************)
EXTENDS OfficeLink, FiniteSets

CONSTANTS
    MaxMsg, MaxControl, MaxConn,
    Call, Client, CallId, Frame, Task, EventCap, MaxCalls, CallFaults

ASSUME CallNames == "none" \notin Call \cup Client \cup Task
ASSUME CallBounds ==
    /\ Client # {} /\ CallId # {} /\ CallId \subseteq Nat \ {0}
    /\ EventCap \in Nat \ {0} /\ MaxCalls \in Nat /\ CallFaults \in Nat
ASSUME FrameBounds == MaxMsg \in Nat /\ MaxControl \in Nat /\ MaxConn \in Nat

VARIABLES
    part,
    flClient, flConn, flOffice, flWire, flIn,
    mode, link, call, frame, wsPending, startedTasks, office, events, eventWaiter,
    life, odd, untold, again, made, callFaults

F == INSTANCE FrameLink
C == INSTANCE OperateCalls WITH MaxFaults <- CallFaults, faults <- callFaults

ov == <<state, pc, turn, allDone, idleNotified, sock, timer, destroyed, pending, wire,
        shown, faults>>
fv == <<flClient, flConn, flOffice, flWire, flIn>>
cv == <<mode, link, call, frame, wsPending, startedTasks, office, events, eventWaiter,
        life, odd, untold, again, made, callFaults>>

MCInit ==
    /\ part \in {"badge", "frames", "calls"}
    /\ Init /\ F!FlInit /\ C!Init
    /\ part # "frames" => flClient = [who |-> "loop", misread |-> "junk"]
    /\ part # "calls" => mode = "stdio"

MCNext ==
    \/ part = "badge" /\ Next /\ UNCHANGED <<part, fv, cv>>
    \/ part = "frames" /\ F!FlNext /\ UNCHANGED <<part, ov, cv>>
    \/ part = "calls" /\ C!Next /\ UNCHANGED <<part, ov, fv>>

\* The fairness each part states, for the part that is looked at.
MCFairness ==
    /\ WF_ov(part = "badge" /\ Handshake) /\ WF_ov(part = "badge" /\ Heartbeat)
    /\ WF_ov(part = "badge" /\ TimerFires) /\ WF_ov(part = "badge" /\ Deliver)
    /\ WF_fv(part = "frames" /\ F!Arrives)
    /\ \A s \in Call : WF_cv(part = "calls" /\ C!Timer(s))

MCSpec == MCInit /\ [][MCNext]_<<part, ov, fv, cv>> /\ MCFairness

-----------------------------------------------------------------------------
(* Properties: those of the parts, stated and explained where they are      *)
(* defined.                                                                 *)

\* On a connection that starts on an empty buffer a client hands on what the
\* office sent, whole and in order (webSocketPoller.ts, officeSocket.ts).
FramesHold == F!FlTypeOK /\ F!WholeAndInOrder

\* A bridge gives no call another's answer, forgets no task the office has in
\* progress, completes none twice and wakes who waits, but for what happened
\* out of the ordinary (mcpOperate.ts).
CallsHold == C!TypeOK /\ C!OneClientNoMix /\ C!NoTaskForgotten /\ C!CompletesOpenTasks /\ C!EventsWake

\* The other readers and writers of that link, in the parts above.
ReadersHold == FramesHold /\ CallsHold

\* What each part owes: the badge of each announcement, a message that was
\* sent, the end of the calls under way.
Badge == <<"alert", "working", "idle">>

Owed(i) ==
    CASE part = "badge" -> Due = Badge[i]
      [] part = "frames" -> i # 3 /\ F!Sent(i)
      [] part = "calls" -> i = 1 /\ C!Busy # {}

Paid(i) ==
    CASE part = "badge" -> shown = Badge[i] \/ Due # Badge[i]
      [] part = "frames" -> i = 3 \/ F!TakenUp(i)
      [] part = "calls" -> C!Quiet

\* The office gets to show each announcement that stands long enough, a message
\* is handed on while its connection lasts, and every call of a bridge ends:
\* BadgeComesTrue, F!HandedOn and C!CallsEnd.
AllEnds == \A i \in 1..3 : Owed(i) ~> Paid(i)
=============================================================================
