---------------------------- MODULE InstantSteer ----------------------------
(***************************************************************************)
(* An instant steer on its way to an agent without a durable queue:        *)
(* _handleSteer and _drainPendingSteers of taskLoop.ts.                    *)
(*                                                                         *)
(* While a turn runs, the steer is written into it where the provider can  *)
(* take it ("types": claude-tui, copilot, opencode, grok-tui, awaited;     *)
(* "prompts": grok-acp, at once).  Otherwise it waits in memory for the    *)
(* next turn boundary, where it becomes a task of TODO.md.  The office     *)
(* keeps what was not acknowledged and sends it again after a              *)
(* reconnection.                                                           *)
(***************************************************************************)
EXTENDS Integers, Sequences, FiniteSets, SequencesExt

CONSTANTS
    IsSteer,
    IsMaxFaults,    \* bound: kills, reconnections, failed appends, dead agents
    IsMaxTurn       \* bound: turns that have nothing to do with a steer

VARIABLES
    isKind,         \* what the provider does with a steer
    isTwins,        \* steers with one and the same text
    (* TaskLoopRunner *)
    isTurn,         \* _currentTask, and the drain before it
    isBuffer,       \* _pendingSteers
    isBatch,        \* what the drain has taken out of it and not appended yet
    isTyping,       \* awaited injections of a steer
    (* outside *)
    isSent, isWire, \* steers of the office, and the frames on their way
    isSeen,         \* acknowledged: _seenTaskIds, kept on disk
    (* history *)
    isGiven,        \* how often a steer became a task or part of a turn
    isFrames,       \* how often a frame of it was handled
    isEarly,        \* acknowledged as a replay of what is only in memory
    isGone,         \* of these, what a kill has taken
    isFaults, isTurns

isLoop == <<isTurn, isBuffer, isBatch, isTyping, isTurns>>
isOffice == <<isSent, isWire, isSeen>>
isHistory == <<isGiven, isFrames, isEarly, isGone>>
isFixed == <<isKind, isTwins>>
isVars == <<isFixed, isLoop, isOffice, isHistory, isFaults>>

\* Those _acpSteerKind knows nothing of; the others have DurableSteer.
Kinds == {"types", "prompts", "waits"}

IsInit ==
    /\ isKind \in Kinds /\ isTwins \in {{}, IsSteer}
    /\ isTurn = "idle" /\ isBuffer = <<>> /\ isBatch = <<>>
    /\ isTyping = [s \in IsSteer |-> 0]
    /\ isSent = {} /\ isWire = {} /\ isSeen = {}
    /\ isGiven = [s \in IsSteer |-> 0] /\ isFrames = [s \in IsSteer |-> 0]
    /\ isEarly = {} /\ isGone = {} /\ isFaults = IsMaxFaults /\ isTurns = 0

IsFault == isFaults > 0 /\ isFaults' = isFaults - 1

Same(s, t) == s = t \/ {s, t} \subseteq isTwins

\* onDelivered, _markSeenDelivery.
Acked(s) == isSeen' = isSeen \cup {s}
Gives(s) == isGiven' = [isGiven EXCEPT ![s] = @ + 1]

-----------------------------------------------------------------------------
(* The frame and the route it takes. *)

IsSend(s) ==
    /\ s \notin isSent
    /\ isSent' = isSent \cup {s} /\ isWire' = isWire \cup {s}
    /\ UNCHANGED <<isFixed, isLoop, isSeen, isHistory, isFaults>>

\* The steer waits for the boundary.  The same text waiting there already is
\* taken for a replay, and acknowledged.
Buffered(s) ==
    IF \E i \in DOMAIN isBuffer : Same(isBuffer[i], s)
    THEN Acked(s) /\ isEarly' = isEarly \cup {s} /\ UNCHANGED isBuffer
    ELSE isBuffer' = Append(isBuffer, s) /\ UNCHANGED <<isSeen, isEarly>>

Takes(kind) == isKind = kind /\ isTurn = "running"

Receive(s) ==
    /\ s \in isWire
    /\ isWire' = isWire \ {s}
    /\ \/ /\ s \in isSeen
          /\ UNCHANGED <<isBuffer, isTyping, isSeen, isGiven, isFrames, isEarly, isFaults>>
       \/ /\ s \notin isSeen
          /\ isFrames' = [isFrames EXCEPT ![s] = @ + 1]
          /\ \/ /\ Takes("types")
                /\ isTyping' = [isTyping EXCEPT ![s] = @ + 1]
                /\ UNCHANGED <<isBuffer, isSeen, isGiven, isEarly, isFaults>>
             \/ /\ Takes("prompts")
                /\ Acked(s) /\ Gives(s)
                /\ UNCHANGED <<isBuffer, isTyping, isEarly, isFaults>>
             \/ /\ Takes("prompts") /\ IsFault       \* the process is dead
                /\ Buffered(s)
                /\ UNCHANGED <<isTyping, isGiven>>
             \/ /\ ~Takes("types") /\ ~Takes("prompts")
                /\ Buffered(s)
                /\ UNCHANGED <<isTyping, isGiven, isFaults>>
    /\ UNCHANGED <<isFixed, isTurn, isBatch, isTurns, isSent, isGone>>

Refused(s) == Buffered(s)

\* The write into the running turn has come to its end.  One that was refused
\* (the child is dead, the turn has ended) waits for the boundary.
Typed(s) ==
    /\ isTyping[s] > 0
    /\ isTyping' = [isTyping EXCEPT ![s] = @ - 1]
    /\ \/ Acked(s) /\ Gives(s) /\ UNCHANGED <<isBuffer, isEarly, isFaults>>
       \/ /\ IF isTurn = "running" THEN IsFault ELSE UNCHANGED isFaults
          /\ Refused(s) /\ UNCHANGED isGiven
    /\ UNCHANGED <<isFixed, isTurn, isBatch, isTurns, isSent, isWire, isFrames, isGone>>

-----------------------------------------------------------------------------
(* The turn boundary. *)

Taken == <<>>

Boundary ==
    /\ isTurn = "idle"
    /\ \/ isBuffer # <<>> /\ UNCHANGED isTurns
       \/ isBuffer = <<>> /\ isTurns < IsMaxTurn /\ isTurns' = isTurns + 1
    /\ isTurn' = "draining"
    /\ isBatch' = isBuffer /\ isBuffer' = Taken
    /\ UNCHANGED <<isFixed, isTyping, isOffice, isHistory, isFaults>>

PutBack(s) == isBuffer' = Append(isBuffer, s)

\* todoWriter.append for the next of the batch; other frames may be handled
\* before it comes back.
Appended ==
    /\ isTurn = "draining" /\ isBatch # <<>>
    /\ isBatch' = Tail(isBatch)
    /\ \/ /\ Acked(Head(isBatch)) /\ Gives(Head(isBatch))
          /\ UNCHANGED <<isBuffer, isFaults>>
       \/ /\ IsFault
          /\ PutBack(Head(isBatch))
          /\ UNCHANGED <<isSeen, isGiven>>
    /\ UNCHANGED <<isFixed, isTurn, isTyping, isTurns, isSent, isWire, isFrames, isEarly, isGone>>

\* The drain is over and the next task is run.
TurnStarts ==
    /\ isTurn = "draining" /\ isBatch = <<>>
    /\ isTurn' = "running"
    /\ UNCHANGED <<isFixed, isBuffer, isBatch, isTyping, isTurns, isOffice, isHistory, isFaults>>

TurnEnds ==
    /\ isTurn = "running"
    /\ isTurn' = "idle"
    /\ UNCHANGED <<isFixed, isBuffer, isBatch, isTyping, isTurns, isOffice, isHistory, isFaults>>

-----------------------------------------------------------------------------
(* The connection and the process. *)

Unacked == isSent \ isSeen

Reconnects ==
    /\ IsFault
    /\ isWire' = Unacked
    /\ UNCHANGED <<isFixed, isLoop, isSent, isSeen, isHistory>>

Reached(s) == \E t \in IsSteer : Same(s, t) /\ isGiven[t] > 0

Killed ==
    /\ IsFault
    /\ isTurn' = "idle" /\ isBuffer' = <<>> /\ isBatch' = <<>>
    /\ isTyping' = [s \in IsSteer |-> 0]
    /\ isWire' = Unacked
    /\ isGone' = isGone \cup {s \in isEarly : ~Reached(s)}
    /\ UNCHANGED <<isFixed, isTurns, isSent, isSeen, isGiven, isFrames, isEarly>>

IsNext ==
    \/ Boundary \/ Appended \/ TurnStarts \/ TurnEnds \/ Reconnects \/ Killed
    \/ \E s \in IsSteer : IsSend(s) \/ Receive(s) \/ Typed(s)

IsSpec == IsInit /\ [][IsNext]_isVars

\* Frames arrive, writes come back, the loop comes to its boundary, the drain
\* goes on and a turn ends.
IsProgress == Boundary \/ Appended \/ TurnStarts \/ TurnEnds
IsArrives(s) == Receive(s) \/ Typed(s)
IsFairness == WF_isVars(IsProgress) /\ \A s \in IsSteer : WF_isVars(IsArrives(s))

IsFairSpec == IsSpec /\ IsFairness

-----------------------------------------------------------------------------
IsTypeOK ==
    /\ isKind \in Kinds /\ isTwins \subseteq IsSteer
    /\ isTurn \in {"idle", "draining", "running"}
    /\ isBuffer \in Seq(IsSteer) /\ isBatch \in Seq(IsSteer)
    /\ isTyping \in [IsSteer -> Nat]
    /\ isWire \subseteq isSent /\ isSeen \subseteq isSent /\ isSent \subseteq IsSteer
    /\ isGiven \in [IsSteer -> Nat] /\ isFrames \in [IsSteer -> Nat]
    /\ isGone \subseteq isEarly /\ isEarly \subseteq isSeen
    /\ isFaults \in 0..IsMaxFaults /\ isTurns \in 0..IsMaxTurn
    /\ isBatch # <<>> => isTurn = "draining"

InMemory(s) ==
    \E t \in IsSteer : Same(s, t) /\ (isTyping[t] > 0 \/ t \in ToSet(isBuffer \o isBatch))

(* A steer the office does not send again has its text in a turn or in     *)
(* TODO.md, or waits in memory on its way there; only a kill may come      *)
(* between the two (_handleSteer, _drainPendingSteers).                    *)
AckedIsHeld == \A s \in isSeen \ isGone : Reached(s) \/ InMemory(s)

\* How often a steer waits there.
Waiting(queue, s) == Cardinality({i \in DOMAIN queue : queue[i] = s})

(* One frame makes at most one task or one injection of a steer, whatever  *)
(* is refused, put back or replayed on the way.                            *)
OncePerFrame ==
    \A s \in IsSteer :
        isGiven[s] + isTyping[s] + Waiting(isBuffer, s) + Waiting(isBatch, s) <= isFrames[s]

(* Every steer reaches the agent or TODO.md, unless it was lost in a kill  *)
(* after the office had been told that it has arrived.                     *)
SteerArrives == \A s \in IsSteer : s \in isSent ~> (Reached(s) \/ s \in isGone)

=============================================================================
