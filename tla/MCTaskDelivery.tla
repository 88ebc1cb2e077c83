--------------------------- MODULE MCTaskDelivery ---------------------------
(***************************************************************************)
(* For TLC: the delivery of office tasks (TaskDelivery), and what becomes   *)
(* of other work that reaches the loop: messages of the other pollers,      *)
(* instant steers, the tasks of a loop that no fault befalls, and the       *)
(* verify gate.  The parts share no state: a behaviour is one of one part,  *)
(* and the others stay where they started.                                  *)
(***************************************************************************)
EXTENDS TaskDelivery

CONSTANTS
    MaxMsg, MaxCopies, PollFaults, Poll,
    IsSteer, IsMaxFaults, IsMaxTurn,
    N, MaxAttempts, MaxStrand, MaxRetries, MaxNoProgress, Kind, CanSwitch, Faults,
    VgTask, VgMaxTries, VgMaxFaults

\* Bounds are numbers.
ASSUME WorkBounds ==
    {MaxMsg, MaxCopies, PollFaults, IsMaxFaults, IsMaxTurn, VgTask, VgMaxTries, VgMaxFaults} \subseteq Nat

VARIABLES
    part,
    source, sent, what, told, patch, cursor, etag, queue, poll, life, effect, trouble,
    pollFaults,
    isKind, isTwins, isTurn, isBuffer, isBatch, isTyping, isSent, isWire, isSeen,
    isGiven, isFrames, isEarly, isGone, isFaults, isTurns,
    state, pc, task, wait, attempts, strand, hardFail, noProgress, blocked,
    pendingRetry, compacted, launched, timer, pauseReason, abort, leftover, provider,
    savedMain, mark, agentRuns, exitFile, report, swept, before,
    item, step, cur, tries, snap, hint, store, head, work, staged, edited, verdict,
    kept, amiss, vgFaults

P == INSTANCE InboundPollers WITH MaxFaults <- PollFaults, faults <- pollFaults, mark <- told
I == INSTANCE InstantSteer
L == INSTANCE TaskLoop WITH agent <- agentRuns
V == INSTANCE VerifyGate WITH faults <- vgFaults

dv == <<todo, view, age, rested, tracked, seen, inflight, delivered, finished, link,
        faults, restarted>>
pv == <<source, sent, what, told, patch, cursor, etag, queue, poll, life, effect, trouble,
        pollFaults>>
iv == <<isKind, isTwins, isTurn, isBuffer, isBatch, isTyping, isSent, isWire, isSeen,
        isGiven, isFrames, isEarly, isGone, isFaults, isTurns>>
lv == <<state, pc, task, wait, attempts, strand, hardFail, noProgress, blocked,
        pendingRetry, compacted, launched, timer, pauseReason, abort, leftover, provider,
        savedMain, mark, agentRuns, exitFile, report, swept, before>>
vv == <<item, step, cur, tries, snap, hint, store, head, work, staged, edited, verdict,
        kept, amiss, vgFaults>>

\* A part that is not looked at starts in one way only.
MCInit ==
    /\ part \in {"delivery", "pollers", "steers", "loop", "gate"}
    /\ Init /\ P!Init /\ I!IsInit /\ L!Init /\ V!VgInit
    /\ part # "pollers" => source = "webhook"
    /\ part # "steers" => isKind = "types" /\ isTwins = {}
    /\ part # "loop" => \A t \in 1..N : mark[t] = "absent"

MCNext ==
    \/ part = "delivery" /\ Next /\ UNCHANGED <<part, pv, iv, lv, vv>>
    \/ part = "pollers" /\ P!Next /\ UNCHANGED <<part, dv, iv, lv, vv>>
    \/ part = "steers" /\ I!IsNext /\ UNCHANGED <<part, dv, pv, lv, vv>>
    \/ part = "loop" /\ L!Next /\ UNCHANGED <<part, dv, pv, iv, vv>>
    \/ part = "gate" /\ V!VgNext /\ UNCHANGED <<part, dv, pv, iv, lv>>

\* The fairness each part states, for the part that is looked at.
MCFairness ==
    /\ \A t \in Task : WF_dv(part = "delivery" /\ Push(t))
    /\ \A t \in Task, k \in Delivery : WF_dv(part = "delivery" /\ Receive(t, k))
    /\ WF_dv(part = "delivery" /\ Tick)
    /\ WF_dv(part = "delivery" /\ LinkUp)
    /\ WF_dv(part = "delivery" /\ AgentWrites)
    /\ \A p \in Poll : WF_pv(part = "pollers" /\ P!Runs(p))
    /\ \A m \in 1..MaxMsg : WF_pv(part = "pollers" /\ P!Patched(m))
    /\ WF_iv(part = "steers" /\ I!IsProgress)
    /\ \A s \in IsSteer : WF_iv(part = "steers" /\ I!IsArrives(s))
    /\ WF_lv(part = "loop" /\ L!Ready)
    /\ WF_lv(part = "loop" /\ L!TimerFires)
    /\ WF_lv(part = "loop" /\ L!AgentEnds)
    /\ WF_vv(part = "gate" /\ V!LoopSteps)
    /\ WF_vv(part = "gate" /\ V!Completes)

MCSpec == MCInit /\ [][MCNext]_<<part, dv, pv, iv, lv, vv>> /\ MCFairness

-----------------------------------------------------------------------------
(* Properties: those of the parts, stated and explained where they are      *)
(* defined.                                                                 *)

\* No message of a webhook, a channel or a mailbox is lost or acted on twice
\* but by the mishaps its poller does not survive.
PollersHold == P!TypeOK /\ P!LostComesFrom /\ P!CopiesComeFrom

\* An acknowledged steer is in memory or has arrived, and one frame makes at
\* most one task or injection of it (taskLoop.ts: _handleSteer).
SteersHold == I!IsTypeOK /\ I!AckedIsHeld /\ I!OncePerFrame

\* Undone work of a discarded task is gone from the files git knows, kept work
\* stays, and no task is closed without a verdict (taskLoop.ts: verify gate).
GateHolds == V!VgTypeOK /\ V!DiscardIsClean /\ V!KeptStays /\ V!ClosedByVerdict

\* All other work that reaches the loop, in the parts above.
WorkHolds == PollersHold /\ SteersHold /\ GateHolds

\* What each part owes: a task acknowledged, a message acted on, a steer that
\* arrives, a task settled, a loop stopped (3), a task closed by its verdict.
Owed(i) ==
    CASE part = "delivery" -> i = 1 /\ ~(Task \subseteq delivered)
      [] part = "pollers" -> i # 3 /\ P!Wanted(i)
      [] part = "steers" -> i \in isSent
      [] part = "loop" -> IF i = 3 THEN state = "stopping" ELSE mark[i] \in {"todo", "wip"}
      [] part = "gate" -> i # 3 /\ ~V!Closed(i)

Paid(i) ==
    CASE part = "delivery" -> Task \subseteq delivered
      [] part = "pollers" -> i = 3 \/ P!Met(i)
      [] part = "steers" -> i = 3 \/ I!Reached(i) \/ i \in isGone
      [] part = "loop" -> IF i = 3 THEN state = "idle" ELSE L!IsSettled(i)
      [] part = "gate" -> i = 3 \/ V!Closed(i)

\* What the office, a service or the user sends is taken up in the end and every
\* task of a loop is settled, unless a mishap excuses it by name: EventuallyAcked,
\* P!Delivered, I!SteerArrives, L!StopEndsIdle with L!Settled, and V!GateSettles.
AllEnds == \A i \in 1..3 : Owed(i) ~> Paid(i)
=============================================================================
