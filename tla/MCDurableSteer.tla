--------------------------- MODULE MCDurableSteer ---------------------------
(***************************************************************************)
(* For TLC: what outlives a process.  The durable steers (DurableSteer),    *)
(* grok in its pane (GrokTmux), the slot in which panes are launched        *)
(* (LaunchSlot), the detached leader of grok (GrokLeader) and the loops a   *)
(* supervisor starts (LoopLifecycle).  The parts share no state: a          *)
(* behaviour is one of one part, and the others stay where they started.    *)
(***************************************************************************)
EXTENDS DurableSteer, FiniteSets

CONSTANTS
    One, Two, Machine,  \* names; the steers, agents and loops are One and Two
    TmMaxTurn, TmMaxExtras,
    Agent, MaxMishaps, CanLock,
    GlMaxBackend, GlMaxFaults,
    LcLoop, LcPoll, LcMaxUser, LcMaxRestart, LcMaxFaults

ASSUME MachineNames == Agent \cap {"none", "nobody"} = {} /\ "none" \notin LcLoop
ASSUME MachineBounds ==
    /\ MaxMishaps \in Nat
    /\ GlMaxBackend \in Nat /\ GlMaxFaults \in Nat
    /\ TmMaxTurn \in Nat /\ TmMaxExtras \in Nat

VARIABLES
    part,
    tmPane, tmAsked, tmDoing, tmServed, tmHandle, tmLogin, tmBusy, tmLatest, tmHost,
    tmTurn, tmExtras,
    lock, at, judged, trusted, read, mishaps, causes,
    glFile, glSocket, glSid, glSaved, glLeader, glKeep, glSeed, glWarm, glLoop,
    glFaults, glCut, glWhy,
    lcSup, lcPoll, lcStarting, lcChild, lcLoop, lcLock, lcMarker, lcResume, lcUser,
    lcRestart, lcFaults, lcWants, lcSaidOff, lcPassed, lcBlind

T == INSTANCE GrokTmux
S == INSTANCE LaunchSlot
G == INSTANCE GrokLeader
L == INSTANCE LoopLifecycle

dv == <<inflight, queued, tail, damaged, seen, proc, agent, replies, sent, wire,
        accepted, ran, faults>>
tv == <<tmPane, tmAsked, tmDoing, tmServed, tmHandle, tmLogin, tmBusy, tmLatest, tmHost,
        tmTurn, tmExtras>>
sv == <<lock, at, judged, trusted, read, mishaps, causes>>
gv == <<glFile, glSocket, glSid, glSaved, glLeader, glKeep, glSeed, glWarm, glLoop,
        glFaults, glCut, glWhy>>
lv == <<lcSup, lcPoll, lcStarting, lcChild, lcLoop, lcLock, lcMarker, lcResume, lcUser,
        lcRestart, lcFaults, lcWants, lcSaidOff, lcPassed, lcBlind>>

MCInit ==
    /\ part \in {"steers", "pane", "slot", "leader", "loops"}
    /\ Init /\ T!TmInit /\ S!LsInit /\ G!GlInit /\ L!LcInit
    /\ part # "slot" => lock.by = "none" /\ trusted = [of |-> {}, bad |-> "no"]

MCNext ==
    \/ part = "steers" /\ Next /\ UNCHANGED <<part, tv, sv, gv, lv>>
    \/ part = "pane" /\ T!TmNext /\ UNCHANGED <<part, dv, sv, gv, lv>>
    \/ part = "slot" /\ S!LsNext /\ UNCHANGED <<part, dv, tv, gv, lv>>
    \/ part = "leader" /\ G!GlNext /\ UNCHANGED <<part, dv, tv, sv, lv>>
    \/ part = "loops" /\ L!LcNext /\ UNCHANGED <<part, dv, tv, sv, gv>>

\* The fairness each part states, for the part that is looked at.
MCFairness ==
    /\ WF_dv(part = "steers" /\ Boundary) /\ WF_dv(part = "steers" /\ AgentEnds)
    /\ \A s \in Steer :
        /\ WF_dv(part = "steers" /\ Receive(s))
        /\ WF_dv(part = "steers" /\ Ensured(s))
        /\ WF_dv(part = "steers" /\ Answered(s))
    /\ \A t \in 1..TmMaxTurn :
        /\ WF_tv(part = "pane" /\ T!TmGrace(t))
        /\ WF_tv(part = "pane" /\ T!TmSettle(t))
        /\ WF_tv(part = "pane" /\ (T!TmPoll(t) \/ T!TmWatchdog(t)))
    /\ \A a \in Agent :
        /\ WF_sv(part = "slot" /\ S!Acquires(a))
        /\ WF_sv(part = "slot" /\ (S!Spaced(a) \/ S!ReadsTrust(a) \/ S!Launches(a)))
    /\ WF_gv(part = "leader" /\ (G!SocketSeen \/ G!SidSeen \/ G!StartTimesOut))
    /\ WF_lv(part = "loops" /\ L!PollBegins)
    /\ \A k \in LcPoll : WF_lv(part = "loops" /\ L!PollGoesOn(k))
    /\ WF_lv(part = "loops" /\ L!Exits)
    /\ \A l \in LcLoop :
        /\ WF_lv(part = "loops" /\ L!LoopGoesOn(l))
        /\ WF_lv(part = "loops" /\ L!ParentGone(l))
        /\ WF_lv(part = "loops" /\ L!RestartGoesOn(l))

MCSpec == MCInit /\ [][MCNext]_<<part, dv, tv, sv, gv, lv>> /\ MCFairness

-----------------------------------------------------------------------------
(* Properties: those of the parts, stated and explained where they are      *)
(* defined.                                                                 *)

\* What a turn in a pane reports is its own, launches do not meet, and no
\* leader of grok, no keepalive and no conversation is lost, but for the
\* mishaps named there (tui.ts, trustStore.ts, leader.ts).
GrokHolds ==
    /\ part = "pane" => T!TmTypeOK /\ T!TurnsAreOwn
    /\ part = "slot" => S!LsTypeOK /\ S!SlotHolds
    /\ part = "leader" => G!GlTypeOK /\ G!GlBackendsHold

\* A workspace that was stopped stays stopped, and has one loop at most, but for
\* the races named there (office.ts, start.ts, taskLoop.ts: restart).
LoopsHold ==
    part = "loops" => L!LcTypeOK /\ L!StoppedStays /\ L!OneLoopRuns /\ L!OneChild

\* What the processes of one machine keep from each other, in the parts above.
MachineHolds == GrokHolds /\ LoopsHold

Turn(x) == IF x = One THEN 1 ELSE 2

\* What each part owes to One and to Two, steers, turns, or loops of one machine, and
\* to the Machine as a whole: a leader that is being started, a loop to be online,
\* and no loop when the supervisor is gone, but one that was still to begin then.
Owed(x) ==
    CASE part = "steers" -> x \in accepted
      [] part = "pane" -> x # Machine /\ tmTurn[Turn(x)].phase # "none"
      [] part = "slot" -> x # Machine /\ at[x] = "wait"
      [] part = "leader" -> x = Machine /\ G!Starting
      [] part = "loops" -> IF x = Machine THEN L!Wanted \/ L!Orphans ELSE L!Waits(x)

Paid(x) ==
    CASE part = "steers" -> x \in seen \cup damaged
      [] part = "pane" -> T!Over(Turn(x))
      [] part = "slot" -> x = Machine \/ at[x] \in {"up", "dead"}
      [] part = "leader" -> ~G!Starting
      [] part = "loops" -> IF x = Machine
                           THEN ~L!Orphans /\ (L!Kept \/ ~L!Wanted)
                           ELSE L!Again(x)

\* An accepted steer is settled, a turn in a pane ends, a launch gets its slot, the start
\* of a leader ends, a restart comes back, a wanted loop is online and an orphan ends:
\* EventuallySettled, T!TmTurnEnds, S!LaunchComes, G!StartEnds, L!RestartComesBack,
\* L!KeptOnline and L!NoOrphans.
AllEnds == \A x \in {One, Two, Machine} : Owed(x) ~> Paid(x)
=============================================================================
