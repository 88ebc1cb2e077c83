--------------------------- MODULE CopilotSession ---------------------------
(***************************************************************************)
(* The in-process Copilot session that providers/copilot/sdk.ts keeps for  *)
(* one folder.  A turn hangs its own completion handlers and a timer of    *)
(* three minutes on the shared session object, and leaves its exit file    *)
(* there for whoever completes first.  The completion clears the timer;    *)
(* taking the handlers down by hand does not, and the timer, when it       *)
(* fires, disposes of the session the folder has THEN.                     *)
(*                                                                         *)
(* A session object carries the number of the turn that created it.        *)
(***************************************************************************)
EXTENDS Naturals, FiniteSets

CONSTANTS
    CpMaxTurn,    \* turns the loop runs
    CpMaxFaults   \* rejected sends, closes and failed work

ASSUME CpBounds == CpMaxTurn \in Nat /\ CpMaxFaults \in Nat

VARIABLES
    cpRoot,      \* the session remembered for the folder (0: none), the busy mark
    cpSession,   \* each session object: its agent, the error flag, the exit file left there
    cpTurn,      \* each turn: its coroutine, session, handlers, timer, exit file
    cpPast       \* history: faults, turns whose timer outlived them, harm by another's timer

cpVars == <<cpRoot, cpSession, cpTurn, cpPast>>

CpTurn == 1 .. CpMaxTurn

CpTypeOK ==
    /\ cpRoot \in [session : CpTurn \cup {0}, busy : BOOLEAN]
    /\ cpSession \in [CpTurn -> [agent : {"none", "idle", "working", "finishing", "disposed"},
                                 work : SUBSET CpTurn, errored : BOOLEAN,
                                 exitFile : CpTurn \cup {0}]]
    /\ cpTurn \in [CpTurn -> [pc : {"new", "loads", "sends", "sent", "rejected"},
                              session : CpTurn \cup {0}, handlers : BOOLEAN,
                              timer : BOOLEAN, exit : {"none", "0", "1"}]]
    /\ cpPast \in [faults : 0 .. CpMaxFaults, stale : SUBSET CpTurn, hit : SUBSET CpTurn,
                   answered : SUBSET CpTurn, early : SUBSET CpTurn, overlap : SUBSET CpTurn]

CpInit ==
    /\ cpRoot = [session |-> 0, busy |-> FALSE]
    /\ cpSession = [s \in CpTurn |-> [agent |-> "none", work |-> {}, errored |-> FALSE,
                                      exitFile |-> 0]]
    /\ cpTurn = [t \in CpTurn |-> [pc |-> "new", session |-> 0, handlers |-> FALSE,
                                   timer |-> FALSE, exit |-> "none"]]
    /\ cpPast = [faults |-> 0, stale |-> {}, hit |-> {}, answered |-> {}, early |-> {},
                 overlap |-> {}]

Live(s) == cpSession[s].agent \in {"idle", "working", "finishing"}
Attached(s) == {t \in CpTurn : cpTurn[t].handlers /\ cpTurn[t].session = s}
Pending(t) == cpTurn[t].pc \in {"loads", "sends", "sent"} /\ cpTurn[t].exit = "none"

-----------------------------------------------------------------------------
(* Starting a turn: sendCopilotSdkPrompt and _sendAsync.                   *)

\* The loop hands over the next turn when the folder is not busy, or after ten
\* minutes, when every timer of three has fired, without clearing the mark.
CpDispatch(t) ==
    /\ cpTurn[t].pc = "new" /\ \A u \in 1 .. t - 1 : cpTurn[u].pc # "new"
    /\ cpRoot.busy => \A u \in CpTurn : ~cpTurn[u].timer
    /\ cpRoot' = [cpRoot EXCEPT !.busy = TRUE]
    /\ cpTurn' = [cpTurn EXCEPT ![t].pc = "loads"]
    /\ cpPast' = [cpPast EXCEPT !.overlap = @ \cup {u \in CpTurn : Pending(u)}]
    /\ UNCHANGED cpSession

\* No credentials, no SDK or no prompt file: exit 1 before anything is hung up.
CpLoadFails(t) ==
    /\ cpTurn[t].pc = "loads"
    /\ cpRoot' = [cpRoot EXCEPT !.busy = FALSE]
    /\ cpTurn' = [cpTurn EXCEPT ![t].pc = "rejected", ![t].exit = "1"]
    /\ UNCHANGED <<cpSession, cpPast>>

\* The rest up to the send is one step: take the handlers of the last turn down, put
\* the flag, the exit file, the handlers and the timer of this one up.
CpAttaches(t) ==
    LET s == IF cpRoot.session = 0 THEN t ELSE cpRoot.session
    IN  /\ cpTurn[t].pc = "loads"
        /\ cpRoot' = [cpRoot EXCEPT !.session = s]
        /\ cpSession' = [cpSession EXCEPT ![s] =
             [agent |-> IF @.agent = "none" THEN "idle" ELSE @.agent, work |-> @.work,
              errored |-> FALSE, exitFile |-> t]]
        /\ cpTurn' = [u \in CpTurn |->
             IF u = t THEN [pc |-> "sends", session |-> s, handlers |-> TRUE,
                            timer |-> TRUE, exit |-> "none"]
             ELSE IF u \in Attached(s) THEN [cpTurn[u] EXCEPT !.handlers = FALSE] ELSE cpTurn[u]]
        /\ cpPast' = [cpPast EXCEPT !.stale = @ \cup {u \in Attached(s) : cpTurn[u].timer}]

\* send() resolves once the prompt is taken; the agent works it off behind the others.
CpSent(t) ==
    LET s == cpTurn[t].session
    IN  /\ cpTurn[t].pc = "sends" /\ Live(s)
        /\ cpSession' = [cpSession EXCEPT ![s].work = @ \cup {t},
             ![s].agent = IF @ = "idle" THEN "working" ELSE @]
        /\ cpTurn' = [cpTurn EXCEPT ![t].pc = "sent"]
        /\ UNCHANGED <<cpRoot, cpPast>>

\* send() rejects: busy cleared, exit 1, and handlers and timer stay where they are.
CpSendRejects(t) ==
    /\ cpTurn[t].pc = "sends"
    /\ Live(cpTurn[t].session) => cpPast.faults < CpMaxFaults
    /\ cpRoot' = [cpRoot EXCEPT !.busy = FALSE]
    /\ cpTurn' = [cpTurn EXCEPT ![t].pc = "rejected", ![t].exit = "1"]
    /\ cpPast' = [cpPast EXCEPT !.stale = @ \cup {t},
         !.faults = IF Live(cpTurn[t].session) THEN @ + 1 ELSE @]
    /\ UNCHANGED cpSession

-----------------------------------------------------------------------------
(* Ending a turn.                                                          *)

\* _complete of the turn whose handlers hear the event: it takes them down, clears
\* its timer and the busy mark, and writes the exit file the session object holds.
Complete(s, turns, code) ==
    LET file == cpSession[s].exitFile
    IN  [u \in CpTurn |->
          LET v == IF u \in Attached(s)
                   THEN [turns[u] EXCEPT !.handlers = FALSE, !.timer = FALSE] ELSE turns[u]
          IN  IF u = file /\ Attached(s) # {} THEN [v EXCEPT !.exit = code] ELSE v]

Early(s) == {cpSession[s].exitFile} \cap {t \in Attached(s) : t \notin cpPast.answered}

\* session.task_complete: one more signal of completion; the idle is still to come.
CpTaskComplete(s) ==
    /\ cpSession[s].agent = "working" /\ cpSession[s].work # {}
    /\ cpPast' = [cpPast EXCEPT !.answered = @ \cup cpSession[s].work]
    /\ cpTurn' = Complete(s, cpTurn, "0")
    /\ cpRoot' = [cpRoot EXCEPT !.busy = @ /\ Attached(s) = {}]
    /\ cpSession' = [cpSession EXCEPT ![s].agent = "finishing", ![s].work = {},
         ![s].exitFile = IF Attached(s) = {} THEN @ ELSE 0]

\* session.idle with no error before it.
CpIdle(s) ==
    LET done == IF cpSession[s].agent = "working" THEN cpSession[s].work ELSE {}
        left == cpSession[s].work \ done
    IN  /\ cpSession[s].agent \in {"working", "finishing"} /\ ~cpSession[s].errored
        /\ cpTurn' = Complete(s, cpTurn, "0")
        /\ cpRoot' = [cpRoot EXCEPT !.busy = @ /\ Attached(s) = {}]
        /\ cpSession' = [cpSession EXCEPT ![s].agent = IF left = {} THEN "idle" ELSE "working",
             ![s].work = left, ![s].exitFile = IF Attached(s) = {} THEN @ ELSE 0]
        /\ cpPast' = [cpPast EXCEPT !.answered = @ \cup done, !.early = @ \cup (Early(s) \ done)]

\* session.error: the flag is on the session object, the next idle acts on it.
CpError(s) ==
    /\ cpSession[s].agent = "working" /\ ~cpSession[s].errored
    /\ cpPast.faults < CpMaxFaults
    /\ cpSession' = [cpSession EXCEPT ![s].errored = TRUE]
    /\ cpPast' = [cpPast EXCEPT !.faults = @ + 1]
    /\ UNCHANGED <<cpRoot, cpTurn>>

Dispose(sessions, s) == IF s = 0 THEN sessions
                        ELSE [sessions EXCEPT ![s].agent = "disposed", ![s].work = {}]

\* session.idle after an error: the folder's session is disposed of, exit 1.
CpIdleErrored(s) ==
    /\ cpSession[s].agent \in {"working", "finishing"} /\ cpSession[s].errored
    /\ IF Attached(s) = {}
       THEN /\ cpSession' = [cpSession EXCEPT ![s].agent = "idle", ![s].work = {}]
            /\ UNCHANGED <<cpRoot, cpTurn, cpPast>>
       ELSE /\ cpSession' = Dispose([cpSession EXCEPT ![s].exitFile = 0,
                                                      ![s].agent = "idle", ![s].work = {}],
                                    cpRoot.session)
            /\ cpTurn' = Complete(s, cpTurn, "1")
            /\ cpRoot' = [session |-> 0, busy |-> FALSE]
            /\ UNCHANGED cpPast

\* Mistake: the timeout leaves the exit file to the agent.
CpTimeoutSilent(t) ==
    /\ cpTurn[t].timer
    /\ cpSession' = Dispose([cpSession EXCEPT ![cpTurn[t].session].exitFile = 0], cpRoot.session)
    /\ cpTurn' = [cpTurn EXCEPT ![t].timer = FALSE, ![t].handlers = FALSE]
    /\ cpRoot' = [session |-> 0, busy |-> FALSE]
    /\ UNCHANGED cpPast

\* The three minutes are over: no look at completionFired; the session the folder has
\* now is disposed of, and the exit file on the turn's own session object gets a 1.
CpTimeout(t) ==
    LET own == cpTurn[t].session  file == cpSession[own].exitFile
    IN  /\ cpTurn[t].timer
        /\ cpSession' = Dispose([cpSession EXCEPT ![own].exitFile = 0], cpRoot.session)
        /\ cpTurn' = [u \in CpTurn |->
             LET v == IF u = t THEN [cpTurn[u] EXCEPT !.timer = FALSE, !.handlers = FALSE]
                      ELSE cpTurn[u]
             IN  IF u = file THEN [v EXCEPT !.exit = "1"] ELSE v]
        /\ cpRoot' = [session |-> 0, busy |-> FALSE]
        /\ cpPast' = [cpPast EXCEPT !.hit = @ \cup
             {u \in CpTurn \ {t} : Pending(u) /\ cpTurn[u].pc # "loads"
                                   /\ (u = file \/ cpTurn[u].session = cpRoot.session)}]

\* closeCopilotSdkSession: handlers down, session gone, not busy; the timer stays.
CpClose ==
    LET s == cpRoot.session
    IN  /\ s # 0 /\ cpPast.faults < CpMaxFaults
        /\ cpSession' = Dispose(cpSession, s)
        /\ cpTurn' = [u \in CpTurn |-> IF u \in Attached(s)
                        THEN [cpTurn[u] EXCEPT !.handlers = FALSE] ELSE cpTurn[u]]
        /\ cpRoot' = [session |-> 0, busy |-> FALSE]
        /\ cpPast' = [cpPast EXCEPT !.faults = @ + 1,
             !.stale = @ \cup {u \in CpTurn : cpTurn[u].timer /\ cpTurn[u].session = s}]

-----------------------------------------------------------------------------
CpNext ==
    \/ \E t \in CpTurn : \/ CpDispatch(t) \/ CpLoadFails(t) \/ CpAttaches(t)
                         \/ CpSent(t) \/ CpSendRejects(t) \/ CpTimeout(t)
    \/ \E s \in CpTurn : CpTaskComplete(s) \/ CpIdle(s) \/ CpError(s) \/ CpIdleErrored(s)
    \/ CpClose

\* The timer fires, and loading comes to one end or the other.
CpFairness ==
    \A t \in CpTurn : WF_cpVars(CpTimeout(t)) /\ WF_cpVars(CpLoadFails(t) \/ CpAttaches(t))

CpSpec == CpInit /\ [][CpNext]_cpVars /\ CpFairness

-----------------------------------------------------------------------------
\* A turn loses its session or its exit file to the timer of another turn only if that
\* other turn's timer outlived it: its send was rejected, its session was closed under
\* it, or a later turn took its handlers down.
HitComesFrom == cpPast.hit # {} => cpPast.stale # {}

\* A turn is completed by a session.idle that answers something else only after an
\* earlier turn had been completed or given up before that idle, or one was overtaken.
EarlyComesFrom ==
    \A t \in cpPast.early :
        cpPast.overlap # {} \/ \E u \in 1 .. t - 1 : cpTurn[u].exit # "none"

\* Only one turn listens on a session, the one whose exit file the session holds.
OneListener == \A s \in CpTurn : Cardinality(Attached(s)) <= 1

TimersAreOwn == HitComesFrom /\ EarlyComesFrom /\ OneListener

\* Every turn handed over gets an exit file, unless the loop went on without one.
ExitComes == \A t \in CpTurn : Pending(t) ~> ~Pending(t) \/ cpPast.overlap # {}
=============================================================================
