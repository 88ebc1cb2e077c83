------------------------------ MODULE AcpHost -------------------------------
(***************************************************************************)
(* Who runs a turn of opencode: the persistent agent of the workspace      *)
(* (opencode/acp.ts) or, where that cannot be started, the server of       *)
(* opencode/sdk.ts.                                                        *)
(*                                                                         *)
(* The host keeps one session object per workspace, a busy flag from the   *)
(* dispatch to the end of the turn, and one exit file.  The loop gives up  *)
(* a turn by closing the session under it; the turn's own coroutine then   *)
(* comes back with an error before anything else happens.  AcpSession and  *)
(* OpencodeServer have the inside of the two ways.                         *)
(***************************************************************************)
EXTENDS Integers

CONSTANTS
    AhMaxTurn,      \* bound: turns dispatched
    AhMaxFaults     \* bound: stops, failed starts, dead agents, stalls

ASSUME AhBounds == AhMaxTurn \in Nat \ {0} /\ AhMaxFaults \in Nat

VARIABLES
    ahSess,         \* _acpSessions: its object and what its process does
    ahKnown,        \* the object has been up once and has a session id
    ahKilled,       \* sessions closed while a coroutine awaits them
    ahBusy,         \* _acpBusyRoots
    ahServing,      \* _busyRoots of the server
    ahPc,           \* where the coroutine of a turn is
    ahSteer,        \* a durable steer that brings the agent up
    ahExit,         \* the exit file: empty, or the turn that wrote it
    ahLoop, ahFirst,\* the loop; "yes" until its first dispatch (_iterations)
    (* history *)
    ahTurns,        \* turns dispatched
    ahGivenUp,      \* turns the loop has given up
    ahFaults

ahAgent == <<ahSess, ahKnown>>
ahCalls == <<ahPc, ahSteer, ahKilled>>
ahFlags == <<ahBusy, ahServing>>
ahRunner == <<ahLoop, ahFirst, ahTurns>>
ahVars == <<ahAgent, ahCalls, ahFlags, ahExit, ahRunner, ahGivenUp, ahFaults>>

AhTurn == 1..AhMaxTurn

AhInit ==
    /\ ahSess = "none" /\ ahKnown = "no" /\ ahKilled = "no"
    /\ ahBusy = "no" /\ ahServing = "no"
    /\ ahPc = [t \in AhTurn |-> "no"] /\ ahSteer = "no"
    /\ ahExit = 0
    /\ ahLoop = "stopped" /\ ahFirst = "yes" /\ ahTurns = 0
    /\ ahGivenUp = {}
    /\ ahFaults = AhMaxFaults

AhFault == ahFaults > 0 /\ ahFaults' = ahFaults - 1

\* isOpencodeSdkBusy; the session's own flag covers what it runs.
Busy ==
    \/ ahBusy = "yes" \/ ahServing = "yes"
    \/ ahSess = "ready" /\ \E t \in AhTurn : ahPc[t] \in {"running", "grace"}

\* Promises answered by a close are taken up before the next event.
Rest == ahKilled = "no"

Goes(t, pc) == ahPc' = [ahPc EXCEPT ![t] = pc]

-----------------------------------------------------------------------------
(* A turn. *)

\* sendOpencodeAcpPrompt up to the first await.  An agent that is up takes the
\* prompt; otherwise it is started, or its start is waited for.
AhDispatch ==
    /\ Rest /\ ahLoop = "idle" /\ ahTurns < AhMaxTurn
    /\ ahFirst = "no" => ~Busy
    /\ LET t == ahTurns + 1 IN
        /\ ahTurns' = t
        /\ \/ /\ ahBusy' = "yes"
              /\ ahSess' = IF ahSess = "ready" THEN "ready" ELSE "starting"
              /\ Goes(t, IF ahSess = "ready" THEN "running" ELSE "starting")
              /\ ahExit' = 0
              /\ UNCHANGED ahFaults
           \/ /\ AhFault                        \* no prompt file
              /\ Goes(t, "done") /\ ahExit' = t
              /\ UNCHANGED <<ahBusy, ahSess>>
    /\ ahLoop' = "waits" /\ ahFirst' = "no"
    /\ UNCHANGED <<ahKnown, ahServing, ahSteer, ahKilled, ahGivenUp>>

Starting(t) == ahPc[t] = "starting"

\* ensureReady has come back.
AhStarted ==
    /\ Rest /\ ahSess = "starting"
    /\ ahSess' = "ready" /\ ahKnown' = "yes"
    /\ ahPc' = [t \in AhTurn |-> IF Starting(t) THEN "running" ELSE ahPc[t]]
    /\ ahSteer' = IF ahSteer = "starting" THEN "waiting" ELSE ahSteer
    /\ UNCHANGED <<ahKilled, ahFlags, ahExit, ahRunner, ahGivenUp, ahFaults>>

\* Mistake: the server's turn is not marked.
FallsBackUnmarked == ahSess' = "none" /\ ahBusy' = "no" /\ UNCHANGED ahServing

\* Startup failed: the session is closed and forgotten, and the busy flag is
\* handed over to the server's path.
FallsBack == ahSess' = "none" /\ ahBusy' = "no" /\ ahServing' = "yes"

Move(ts, pc) == ahPc' = [t \in AhTurn |-> IF t \in ts THEN pc ELSE ahPc[t]]
Waiters == {t \in AhTurn : Starting(t)}

\* The turns that waited for the start go on with its end.  An object that
\* never was up throws, and they run on the server, which empties the exit
\* file; one that has a session id goes on to a prompt nobody takes.
StartIsOver(left) ==
    IF Waiters # {} /\ ahKnown = "no"
    THEN Move(Waiters, "server") /\ FallsBack /\ ahExit' = 0
    ELSE /\ ahSess' = left /\ UNCHANGED ahServing
         /\ Move(Waiters, "done")
         /\ IF Waiters # {} THEN ahExit' \in Waiters /\ ahBusy' = "no"
                            ELSE UNCHANGED <<ahExit, ahBusy>>

\* A steer stays on its journal.
AhStartFails ==
    /\ Rest /\ ahSess = "starting" /\ AhFault
    /\ StartIsOver("off")
    /\ ahSteer' = "no"
    /\ UNCHANGED <<ahKnown, ahKilled, ahRunner, ahGivenUp>>

\* The end of a turn, in the order of the code.
Over(t) == Goes(t, "done") /\ ahExit' = t /\ ahBusy' = "no"

Running == {t \in AhTurn : ahPc[t] = "running"}

\* Every prompt of a process that is gone ends with an error.
RunningOver ==
    \/ /\ Running # {}
       /\ ahPc' = [t \in AhTurn |-> IF t \in Running THEN "done" ELSE ahPc[t]]
       /\ ahExit' \in Running /\ ahBusy' = "no"
    \/ Running = {} /\ UNCHANGED <<ahPc, ahExit, ahBusy>>

\* runTurn resolves.  One that ended cleanly without a word waits a moment for
\* a late chunk; one that was silent too long has closed the process.
AhTurnEnds(t) ==
    /\ Rest /\ ahPc[t] = "running" /\ ahSess = "ready"
    /\ \/ Over(t) /\ UNCHANGED <<ahSess, ahSteer, ahFaults>>
       \/ Goes(t, "grace") /\ UNCHANGED <<ahSess, ahSteer, ahExit, ahBusy, ahFaults>>
       \/ /\ AhFault
          /\ RunningOver
          /\ ahSess' = "off" /\ ahSteer' = "no"
    /\ UNCHANGED <<ahKnown, ahKilled, ahServing, ahRunner, ahGivenUp>>

AhGraceEnds(t) ==
    /\ Rest /\ ahPc[t] = "grace"
    /\ Over(t)
    /\ UNCHANGED <<ahAgent, ahSteer, ahKilled, ahServing, ahRunner, ahGivenUp, ahFaults>>

\* The server's turn ends, or finds its server gone.
AhServed(t) ==
    /\ Rest /\ ahPc[t] = "server"
    /\ Goes(t, "done") /\ ahExit' = t /\ ahServing' = "no"
    /\ UNCHANGED <<ahAgent, ahSteer, ahKilled, ahBusy, ahRunner, ahGivenUp, ahFaults>>

\* The agent process dies.  The object stays and starts it again when asked.
AhDies ==
    /\ Rest /\ ahSess = "ready" /\ AhFault
    /\ RunningOver
    /\ ahSess' = "off" /\ ahSteer' = "no"
    /\ UNCHANGED <<ahKnown, ahKilled, ahServing, ahRunner, ahGivenUp>>

-----------------------------------------------------------------------------
(* A durable steer at a boundary: ensureOpencodeAcpSteer. *)

AhSteers ==
    /\ Rest /\ ahLoop = "idle" /\ ahSteer = "no" /\ AhFault
    /\ ahSess' = IF ahSess = "ready" THEN "ready" ELSE "starting"
    /\ ahSteer' = IF ahSess = "ready" THEN "waiting" ELSE "starting"
    /\ UNCHANGED <<ahKnown, ahKilled, ahPc, ahFlags, ahExit, ahRunner, ahGivenUp>>

AhSteered ==
    /\ Rest /\ ahSteer = "waiting"
    /\ ahSteer' = "no"
    /\ UNCHANGED <<ahAgent, ahKilled, ahPc, ahFlags, ahExit, ahRunner, ahGivenUp, ahFaults>>

-----------------------------------------------------------------------------
(* The loop. *)

AhLoopStarts ==
    /\ Rest /\ ahLoop = "stopped"
    /\ ahLoop' = "idle" /\ ahFirst' = "yes"
    /\ UNCHANGED <<ahAgent, ahCalls, ahFlags, ahExit, ahTurns, ahGivenUp, ahFaults>>

AhTurnSeen ==
    /\ Rest /\ ahLoop = "waits" /\ ~Busy
    /\ ahLoop' = "idle"
    /\ UNCHANGED <<ahAgent, ahCalls, ahFlags, ahExit, ahFirst, ahTurns, ahGivenUp, ahFaults>>

\* AcpSession.close answers every promise, and the map forgets the session.
Closed == ahSess' = "none" /\ ahKilled' = ahSess

\* The loop is stopped, or has waited in vain for half an hour, while the turn
\* is busy: both flags are cleared and the session is closed.
AhForceIdle ==
    /\ Rest /\ ahLoop = "waits" /\ Busy /\ AhFault
    /\ ahBusy' = "no" /\ ahServing' = "no"
    /\ Closed
    /\ ahGivenUp' = ahGivenUp \cup {t \in AhTurn : ahPc[t] \notin {"no", "done"}}
    /\ ahLoop' \in {"stopped", "idle"}
    /\ UNCHANGED <<ahKnown, ahPc, ahSteer, ahExit, ahFirst, ahTurns>>

\* Between turns a refused login closes the client.
AhEvict ==
    /\ Rest /\ ahLoop = "idle" /\ ahSess # "none" /\ AhFault
    /\ ahBusy' = "no"
    /\ Closed
    /\ UNCHANGED <<ahKnown, ahPc, ahSteer, ahServing, ahExit, ahRunner, ahGivenUp>>

\* What awaited the closed session goes on with the error.
AhResumes ==
    /\ ~Rest
    /\ ahKilled' = "no"
    /\ ahSteer' = "no"
    /\ ahKnown' = "no"
    /\ IF Waiters # {} THEN StartIsOver("none")
       ELSE RunningOver /\ UNCHANGED <<ahSess, ahServing>>
    /\ UNCHANGED <<ahRunner, ahGivenUp, ahFaults>>

AhNext ==
    \/ AhDispatch \/ AhStarted \/ AhStartFails \/ AhDies
    \/ AhSteers \/ AhSteered \/ AhLoopStarts \/ AhTurnSeen
    \/ AhForceIdle \/ AhEvict \/ AhResumes
    \/ \E t \in AhTurn : AhTurnEnds(t) \/ AhGraceEnds(t) \/ AhServed(t)

AhSpec == AhInit /\ [][AhNext]_ahVars

\* Promises resolve, the loop asks again every half second, requests of the
\* start have a timeout, turns a watchdog.
AhFairness ==
    /\ WF_ahVars(AhResumes) /\ WF_ahVars(AhStarted) /\ WF_ahVars(AhTurnSeen)
    /\ \A t \in AhTurn : WF_ahVars(AhTurnEnds(t) \/ AhGraceEnds(t) \/ AhServed(t))

-----------------------------------------------------------------------------
AhOpen == {t \in AhTurn : ahPc[t] \notin {"no", "done"}}

AhTypeOK ==
    /\ ahSess \in {"none", "off", "starting", "ready"}
    /\ ahKnown \in {"yes", "no"}
    /\ ahKilled \in {"no", "none", "off", "starting", "ready"}
    /\ ahBusy \in {"yes", "no"} /\ ahServing \in {"yes", "no"}
    /\ ahPc \in [AhTurn -> {"no", "starting", "running", "grace", "server", "done"}]
    /\ ahSteer \in {"no", "starting", "waiting"}
    /\ ahExit \in 0..AhMaxTurn
    /\ ahLoop \in {"idle", "waits", "stopped"} /\ ahFirst \in {"yes", "no"}
    /\ ahTurns \in 0..AhMaxTurn /\ ahGivenUp \subseteq 1..ahTurns
    /\ ahFaults \in 0..AhMaxFaults

(* "busy synchronously from dispatch through full drain": while no turn was *)
(* given up, one that is not over is busy to the loop, on whichever way it  *)
(* runs, two never run at once, and the exit file is the last turn's.       *)
BusyCovers ==
    Rest /\ ahGivenUp = {} =>
        /\ AhOpen # {} => Busy
        /\ \A t, u \in AhOpen : t = u
        /\ ahLoop = "idle" => ahExit = ahTurns

(* An agent process runs the prompts of the object the host holds; nothing  *)
(* is left waiting for one that was closed.                                 *)
AwaitsTheHeld ==
    Rest =>
        /\ (\E t \in AhTurn : ahPc[t] = "starting") => ahSess = "starting"
        /\ (\E t \in AhTurn : ahPc[t] = "running") => ahSess = "ready"
        /\ ahSteer = "waiting" => ahSess = "ready"

\* What the host knows of its turns is true, in the parts above.
HostHolds == AhTypeOK /\ BusyCovers /\ AwaitsTheHeld

\* Turn t has not come to its end, or the loop still waits for it.
Owing(t) == t \in AhOpen \/ (ahLoop = "waits" /\ ahTurns = t)

(* The loop does not wait for ever, and every turn comes to its end.        *)
HostTurnEnds == \A t \in AhTurn : Owing(t) ~> ~Owing(t)
=============================================================================
