--------------------------- MODULE OpencodeServer ---------------------------
(***************************************************************************)
(* The in-process opencode server that providers/opencode/sdk.ts keeps for *)
(* one folder, and the turns the task loop runs on it.  A turn starts the  *)
(* server when none is remembered, subscribes to its events, sends its     *)
(* prompt and waits for the end of the session's work; then it clears the  *)
(* folder's busy mark, whichever turn that mark now stands for.  The loop  *)
(* waits on the mark alone and clears it by force after a silence.         *)
(*                                                                         *)
(* A server carries the number of the turn that started it.  All servers   *)
(* resume one session, so only the stream of another server is foreign.    *)
(***************************************************************************)
EXTENDS Naturals, Sequences

CONSTANTS
    MaxTurn,     \* turns the loop runs
    MaxExtra     \* prompts of no turn: steers and compactions

ASSUME OcBounds == MaxTurn \in Nat /\ MaxExtra \in Nat

VARIABLES
    ocRoot,      \* the folder: server remembered (0: none), busy mark, log channel, extra prompts
    ocServer,    \* each server: not started, its agent's state, or down
    ocLogger,    \* servers whose event logger runs, and whether one lost its stream
    ocOwed,      \* prompts a server has accepted and not answered (0: an extra one)
    ocTurn,      \* each turn: where its coroutine is, its server, events unread, exit file
    ocPast       \* history: turns abandoned by force, turns answered, ended before their answer (short), by an idle (early)

ocVars == <<ocRoot, ocServer, ocLogger, ocOwed, ocTurn, ocPast>>

OcTurn == 1 .. MaxTurn
Extra == 0

ServerUp(s) == ocServer[s] \in {"idle", "working", "asks", "erred"}
OcRunning(t) == ocTurn[t].pc \in {"boot", "have", "sent", "waits"}

OcTypeOK ==
    /\ ocRoot \in [server : OcTurn \cup {0}, busy : BOOLEAN, channel : BOOLEAN,
                   extras : 0 .. MaxExtra]
    /\ ocServer \in [OcTurn -> {"no", "idle", "working", "asks", "erred", "down"}]
    /\ ocLogger \in [on : SUBSET OcTurn, lost : BOOLEAN]
    /\ ocOwed \in [OcTurn -> SUBSET (OcTurn \cup {Extra})]
    /\ ocTurn \in [OcTurn -> [pc : {"new", "boot", "have", "sent", "waits", "ended"},
                              server : OcTurn \cup {0}, news : Seq({"idle", "error", "disposed"}),
                              exit : {"none", "0", "1"}]]
    /\ ocPast \in [forced : SUBSET OcTurn, answered : SUBSET OcTurn,
                   early : SUBSET OcTurn, short : SUBSET OcTurn]

OcInit ==
    /\ ocRoot = [server |-> 0, busy |-> FALSE, channel |-> FALSE, extras |-> 0]
    /\ ocServer = [s \in OcTurn |-> "no"]
    /\ ocLogger = [on |-> {}, lost |-> FALSE]
    /\ ocOwed = [s \in OcTurn |-> {}]
    /\ ocTurn = [t \in OcTurn |-> [pc |-> "new", server |-> 0, news |-> <<>>, exit |-> "none"]]
    /\ ocPast = [forced |-> {}, answered |-> {}, early |-> {}, short |-> {}]

-----------------------------------------------------------------------------
(* The server and its agent, as the code uses them.                        *)

Hear(turns, s, event) ==
    [t \in OcTurn |-> IF turns[t].pc \in {"sent", "waits"} /\ turns[t].server = s
                    THEN [turns[t] EXCEPT !.news = Append(@, event)] ELSE turns[t]]

\* All the work of the session is done: one session.idle for whoever listens.
AgentIdle(s) ==
    /\ ocServer[s] = "working"
    /\ ocServer' = [ocServer EXCEPT ![s] = "idle"]
    /\ ocOwed' = [ocOwed EXCEPT ![s] = {}]
    /\ ocPast' = [ocPast EXCEPT !.answered = @ \cup (ocOwed[s] \ {Extra})]
    /\ ocTurn' = Hear(ocTurn, s, "idle")
    /\ UNCHANGED <<ocRoot, ocLogger>>

\* A tool needs a permission; the work stands still until somebody answers.
AgentAsks(s) ==
    /\ ocServer[s] = "working"
    /\ ocServer' = [ocServer EXCEPT ![s] = "asks"]
    /\ UNCHANGED <<ocRoot, ocLogger, ocOwed, ocTurn, ocPast>>

\* The work fails: session.error now, and the session's session.idle after it.
AgentErrs(s) ==
    /\ ocServer[s] = "working"
    /\ ocServer' = [ocServer EXCEPT ![s] = "erred"]
    /\ ocOwed' = [ocOwed EXCEPT ![s] = {}]
    /\ ocTurn' = Hear(ocTurn, s, "error")
    /\ UNCHANGED <<ocRoot, ocLogger, ocPast>>

IdleAfterError(s) ==
    /\ ocServer[s] = "erred"
    /\ ocServer' = [ocServer EXCEPT ![s] = IF ocOwed[s] = {} THEN "idle" ELSE "working"]
    /\ ocTurn' = Hear(ocTurn, s, "idle")
    /\ UNCHANGED <<ocRoot, ocLogger, ocOwed, ocPast>>

\* The server announces that it goes, or is gone without a word.
ServerGoes(s) ==
    /\ ServerUp(s)
    /\ ocServer' = [ocServer EXCEPT ![s] = "down"]
    /\ ocOwed' = [ocOwed EXCEPT ![s] = {}]
    /\ ocTurn' \in {ocTurn, Hear(ocTurn, s, "disposed")}
    /\ ocLogger' = [ocLogger EXCEPT !.on = @ \ {s}]
    /\ UNCHANGED <<ocRoot, ocPast>>

Accepts(s, prompt) ==
    /\ ocOwed' = [ocOwed EXCEPT ![s] = IF ServerUp(s) THEN @ \cup {prompt} ELSE @]
    /\ ocServer' = [ocServer EXCEPT ![s] = IF @ = "idle" THEN "working" ELSE @]

PromptArrives(t) ==
    /\ ocTurn[t].pc = "sent"
    /\ Accepts(ocTurn[t].server, t)
    /\ ocTurn' = [ocTurn EXCEPT ![t].pc = "waits"]
    /\ UNCHANGED <<ocRoot, ocLogger, ocPast>>

-----------------------------------------------------------------------------
(* The turn: _sendOpencodeSdkServerPrompt.                                 *)

\* Mistake: the eviction forgets the server without closing it.
EvictForgets(root) ==
    /\ ocRoot' = [root EXCEPT !.server = 0, !.channel = @ /\ root.server = 0]
    /\ ocLogger' = [ocLogger EXCEPT !.on = @ \ {root.server}]
    /\ UNCHANGED ocServer

\* _evictClient: the remembered server, whoever started it, is closed and forgotten,
\* and with it the log channel that the last dispatch set.
Evict(root) ==
    /\ ocRoot' = [root EXCEPT !.server = 0, !.channel = @ /\ root.server = 0]
    /\ ocServer' = [s \in OcTurn |-> IF s = root.server THEN "down" ELSE ocServer[s]]
    /\ ocLogger' = [ocLogger EXCEPT !.on = @ \ {root.server}]

\* Remember a turn that ends before its answer, and whether an idle ended it.
Short(t, byIdle) ==
    LET unanswered == {t} \ ocPast.answered
    IN  [ocPast EXCEPT !.short = @ \cup unanswered,
                       !.early = IF byIdle THEN @ \cup unanswered ELSE @]

Ends(turns, t, code) ==
    [turns EXCEPT ![t] = [pc |-> "ended", server |-> @.server, news |-> <<>>, exit |-> code]]

\* The loop hands over the next turn once the folder is not busy.
OcDispatch(t) ==
    /\ ocTurn[t].pc = "new" /\ ~ocRoot.busy
    /\ \A u \in 1 .. t - 1 : ocTurn[u].pc # "new"
    /\ ocRoot' = [ocRoot EXCEPT !.busy = TRUE, !.channel = TRUE]
    /\ ocTurn' = [ocTurn EXCEPT ![t].pc = IF ocRoot.server = 0 THEN "boot" ELSE "have",
                                ![t].server = ocRoot.server]
    /\ UNCHANGED <<ocServer, ocLogger, ocOwed, ocPast>>

\* The server this turn started is up: it is remembered over whatever was there.
Booted(t) ==
    /\ ocTurn[t].pc = "boot"
    /\ ocServer' = [ocServer EXCEPT ![t] = "idle"]
    /\ ocRoot' = [ocRoot EXCEPT !.server = t]
    /\ ocLogger' = [ocLogger EXCEPT !.on = @ \cup {t}]
    /\ ocTurn' = [ocTurn EXCEPT ![t].pc = "have", ![t].server = t]
    /\ UNCHANGED <<ocOwed, ocPast>>

\* It subscribes first, then sends the prompt without waiting for its answer.
Subscribes(t) ==
    /\ ocTurn[t].pc = "have" /\ ServerUp(ocTurn[t].server)
    /\ ocTurn' = [ocTurn EXCEPT ![t].pc = "sent"]
    /\ UNCHANGED <<ocRoot, ocServer, ocLogger, ocOwed, ocPast>>

\* The server does not start, or cannot be listened to: exit 1, eviction, not busy.
Throws(t) ==
    /\ ocTurn[t].pc \in {"boot", "have"}
    /\ Evict([ocRoot EXCEPT !.busy = FALSE])
    /\ ocTurn' = Ends(ocTurn, t, "1")
    /\ UNCHANGED <<ocOwed, ocPast>>

\* The next event that ends the wait; an error and a disposal also write exit 0.
Reads(t) ==
    /\ ocTurn[t].pc = "waits" /\ ocTurn[t].news # <<>>
    /\ LET event == Head(ocTurn[t].news)
           root == [ocRoot EXCEPT !.busy = FALSE]
       IN  /\ IF event = "disposed" THEN Evict(root)
              ELSE ocRoot' = root /\ UNCHANGED <<ocServer, ocLogger>>
           /\ ocPast' = Short(t, event = "idle")
    /\ ocTurn' = Ends(ocTurn, t, "0")
    /\ UNCHANGED ocOwed

\* The stream is over, or an event comes after the 30 minutes: the wait ends with exit 0.
GivesUp(t) ==
    /\ ocTurn[t].pc = "waits" /\ ocTurn[t].news = <<>>
    /\ ocServer[ocTurn[t].server] \in {"down", "working", "asks"}
    /\ ocRoot' = [ocRoot EXCEPT !.busy = FALSE]
    /\ ocTurn' = Ends(ocTurn, t, "0")
    /\ ocPast' = Short(t, FALSE)
    /\ UNCHANGED <<ocServer, ocLogger, ocOwed>>

-----------------------------------------------------------------------------
(* The event logger of a server: _startEventLogger.                        *)

\* It leaves for good at the first event that finds its server replaced or the channel
\* gone; otherwise it approves what is asked.
LoggerHears(s) ==
    /\ s \in ocLogger.on /\ ocServer[s] \in {"working", "asks"}
    /\ IF ocRoot.server = s /\ ocRoot.channel
       THEN ocServer' = [ocServer EXCEPT ![s] = "working"] /\ UNCHANGED ocLogger
       ELSE ocLogger' = [ocLogger EXCEPT !.on = @ \ {s}] /\ UNCHANGED ocServer
    /\ UNCHANGED <<ocRoot, ocOwed, ocTurn, ocPast>>

\* Its stream fails: it ends without a word, and no later turn starts another.
LoggerFails(s) ==
    /\ s \in ocLogger.on
    /\ ocLogger' = [on |-> ocLogger.on \ {s}, lost |-> TRUE]
    /\ UNCHANGED <<ocRoot, ocServer, ocOwed, ocTurn, ocPast>>

-----------------------------------------------------------------------------
(* What the task loop and the host do with the folder from outside.        *)

\* steerOpencodeSdk needs a busy folder with a server, runOpencodeSdkCompact a server only.
ExtraPrompt ==
    /\ ocRoot.server # 0 /\ ocRoot.extras < MaxExtra
    /\ Accepts(ocRoot.server, Extra)
    /\ ocRoot' = [ocRoot EXCEPT !.extras = @ + 1]
    /\ UNCHANGED <<ocLogger, ocTurn, ocPast>>

Abandons(turns) == [ocPast EXCEPT !.forced = @ \cup {t \in OcTurn : OcRunning(t)}]

\* forceIdleOpencodeSdk: the loop saw 30 silent minutes, a stop, or the server disposed.
ForceIdle ==
    /\ ocRoot.busy
    /\ Evict([ocRoot EXCEPT !.busy = FALSE])
    /\ ocPast' = Abandons(ocTurn)
    /\ UNCHANGED <<ocOwed, ocTurn>>

\* closeOpencodeSdkClient: the server goes, the busy mark stays with the turn.
CloseClient ==
    /\ ocRoot.server # 0
    /\ Evict(ocRoot)
    /\ UNCHANGED <<ocOwed, ocTurn, ocPast>>

-----------------------------------------------------------------------------
OcNext ==
    \/ \E s \in OcTurn : \/ AgentIdle(s) \/ AgentAsks(s) \/ AgentErrs(s) \/ IdleAfterError(s)
                       \/ ServerGoes(s) \/ LoggerHears(s) \/ LoggerFails(s)
    \/ \E t \in OcTurn : \/ OcDispatch(t) \/ Booted(t) \/ Subscribes(t) \/ PromptArrives(t)
                       \/ Throws(t) \/ Reads(t) \/ GivesUp(t)
    \/ ExtraPrompt \/ ForceIdle \/ CloseClient

\* The loop's own poll clears the mark in the end, whatever the server does.
OcFairness == WF_ocVars(ForceIdle)

OcSpec == OcInit /\ [][OcNext]_ocVars /\ OcFairness

-----------------------------------------------------------------------------
\* The busy mark is the loop's only view of a turn.  It is clear while the last turn
\* still runs only if that turn was itself abandoned, or an abandoned one, ending
\* late, cleared the mark of its successor (the finally of the turn).
BusyIsTrue ==
    \A t \in OcTurn :
        OcRunning(t) /\ ~ocRoot.busy =>
            \/ t \in ocPast.forced
            \/ \E u \in ocPast.forced : u < t /\ ~OcRunning(u)

\* A server that runs and is not the remembered one can no longer be closed by
\* anybody; it takes an abandoned turn and a later one that started its own server.
ServersKnown ==
    \A s \in OcTurn :
        ServerUp(s) /\ ocRoot.server # s =>
            \E u \in ocPast.forced, v \in OcTurn : u < v /\ ocServer[v] # "no"

\* A turn ends on a session.idle that is not the answer to its prompt only after a
\* steer or a compaction, or after an earlier turn on that server ended unanswered
\* (an error, the 30 minutes) and left its own session.idle behind, or an abandoned
\* turn made two of them overlap.
EarlyEndComesFrom ==
    \A t \in ocPast.early :
        \/ ocRoot.extras > 0
        \/ ocPast.forced # {}
        \/ \E u \in ocPast.short : u < t /\ ocTurn[u].server = ocTurn[t].server

\* The remembered server has its logger, which alone answers permissions, unless the
\* logger lost its stream or abandoned turns took the log channel away under it.
ServerHeard ==
    ocRoot.server # 0 /\ ServerUp(ocRoot.server) /\ ocRoot.server \notin ocLogger.on =>
        ocLogger.lost \/ ocPast.forced # {}

OneTurnOneServer == BusyIsTrue /\ ServersKnown /\ EarlyEndComesFrom /\ ServerHeard

\* The loop is never left waiting on the busy mark.
LoopFreed == ocRoot.busy ~> ~ocRoot.busy
=============================================================================
