----------------------------- MODULE AcpSession -----------------------------
(***************************************************************************)
(* One workspace's persistent agent: the AcpSession of AcpSession.ts, the   *)
(* agent processes it starts, and the host of a turn, sendGrokAcpPrompt and *)
(* ensureGrokAcpSteer of grok/tui.ts (opencode/acp.ts has the same hosts    *)
(* without the retry).                                                      *)
(*                                                                         *)
(* The session speaks JSON-RPC with a child process over its stdin and      *)
(* stdout.  A turn is one session/prompt; a steer is one more, which the    *)
(* agent queues.  Timers, answers, updates and exit events come in any      *)
(* order.  What a promise's continuation does runs before the next event:   *)
(* such steps are "urgent" and nothing else happens first.                  *)
(*                                                                         *)
(* Not shown: leader mode (attach without load), the text of updates.  Time *)
(* is abstract: a timer that is armed may expire.                           *)
(***************************************************************************)
EXTENDS Integers, Sequences, Functions

CONSTANTS
    Tool,           \* ids of tool calls
    MaxProc,        \* bound: processes not yet reaped
    MaxPrompt       \* bound: prompts alive somewhere

ASSUME AcpBounds == MaxProc \in Nat \ {0} /\ MaxPrompt \in Nat \ {0}

Proc == 1..MaxProc
Id == 1..MaxPrompt

VARIABLES
    (* AcpSession *)
    child,          \* this.child, 0 for null
    sid,            \* _sessionId
    want,           \* _wantSessionId
    stage,          \* where _startup is; "ok" and "failed": it has just settled
    loading,        \* _loading
    verify,         \* _resumeNeedsVerify
    pending,        \* prompts awaited: _inflight, and pending of the RPC layer
    names,          \* _toolNames
    output,         \* _turnHadOutput
    (* the host *)
    turn,           \* the turn, and which runTurn of it this is
    steerWaits,     \* ensureGrokAcpSteer awaits ensureReady
    (* the agent processes *)
    life,           \* "dead": ended, its exit event not yet delivered
    mine,           \* its handlers are those of the session in _acpSessions
    has,            \* has a session: "replay" while it loads one
    queue,          \* its prompts, the first one running
    (* outside *)
    office,         \* tools the office shows as running
    late            \* prompts given up by the request timer

session == <<child, sid, want, stage, loading, verify, pending, names, output>>
procs == <<life, mine, has, queue>>
vars == <<session, turn, steerWaits, procs, office, late>>

Turn(pc, i, run) == [pc |-> pc, id |-> i, res |-> "none", run |-> run, stall |-> "off"]
NoTurn == Turn("idle", 0, 1)

Alive == child # 0
Ready == Alive /\ sid # "none"                 \* what ensureReady looks at
IsBusy == turn.pc \in {"prompt", "drain", "over", "grace"} \/ pending # {}
Urgent == stage \in {"ok", "failed"} \/ turn.pc \in {"over", "retry"}

Queued(i) == \E p \in Proc : life[p] = "run" /\ i \in Range(queue[p])
FreeIds == {i \in Id : i \notin pending /\ i # turn.id /\ ~Queued(i)}

TurnRecords ==
    [pc : {"idle", "starting", "restarting", "prompt", "drain", "over", "retry", "grace"},
     id : 0..MaxPrompt,
     res : {"none", "clean", "error", "timeout", "stall"},
     run : 1..2, stall : {"off", "armed"}]

Turns == {t \in TurnRecords : t.pc # "idle" => t.id # 0}

TypeOK ==
    /\ child \in 0..MaxProc /\ sid \in {"none", "s"} /\ want \in {"none", "s"}
    /\ stage \in {"none", "init", "load", "new", "ok", "failed"}
    /\ loading \in {"no", "yes"} /\ verify \in {"no", "yes"}
    /\ pending \in SUBSET Id /\ names \in SUBSET Tool /\ output \in {"no", "yes"}
    /\ turn \in Turns
    /\ steerWaits \in {"no", "yes"}
    /\ life \in [Proc -> {"gone", "run", "dead"}] /\ mine \in [Proc -> {"no", "yes"}]
    /\ has \in [Proc -> {"no", "replay", "yes"}] /\ queue \in [Proc -> Seq(Id)]
    /\ office \in SUBSET Tool /\ late \in SUBSET Id

Init ==
    /\ child = 0 /\ sid = "none" /\ want \in {"none", "s"} /\ stage = "none"
    /\ loading = "no" /\ verify = "no" /\ pending = {} /\ names = {} /\ output = "no"
    /\ turn = NoTurn /\ steerWaits = "no"
    /\ life = [p \in Proc |-> "gone"] /\ mine = [p \in Proc |-> "no"]
    /\ has = [p \in Proc |-> "no"] /\ queue = [p \in Proc |-> <<>>]
    /\ office = {} /\ late = {}

-----------------------------------------------------------------------------
(* Pieces of the handlers. *)

\* _spawnChild: the new process takes the place of whatever this.child was.
\* Without a free process (bound) it fails.
Spawn ==
    \/ /\ \E p \in Proc :
            /\ life[p] = "gone" /\ \A r \in 1..(p - 1) : life[r] # "gone"
            /\ child' = p
            /\ life' = [life EXCEPT ![p] = "run"] /\ mine' = [mine EXCEPT ![p] = "yes"]
            /\ has' = [has EXCEPT ![p] = "no"] /\ queue' = [queue EXCEPT ![p] = <<>>]
       /\ stage' = "init"
    \/ /\ \A p \in Proc : life[p] # "gone"
       /\ stage' = "failed"
       /\ UNCHANGED <<child, procs>>

\* c.kill('SIGKILL') of close().
Killed == IF Alive /\ life[child] = "run" THEN [life EXCEPT ![child] = "dead"] ELSE life

\* _flushOpenTools: every tool still open is reported as ended.
FlushOpenTools == names' = {} /\ office' = office \ names

\* A startup whose requests all fail at once because the child is lost: with an
\* id left from before it succeeds all the same.
Lost == IF stage = "none" THEN "none" ELSE IF sid = "none" THEN "failed" ELSE "ok"

\* Mistake: the turn is over when its own prompt is, the steers are not drained.
AwaitOwn(pend, r) ==
    IF turn.pc = "prompt" /\ turn.id \notin pend
    THEN [turn EXCEPT !.pc = "over", !.res = r]
    ELSE turn

\* The racing promise of runTurn after some prompts were settled: the turn's own
\* answer is kept, and _drainInflight waits for the others.
Await(pend, r) ==
    IF turn.pc = "prompt" /\ turn.id \notin pend
    THEN [turn EXCEPT !.pc = IF pend = {} THEN "over" ELSE "drain", !.res = r]
    ELSE IF turn.pc = "drain" /\ pend = {} THEN [turn EXCEPT !.pc = "over"]
    ELSE turn

\* Mistake: the replay guard stays up when the child is lost.
DropChildStillLoading ==
    /\ child' = 0 /\ pending' = {} /\ stage' = Lost
    /\ FlushOpenTools
    /\ UNCHANGED loading

\* What close() and _onExit() both do to the session.
DropChild ==
    /\ child' = 0 /\ loading' = "no" /\ pending' = {} /\ stage' = Lost
    /\ FlushOpenTools

\* close(), with the turn's race settled otherwise by w.
Close(w) ==
    /\ DropChild
    /\ life' = Killed
    /\ turn' = w
    /\ UNCHANGED <<sid, want, verify, output>>

-----------------------------------------------------------------------------
(* Starting the agent. *)

\* session/new, session/load or nothing, after the handshake.
AfterHandshake ==
    IF want # "none"
    THEN /\ stage' = "load" /\ loading' = "yes"
         /\ has' = IF life[child] = "run" THEN [has EXCEPT ![child] = "replay"] ELSE has
    ELSE /\ stage' = (IF sid = "none" THEN "new" ELSE "ok") /\ UNCHANGED <<loading, has>>

\* initialize and authenticate answered, or initialize timed out, which nobody
\* looks at.
Handshake ==
    /\ ~Urgent /\ stage = "init"
    /\ AfterHandshake
    /\ UNCHANGED <<child, sid, want, verify, pending, names, output, turn, steerWaits,
                   life, mine, queue, office, late>>

\* No usable login.
AuthRefused ==
    /\ ~Urgent /\ stage = "init" /\ life[child] = "run"
    /\ stage' = "failed"
    /\ UNCHANGED <<child, sid, want, loading, verify, pending, names, output, turn,
                   steerWaits, procs, office, late>>

\* session/load answered.  The replayed tools were not shown: their names go
\* without an end.
Loaded ==
    /\ ~Urgent /\ stage = "load" /\ life[child] = "run" /\ has[child] = "replay"
    /\ sid' = "s" /\ want' = "s" /\ stage' = "ok"
    /\ loading' = "no" /\ verify' = "yes" /\ names' = {}
    /\ has' = [has EXCEPT ![child] = "yes"]
    /\ UNCHANGED <<child, pending, output, turn, steerWaits, life, mine, queue,
                   office, late>>

\* session/load refused, or timed out with the agent still at it.  An id left
\* from before counts as a session.
LoadFails ==
    /\ ~Urgent /\ stage = "load"
    /\ loading' = "no" /\ names' = {}
    /\ stage' = (IF sid = "none" THEN "new" ELSE "ok")
    /\ \/ has' = [has EXCEPT ![child] = "no"]
       \/ UNCHANGED has
    /\ UNCHANGED <<child, sid, want, verify, pending, output, turn, steerWaits,
                   life, mine, queue, office, late>>

NewSession ==
    /\ ~Urgent /\ stage = "new" /\ life[child] = "run"
    /\ sid' = "s" /\ want' = "s" /\ stage' = "ok"
    /\ has' = [has EXCEPT ![child] = "yes"]
    /\ UNCHANGED <<child, loading, verify, pending, names, output, turn, steerWaits,
                   life, mine, queue, office, late>>

\* session/new refused or timed out.
NewFails ==
    /\ ~Urgent /\ stage = "new"
    /\ stage' = "failed"
    /\ UNCHANGED <<child, sid, want, loading, verify, pending, names, output, turn,
                   steerWaits, procs, office, late>>

-----------------------------------------------------------------------------
(* The host: a turn, and a steer of the drain. *)

\* _promptRequest on the session as it is: to a lost child it fails at once.
SendTurn ==
    IF Alive
    THEN /\ pending' = pending \cup {turn'.id} /\ late' = late \ {turn'.id}
         /\ queue' = IF life[child] = "run"
                     THEN [queue EXCEPT ![child] = Append(@, turn'.id)] ELSE queue
    ELSE UNCHANGED <<pending, late, queue>>

\* The race of runTurn begins; the short deadline only after a session/load.
Racing(t) == [t EXCEPT !.pc = IF Alive THEN "prompt" ELSE "over",
                       !.res = IF Alive THEN "none" ELSE "error",
                       !.stall = IF verify = "yes" THEN "armed" ELSE "off"]

\* sendGrokAcpPrompt, up to the first wait.
Dispatch ==
    /\ ~Urgent /\ turn.pc = "idle"
    /\ \E i \in FreeIds :
        /\ \A j \in FreeIds : i <= j
        /\ IF Ready
           THEN /\ turn' = Racing(Turn("prompt", i, 1)) /\ output' = "no"
                /\ SendTurn
                /\ UNCHANGED <<child, stage, life, mine, has>>
           ELSE /\ turn' = Turn("starting", i, 1)
                /\ IF stage = "none" THEN Spawn ELSE UNCHANGED <<child, stage, procs>>
                /\ UNCHANGED <<pending, output, late>>
    /\ UNCHANGED <<sid, want, loading, verify, names, steerWaits, office>>

\* ensureGrokAcpSteer on a session that is not up.
SteerEnsure ==
    /\ ~Urgent /\ ~Ready /\ steerWaits = "no"
    /\ steerWaits' = "yes"
    /\ IF stage = "none" THEN Spawn ELSE UNCHANGED <<child, stage, procs>>
    /\ UNCHANGED <<sid, want, loading, verify, pending, names, output, turn,
                   office, late>>

\* Mistake: the steer is sent without being entered in _inflight.
SendSteerUntracked ==
    \E i \in FreeIds :
        /\ \A j \in FreeIds : i <= j
        /\ queue' = IF life[child] = "run" THEN [queue EXCEPT ![child] = Append(@, i)] ELSE queue
        /\ late' = late \ {i}
        /\ UNCHANGED pending

\* steerTracked: one more prompt in the agent's queue.
SendSteer ==
    \E i \in FreeIds :
        /\ \A j \in FreeIds : i <= j
        /\ pending' = pending \cup {i} /\ late' = late \ {i}
        /\ queue' = IF life[child] = "run" THEN [queue EXCEPT ![child] = Append(@, i)] ELSE queue

Steer ==
    /\ ~Urgent /\ Ready
    /\ SendSteer
    /\ UNCHANGED <<child, sid, want, stage, loading, verify, names, output, turn, steerWaits,
                   life, mine, has, office>>

\* ensureReady settled for the steer: it is sent, or stays on the journal.
ResumeSteer ==
    /\ stage \in {"ok", "failed"} /\ steerWaits = "yes"
    /\ steerWaits' = "no"
    /\ IF stage = "ok" /\ Ready /\ FreeIds # {} THEN SendSteer ELSE UNCHANGED <<pending, late, queue>>
    /\ UNCHANGED <<child, sid, want, stage, loading, verify, names, output, turn,
                   life, mine, has, office>>

\* ensureReady settled for the turn.  runTurn calls it once more, which starts
\* a child lost in the meantime again; after that it prompts in any case.
ResumeTurn ==
    /\ stage = "ok" /\ steerWaits = "no"
    /\ IF turn.pc = "starting" /\ ~Alive
       THEN /\ turn' = [turn EXCEPT !.pc = "restarting"]
            /\ Spawn
            /\ UNCHANGED <<pending, output, late>>
       ELSE /\ stage' = "none"
            /\ IF turn.pc \in {"starting", "restarting"}
               THEN turn' = Racing(turn) /\ output' = "no" /\ SendTurn
               ELSE UNCHANGED <<turn, output, pending, late, queue>>
            /\ UNCHANGED <<child, life, mine, has>>
    /\ UNCHANGED <<sid, want, loading, verify, names, steerWaits, office>>

\* The session is dropped from _acpSessions; the next one is seeded with the id
\* persisted or found on disk.  What its processes may still do is not followed.
ForgetSession ==
    /\ sid' = "none" /\ want' \in {"none", "s"} /\ verify' = "no"
    /\ mine' = [p \in Proc |-> "no"] /\ has' = [p \in Proc |-> "no"]
    /\ queue' = [p \in Proc |-> <<>>] /\ late' = {}

\* ensureReady failed.  The first time the host closes the session and runs the
\* turn headless, or asks for a login; later it only reports an error.
StartupFailed ==
    /\ stage = "failed" /\ steerWaits = "no"
    /\ stage' = "none"
    /\ IF turn.pc = "starting" /\ turn.run = 1
       THEN /\ child' = 0 /\ life' = Killed /\ loading' = "no" /\ pending' = {}
            /\ FlushOpenTools /\ ForgetSession
            /\ turn' = NoTurn
       ELSE /\ IF turn.pc \in {"starting", "restarting"}
               THEN turn' = NoTurn ELSE UNCHANGED turn
            /\ UNCHANGED <<child, sid, want, loading, verify, pending, names, office, procs, late>>
    /\ UNCHANGED <<output, steerWaits>>

\* Mistake: a stalled resume is retried as often as it stalls.
EndTurnAlwaysRetrying ==
    IF turn.res = "stall"
    THEN /\ ForgetSession
         /\ turn' = Turn("retry", turn.id, turn.run + 1)
    ELSE /\ turn' = NoTurn
         /\ UNCHANGED <<sid, want, verify, mine, has, queue, late>>

\* The end of runTurn, and of the host's turn: Stop or StopFailure, and the exit
\* file.  A stalled resume is dropped and the prompt tried once more.
EndTurn ==
    IF turn.res = "stall" /\ turn.run = 1
    THEN /\ ForgetSession
         /\ turn' = Turn("retry", turn.id, 2)
    ELSE /\ turn' = NoTurn
         /\ UNCHANGED <<sid, want, verify, mine, has, queue, late>>

TurnOver ==
    /\ turn.pc = "over" /\ stage \notin {"ok", "failed"}
    /\ IF turn.res = "clean" /\ output = "no"
       THEN /\ turn' = [turn EXCEPT !.pc = "grace"]
            /\ UNCHANGED <<sid, want, verify, mine, has, queue, late, names, office>>
       ELSE EndTurn /\ FlushOpenTools
    /\ UNCHANGED <<child, stage, loading, pending, output, steerWaits, life>>

\* A fresh session is started for it.
Retry ==
    /\ turn.pc = "retry" /\ stage \notin {"ok", "failed"}
    /\ turn' = [turn EXCEPT !.pc = "starting"]
    /\ Spawn
    /\ UNCHANGED <<sid, want, loading, verify, pending, names, output, steerWaits,
                   office, late>>

\* The wait for a trailing chunk: it came, or 600 ms went by.
GraceOver ==
    /\ ~Urgent /\ turn.pc = "grace"
    /\ EndTurn /\ FlushOpenTools
    /\ UNCHANGED <<child, stage, loading, pending, output, steerWaits, life>>

\* closeGrokTuiSession, not while the session is being started.
Teardown ==
    /\ ~Urgent /\ stage = "none" /\ turn.pc \notin {"starting", "restarting"}
    /\ DropChild /\ life' = Killed /\ turn' = Await({}, "error")
    /\ ForgetSession
    /\ UNCHANGED <<output, steerWaits>>

-----------------------------------------------------------------------------
(* Timers. *)

\* Mistake: prompts have no timer, as AcpSession.ts:922 says.
RequestTimeoutSteersOnly(i) ==
    /\ ~Urgent /\ i \in pending /\ i # turn.id
    /\ pending' = pending \ {i}
    /\ late' = IF Queued(i) THEN late \cup {i} ELSE late
    /\ turn' = Await(pending', "error")
    /\ UNCHANGED <<child, sid, want, stage, loading, verify, names, output, steerWaits,
                   procs, office>>

\* The timer of _request, which prompts go through as well.
RequestTimeout(i) ==
    /\ ~Urgent /\ i \in pending
    /\ pending' = pending \ {i}
    /\ late' = IF Queued(i) THEN late \cup {i} ELSE late
    /\ turn' = Await(pending', "error")
    /\ UNCHANGED <<child, sid, want, stage, loading, verify, names, output, steerWaits,
                   procs, office>>

\* The idle watchdog, or the absolute ceiling: cancel, close.
Watchdog ==
    /\ ~Urgent /\ turn.pc \in {"prompt", "drain"}
    /\ Close([turn EXCEPT !.pc = "over", !.res = "timeout"])
    /\ UNCHANGED <<steerWaits, mine, has, queue, late>>

\* Nothing at all since session/load.
ResumeStall ==
    /\ ~Urgent /\ turn.pc \in {"prompt", "drain"} /\ turn.stall = "armed" /\ verify = "yes"
    /\ Close([turn EXCEPT !.pc = "over", !.res = "stall"])
    /\ UNCHANGED <<steerWaits, mine, has, queue, late>>

-----------------------------------------------------------------------------
(* The agent. *)

Working(p) == life[p] = "run" /\ (has[p] = "replay" \/ queue[p] # <<>>)

\* Its updates reach the session, unless they are a replay being loaded.
Heard(p) == ~Urgent /\ mine[p] = "yes" /\ loading = "no"

ToolStart(p, t) ==
    /\ Working(p) /\ Heard(p) /\ t \notin office
    /\ names' = names \cup {t} /\ office' = office \cup {t}
    /\ output' = "yes" /\ verify' = "no"
    /\ UNCHANGED <<child, sid, want, stage, loading, pending, turn, steerWaits, procs, late>>

ToolEnd(p, t) ==
    /\ Working(p) /\ Heard(p) /\ t \in names
    /\ names' = names \ {t} /\ office' = office \ {t}
    /\ verify' = "no"
    /\ UNCHANGED <<child, sid, want, stage, loading, pending, output, turn, steerWaits,
                   procs, late>>

\* Assistant text, which may trail the answer.
Text(p) ==
    /\ life[p] = "run" /\ has[p] # "no" /\ Heard(p)
    /\ output' = "yes" /\ verify' = "no"
    /\ UNCHANGED <<child, sid, want, stage, loading, pending, names, turn, steerWaits,
                   procs, office, late>>

\* The first prompt is answered.  Without a session that is an error.
Answer(p, r) ==
    /\ ~Urgent /\ life[p] = "run" /\ queue[p] # <<>>
    /\ r = "clean" => has[p] = "yes"
    /\ queue' = [queue EXCEPT ![p] = Tail(@)]
    /\ late' = late \ {Head(queue[p])}
    /\ IF mine[p] = "yes"
       THEN pending' = pending \ {Head(queue[p])} /\ turn' = Await(pending', r)
       ELSE UNCHANGED <<pending, turn>>
    /\ UNCHANGED <<child, sid, want, stage, loading, verify, names, output, steerWaits,
                   life, mine, has, office>>

\* It finishes a session/load nobody waits for any more.
LateLoad(p) ==
    /\ ~Urgent /\ life[p] = "run" /\ has[p] = "replay" /\ ~(stage = "load" /\ child = p)
    /\ has' = [has EXCEPT ![p] = "yes"]
    /\ UNCHANGED <<session, turn, steerWaits, life, mine, queue, office, late>>

Crash(p) ==
    /\ ~Urgent /\ life[p] = "run"
    /\ life' = [life EXCEPT ![p] = "dead"]
    /\ UNCHANGED <<session, turn, steerWaits, mine, has, queue, office, late>>

\* _onExit, whichever of the session's processes it was that ended.
ExitEvent(p) ==
    /\ ~Urgent /\ life[p] = "dead"
    /\ life' = [life EXCEPT ![p] = "gone"]
    /\ IF mine[p] = "yes" THEN DropChild /\ turn' = Await({}, "error")
       ELSE UNCHANGED <<child, loading, pending, stage, names, office, turn>>
    /\ mine' = [mine EXCEPT ![p] = "no"] /\ has' = [has EXCEPT ![p] = "no"]
    /\ queue' = [queue EXCEPT ![p] = <<>>] /\ late' = {i \in late : Queued(i)}
    /\ UNCHANGED <<sid, want, verify, output, steerWaits>>

-----------------------------------------------------------------------------
Startup == Handshake \/ AuthRefused \/ Loaded \/ LoadFails \/ NewSession \/ NewFails

Continuation == ResumeSteer \/ ResumeTurn \/ StartupFailed \/ TurnOver \/ Retry

Next ==
    \/ Dispatch \/ Steer \/ SteerEnsure \/ Teardown
    \/ Startup \/ Continuation \/ GraceOver
    \/ Watchdog \/ ResumeStall
    \/ \E i \in Id : RequestTimeout(i)
    \/ \E p \in Proc :
        \/ \E t \in Tool : ToolStart(p, t) \/ ToolEnd(p, t)
        \/ Text(p) \/ LateLoad(p) \/ Crash(p) \/ ExitEvent(p)
        \/ \E r \in {"clean", "error"} : Answer(p, r)

\* The timers of the session expire, and continuations run.  Nothing is asked of
\* the agent.
Fairness ==
    /\ WF_vars(Startup) /\ WF_vars(Continuation) /\ WF_vars(GraceOver)
    /\ \A i \in Id : WF_vars(RequestTimeout(i))

Spec == Init /\ [][Next]_vars /\ Fairness

-----------------------------------------------------------------------------
(* Properties. *)

\* The guard that silences the replay is up only while session/load is under
\* way with a child: it is never stranded, however the child is lost.
LoadingNotStranded == loading = "yes" => stage = "load" /\ Alive

Backlog == IF Alive /\ life[child] = "run" THEN Range(queue[child]) ELSE {}

\* Whatever the child still has to do is awaited, or was given up by the request
\* timer: the session is not idle with work left in it that it lost count of.
WorkIsTracked == Backlog \subseteq pending \cup late

Forgotten == office \ names

\* A tool shown as running is forgotten only when a session/load ends: not by a
\* lost child, a closed session or the end of a turn, which all report the end
\* of every open tool.
ForgetsByReload == Forgotten' \subseteq Forgotten \/ (stage = "load" /\ stage' # "load")

OnlyReloadForgetsTools == [][ForgetsByReload]_vars

Orphans == {p \in Proc : life[p] = "run" /\ p # child}

\* A process runs on with nobody to stop it only if a later startup replaced the
\* one a failed startup had left, or if the exit event of an earlier child was
\* taken for the present one's.
OrphanedBySuccessor ==
    \A p \in Orphans' \ Orphans :
        \/ p = child /\ sid = "none" /\ stage' \in {"init", "failed"}
        \/ \E q \in Proc : q # p /\ life[q] = "dead" /\ life'[q] = "gone"

OrphansComeFrom == [][OrphanedBySuccessor]_vars

\* A turn that had output and ends clean leaves the agent nothing to do but what
\* the request timer gave up: the steers sent meanwhile were drained.
EndsIdle ==
    turn.pc = "over" /\ turn'.pc = "idle" /\ turn.res = "clean" => Backlog \subseteq late

CleanEndIsIdle == [][EndsIdle]_vars

\* No step loses what the session still answers for: a tool shown as running, a
\* process, a prompt of a turn that ends, in the parts above.
StepsLoseNothing == OnlyReloadForgetsTools /\ OrphansComeFrom /\ CleanEndIsIdle

\* Every turn ends, whatever the agent does, unless steers never stop coming.
TurnEnds ==
    \/ []<><<Steer \/ SteerEnsure>>_vars
    \/ (turn.pc # "idle") ~> (turn.pc = "idle")
=============================================================================
