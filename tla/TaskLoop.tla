------------------------------ MODULE TaskLoop ------------------------------
(***************************************************************************)
(* TaskLoopRunner of taskLoop.ts: one body (_runLoop) picks the next task   *)
(* of TODO.md, sends it to the provider's agent, waits until the task is    *)
(* settled, and keeps per-task counters that decide between retrying,       *)
(* blocking and ticking the box itself.  The code is single-threaded: a     *)
(* step below is what runs between two awaits that really give up the       *)
(* thread (the TODO.md writes do not: they are synchronous behind resolved  *)
(* promises).  The agent, the operator and the pollers act in between.      *)
(*                                                                          *)
(* Tasks are identified by their place in TODO.md: how a task is found      *)
(* again after the lines have moved is not this module's subject.  The      *)
(* opt-in verify gate (CONTROL.md) is off.                                  *)
(***************************************************************************)
EXTENDS Naturals, FiniteSets

CONSTANTS
    N,              \* number of lines TODO.md may hold
    MaxAttempts,    \* settings.maxTaskAttempts
    MaxStrand,      \* settings.maxStrandRetries
    MaxRetries,     \* settings.maxProviderRetries
    MaxNoProgress,  \* maxNoProgressTurns()
    Kind,           \* "cli", "grok", "opencode" (exit file) or "sdk" (busy flag)
    CanSwitch,      \* does the host pass setActiveProvider?
    Faults          \* what the environment may do besides working

ASSUME LoopBounds ==
    /\ N \in Nat \ {0}
    /\ MaxAttempts \in Nat \ {0} /\ MaxNoProgress \in Nat \ {0}
    /\ MaxStrand \in Nat /\ MaxRetries \in Nat

ASSUME LoopSettings ==
    /\ Kind \in {"cli", "grok", "opencode", "sdk"}
    /\ CanSwitch \in BOOLEAN
    /\ Faults \subseteq {"write", "send", "kill", "clobber", "human", "throttle",
                         "auth", "context", "periodic"}

Tasks == 1..N

NoTask == 0

Marks == {"absent", "todo", "wip", "done"}

(* How the promise of _waitForTaskCompletion was resolved.                   *)
Verdicts == {"seen", "lost", "stopped", "idle", "deferred", "give_up",
             "hard_fail", "retry"}

(* One wait: was the task blocked when it began, has the reminder been sent, *)
(* how far is onCliExit ("settle": in its 3 s sleep, "backoff": waiting to   *)
(* retry, "handled": this exit file is dealt with), and how did it end?      *)
Waits == [blockedBefore : {"no", "yes"},
          reminded : {"no", "yes"},
          exit : {"none", "settle", "backoff", "handled"},
          verdict : Verdicts \cup {"none"}]

NoWait == [blockedBefore |-> "no", reminded |-> "no", exit |-> "none", verdict |-> "none"]

VARIABLES
    (* TaskLoopRunner *)
    state,          \* _state
    pc,             \* where the body is suspended
    task,           \* the body's local variable task
    wait,           \* the wait in progress
    attempts,       \* _taskAttempts
    strand,         \* _strandCount
    hardFail,       \* _hardFailAttempts
    noProgress,     \* _noProgressCount
    blocked,        \* _blockedTasks
    pendingRetry,   \* _pendingRetry
    compacted,      \* _compactedTaskLines
    launched,       \* "yes": _iterations > 0
    timer,          \* _retryScheduler
    pauseReason,    \* _pauseReason
    abort,          \* _taskCompletionAbort: "set" or "null"
    leftover,       \* "yes": an onCliExit still sleeps its backoff for an ended wait
    provider,       \* getActiveProvider()
    savedMain,      \* _mainProviderBeforeFallback
    (* outside *)
    mark,           \* the task's marker in TODO.md
    agent,          \* "on": a provider process (or sdk turn) is alive
    exitFile,       \* "open": no exit code yet (sdk: the busy flag is set)
    (* history *)
    report,         \* the last thing the office was told about the task
    swept,          \* stranded sweeps of the task since it was last unblocked
    before          \* the TODO part of the progress signature taken at dispatch

counters == <<attempts, strand, hardFail, noProgress, blocked, pendingRetry, compacted>>
pause == <<timer, pauseReason, provider, savedMain>>
outside == <<mark, agent, exitFile>>
history == <<report, swept, before>>
vars == <<state, pc, task, wait, counters, launched, pause, abort, leftover, outside, history>>

Zero == [t \in Tasks |-> 0]

Bump(counter, t, max) == [counter EXCEPT ![t] = IF @ < max THEN @ + 1 ELSE @]

-----------------------------------------------------------------------------
(* TODO.md *)

In(s) == {t \in Tasks : mark[t] = s}

First(S) == {t \in S : \A u \in S : t <= u}               \* at most one

Open == In("todo") \cup In("wip")                         \* countRemaining

(* What a write of the loop can leave behind: markers of S set to s, or, when *)
(* TODO.md is locked, not (the error is swallowed at each call).              *)
Written(S, s) ==
    {[t \in Tasks |-> IF t \in W THEN s ELSE mark[t]] :
        W \in IF "write" \in Faults THEN SUBSET S ELSE {S}}

ResetToTodo(S) == Written(S \cap In("wip"), "todo")
MarkInProgress(t) == Written({t} \cap In("todo"), "wip")
MarkDone(t) == Written({t} \cap Open, "done")

(* found() of the wait: [x], or gone with nothing else open.                 *)
Found(t) == mark[t] = "done" \/ (mark[t] = "absent" /\ Open = {})

HowFound(t) == IF mark[t] = "done" THEN "seen" ELSE "lost"

(* cliIsRunning                                                              *)
Busy ==
    /\ launched = "yes"
    /\ exitFile = "open"
    /\ Kind = "opencode" => agent = "on"

TracksProgress == Kind # "cli"

(* The TODO.md part of _computeProgressSignature, taken for some providers.  *)
Signature == IF TracksProgress THEN mark ELSE before

-----------------------------------------------------------------------------
Init ==
    /\ state = "idle" /\ pc = "stopped"
    /\ task = NoTask /\ wait = NoWait
    /\ attempts = Zero /\ strand = Zero /\ hardFail = Zero /\ noProgress = Zero
    /\ blocked = {} /\ pendingRetry = {} /\ compacted = {}
    /\ launched = "no"
    /\ timer = "off" /\ pauseReason = "none"
    /\ abort = "null" /\ leftover = "no"
    /\ provider = "main" /\ savedMain = "none"
    /\ mark \in [Tasks -> {"absent", "todo", "wip"}]
    /\ agent = "off"
    /\ exitFile = IF Kind = "sdk" THEN "clean" ELSE "open"
    /\ report = [t \in Tasks |-> "none"]
    /\ swept = Zero
    /\ before = [t \in Tasks |-> "absent"]

(* The body goes back to its while condition.                                *)
Continue ==
    /\ pc' = "top"
    /\ task' = NoTask
    /\ wait' = NoWait

(* start(): loads the settings and clears the per-run tables; with            *)
(* autoResetPendingTasks the body first rewrites every [~] as [ ].  Only a   *)
(* loop that is really idle is started here.                                 *)
Start ==
    /\ state = "idle" /\ pc = "stopped"
    /\ state' = "running"
    /\ Continue
    /\ attempts' = Zero /\ strand' = Zero /\ hardFail' = Zero /\ noProgress' = Zero
    /\ blocked' = {} /\ pendingRetry' = {} /\ compacted' = {}
    /\ launched' = "no"
    /\ mark' \in {mark} \cup ResetToTodo(Tasks)
    /\ swept' = Zero
    /\ UNCHANGED <<pause, abort, leftover, agent, exitFile, report, before>>

(* The while condition is false: the body ends and start() goes idle.        *)
LoopExit ==
    /\ pc = "top" /\ state # "running"
    /\ pc' = "stopped" /\ state' = "idle"
    /\ UNCHANGED <<task, wait, counters, launched, pause, abort, leftover, outside, history>>

(* The fallback period is over: back to the provider that was throttled.     *)
RestoreMain ==
    /\ pc = "top" /\ state = "running"
    /\ savedMain # "none"
    /\ savedMain' = "none"
    /\ provider' = IF CanSwitch THEN savedMain ELSE provider
    /\ UNCHANGED <<state, pc, task, wait, counters, launched, timer, pauseReason, abort,
                   leftover, outside, history>>

-----------------------------------------------------------------------------
(* The pick: the first [ ] task; else, while the provider is busy, the first *)
(* [~] task is watched; else a [~] task queued for a retry is sent again.    *)
AtTop == pc = "top" /\ state = "running"

Fresh == First(In("todo"))

Watched == IF In("todo") = {} /\ Busy THEN First(In("wip")) ELSE {}

(* Mistake: any [~] task is sent again, not only the queued ones.            *)
RedoAnything == IF In("todo") = {} /\ ~Busy THEN First(In("wip")) ELSE {}

Redo == IF In("todo") = {} /\ ~Busy THEN First(In("wip") \cap pendingRetry) ELSE {}

(* Mistake: the ceiling is noticed one attempt too late.                     *)
ExhaustedLate(t) == attempts[t] > MaxAttempts

Exhausted(t) == attempts[t] >= MaxAttempts

(* The await of _waitForTaskCompletion begins with the tables as they are in *)
(* the next state; it is over at once when the loop is no longer running or  *)
(* the agent was quicker.  AfterWait: where the body goes when it is over.   *)
AfterWait(t, blockedBefore, b, p) ==
    IF (t \in b /\ blockedBefore = "no") \/ t \in p THEN "top" ELSE "flush"

EnterWait(t, b, p) ==
    LET blockedBefore == IF t \in b THEN "yes" ELSE "no"
        over == state # "running" \/ Found(t)
    IN  /\ pc' = IF over THEN AfterWait(t, blockedBefore, b, p) ELSE "wait"
        /\ task' = IF over /\ AfterWait(t, blockedBefore, b, p) = "top" THEN NoTask ELSE t
        /\ abort' = IF over THEN abort ELSE "set"
        /\ wait' = IF over /\ AfterWait(t, blockedBefore, b, p) = "top" THEN NoWait
                   ELSE [NoWait EXCEPT
                           !.blockedBefore = blockedBefore,
                           !.verdict = IF ~over THEN "none"
                                       ELSE IF state # "running" THEN "stopped"
                                       ELSE HowFound(t)]

(* A genuine dispatch, or the re-dispatch of a retry, which keeps the        *)
(* hard-failure count.  A busy provider is not sent anything.                *)
Dispatch(t) ==
    /\ AtTop
    /\ t \in Fresh \cup Redo
    /\ ~Exhausted(t)
    /\ attempts' = [attempts EXCEPT ![t] = @ + 1]
    /\ hardFail' = IF t \in Fresh THEN [hardFail EXCEPT ![t] = 0] ELSE hardFail
    /\ blocked' = blocked \ {t}
    /\ pendingRetry' = IF t \in Redo THEN pendingRetry \ {t} ELSE pendingRetry
    /\ launched' = "yes"
    /\ IF Busy
       THEN EnterWait(t, blocked', pendingRetry')
       ELSE pc' = "send" /\ task' = t /\ UNCHANGED <<wait, abort>>
    /\ report' = [report EXCEPT ![t] = "started"]
    /\ swept' = IF t \in blocked THEN [swept EXCEPT ![t] = 0] ELSE swept
    /\ before' = Signature
    /\ UNCHANGED <<state, strand, noProgress, compacted, pause, leftover, outside>>

(* No [ ] task and the provider is busy: wait for a [~] task without sending. *)
(* task_start goes out unless the label is the one shown since a pause.      *)
Watch(t) ==
    /\ AtTop
    /\ t \in Watched
    /\ EnterWait(t, blocked, pendingRetry)
    /\ \/ report' = [report EXCEPT ![t] = "started"]
       \/ report[t] \in {"reauth_required", "rate_limit"} /\ UNCHANGED report
    /\ before' = Signature
    /\ UNCHANGED <<state, counters, launched, pause, leftover, outside, swept>>

(* Sent MaxAttempts times without being completed: the loop ticks the box.   *)
ForceMark(t) ==
    /\ AtTop
    /\ t \in Fresh \cup Redo
    /\ Exhausted(t)
    /\ attempts' = [attempts EXCEPT ![t] = 0]
    /\ hardFail' = IF t \in Fresh THEN [hardFail EXCEPT ![t] = 0] ELSE hardFail
    /\ blocked' = blocked \ {t}
    /\ pendingRetry' = IF t \in Redo THEN pendingRetry \ {t} ELSE pendingRetry
    /\ launched' = "yes"
    /\ mark' \in MarkDone(t)
    /\ swept' = IF t \in blocked THEN [swept EXCEPT ![t] = 0] ELSE swept
    /\ UNCHANGED <<state, pc, task, wait, strand, noProgress, compacted, pause, abort,
                   leftover, agent, exitFile, report, before>>

-----------------------------------------------------------------------------
(* Nothing to pick.  The loop sleeps; when [~] tasks are left and no process *)
(* is running, each one that is neither blocked nor queued for a retry is    *)
(* put back to [ ], at most MaxStrand times, and then blocked.               *)
NothingToPick == AtTop /\ Fresh = {} /\ Watched = {} /\ Redo = {}

(* Mistake: blocked tasks are swept too.                                     *)
StrandedAlsoBlocked == In("wip") \ pendingRetry

Stranded == In("wip") \ (blocked \cup pendingRetry)

StrandSweep ==
    LET given_up == {t \in Stranded : strand[t] + 1 > MaxStrand}
    IN  /\ strand' = [t \in Tasks |-> IF t \in given_up THEN 0
                                      ELSE IF t \in Stranded THEN strand[t] + 1
                                      ELSE strand[t]]
        /\ blocked' = blocked \cup given_up
        /\ mark' \in ResetToTodo(Stranded \ given_up)
        /\ report' = [t \in Tasks |-> IF t \in given_up THEN "failed" ELSE report[t]]
        /\ swept' = [t \in Tasks |-> IF t \in Stranded THEN swept[t] + 1 ELSE swept[t]]

(* opencode-cli that stopped cleanly left its [~] task waiting for a reply.  *)
AwaitsReply == Kind = "opencode" /\ exitFile = "clean"

IdleOrSweep ==
    /\ NothingToPick
    /\ pc' = "sleep"
    /\ \/ /\ ~Busy
          /\ Stranded # {}
          /\ StrandSweep
       \/ /\ Busy \/ Stranded = {} \/ AwaitsReply
          /\ UNCHANGED <<strand, blocked, mark, report, swept>>
    /\ UNCHANGED <<state, task, wait, attempts, hardFail, noProgress, pendingRetry, compacted,
                   launched, pause, abort, leftover, agent, exitFile, before>>

(* The loop interval is over, or a poller appended a task.                   *)
Wake ==
    /\ pc = "sleep"
    /\ pc' = "top"
    /\ UNCHANGED <<state, task, wait, counters, launched, pause, abort, leftover, outside,
                   history>>

-----------------------------------------------------------------------------
(* sendToAi returns once the prompt is delivered, with a fresh exit file.    *)
SendOk ==
    /\ pc = "send"
    /\ agent' = "on" /\ exitFile' = "open"
    /\ EnterWait(task, blocked, pendingRetry)
    /\ UNCHANGED <<state, counters, launched, pause, leftover, mark, history>>

(* sendToAi throws, before or after the fresh exit file was laid out: the    *)
(* generic failure, reported and left as it is in TODO.md.                   *)
SendThrows ==
    /\ pc = "send"
    /\ "send" \in Faults
    /\ exitFile' \in {exitFile} \cup (IF Kind = "sdk" THEN {} ELSE {"open"})
    /\ report' = [report EXCEPT ![task] = "failed"]
    /\ Continue
    /\ UNCHANGED <<state, counters, launched, pause, abort, leftover, mark, agent, swept,
                   before>>

-----------------------------------------------------------------------------
(* cleanup() and the end of the wait.  The tables are those of the next      *)
(* state.  An onCliExit that sleeps its backoff is left behind: it is going  *)
(* to run cleanup() again, on whatever wait is then in progress.             *)
Cleanup ==
    /\ abort' = "null"
    /\ leftover' = IF wait.exit = "backoff" THEN "yes" ELSE leftover

Resolve(verdict, b, p) ==
    IF AfterWait(task, wait.blockedBefore, b, p) = "top"
    THEN Continue
    ELSE /\ pc' = "flush"
         /\ wait' = [wait EXCEPT !.verdict = verdict, !.exit = "none"]
         /\ UNCHANGED task

(* check(), by the file watcher or the 3 s poller: the loop was stopped, the *)
(* task is done, or its line has been gone for longer than the grace period. *)
Check ==
    /\ pc = "wait"
    /\ \/ state # "running" /\ Resolve("stopped", blocked, pendingRetry)
       \/ state = "running" /\ Found(task) /\ Resolve(HowFound(task), blocked, pendingRetry)
       \/ /\ state = "running" /\ mark[task] = "absent" /\ ~Found(task)
          /\ Resolve("lost", blocked, pendingRetry)
    /\ Cleanup
    /\ UNCHANGED <<state, counters, launched, pause, outside, history>>

(* An sdk turn ended: the poller ends the wait whatever became of the task.  *)
SdkIdle ==
    /\ pc = "wait" /\ Kind = "sdk"
    /\ exitFile # "open"
    /\ Resolve(IF state # "running" THEN "stopped"
               ELSE IF Found(task) THEN HowFound(task) ELSE "idle", blocked, pendingRetry)
    /\ Cleanup
    /\ UNCHANGED <<state, counters, launched, pause, outside, history>>

-----------------------------------------------------------------------------
(* onCliExit.  The exit file got its code, or opencode fell silent; 3 s      *)
(* later, if the wait is still on, the exit is judged.                       *)
ExitSeen ==
    /\ pc = "wait" /\ state = "running" /\ Kind # "sdk"
    /\ wait.exit = "none"
    /\ exitFile # "open" \/ (Kind = "opencode" /\ agent = "off")
    /\ wait' = [wait EXCEPT !.exit = "settle"]
    /\ UNCHANGED <<state, pc, task, counters, launched, pause, abort, leftover, outside, history>>

Judged == pc = "wait" /\ wait.exit = "settle"

(* Mistake: decide() trusts the look at TODO.md taken before the 3 s.        *)
StillOpenAssumed == TRUE

StillOpen == ~Found(task)

ExitDone ==
    /\ Judged /\ Found(task)
    /\ wait' = [wait EXCEPT !.exit = "handled"]
    /\ UNCHANGED <<state, pc, task, counters, launched, pause, abort, leftover, outside, history>>

(* A transient provider failure: the task stays [~], queued for a re-send    *)
(* that begins when the backoff is over.                                     *)
HardFailRetry ==
    /\ Judged /\ StillOpen
    /\ hardFail[task] < MaxRetries
    /\ hardFail' = [hardFail EXCEPT ![task] = @ + 1]
    /\ attempts' = [attempts EXCEPT ![task] = 0]
    /\ pendingRetry' = pendingRetry \cup {task}
    /\ mark' \in MarkInProgress(task)
    /\ wait' = [wait EXCEPT !.exit = "backoff"]
    /\ UNCHANGED <<state, pc, task, strand, noProgress, blocked, compacted, launched, pause,
                   abort, leftover, agent, exitFile, history>>

BackoffOver ==
    /\ pc = "wait" /\ wait.exit = "backoff"
    /\ Resolve("retry", blocked, pendingRetry)
    /\ abort' = "null"
    /\ UNCHANGED <<state, counters, launched, pause, leftover, outside, history>>

LeftoverCleanup ==
    /\ leftover = "yes"
    /\ leftover' = "no" /\ abort' = "null"
    /\ UNCHANGED <<state, pc, task, wait, counters, launched, pause, outside, history>>

(* The retries are used up, or the provider asked for a new login: the task  *)
(* is left [~], blocked, and reported failed.                                *)
HardFailBlock ==
    /\ Judged /\ StillOpen
    /\ hardFail[task] >= MaxRetries \/ "auth" \in Faults
    /\ hardFail' = Bump(hardFail, task, MaxRetries + 1)
    /\ attempts' = [attempts EXCEPT ![task] = 0]
    /\ blocked' = blocked \cup {task}
    /\ pendingRetry' = pendingRetry \ {task}
    /\ mark' \in MarkInProgress(task)
    /\ report' = [report EXCEPT ![task] = "failed"]
    /\ Resolve("hard_fail", blocked', pendingRetry')
    /\ Cleanup
    /\ UNCHANGED <<state, strand, noProgress, compacted, launched, pause, agent, exitFile,
                   swept, before>>

(* A clean exit with the task left [~]: the agent deferred it.               *)
Deferred ==
    /\ Judged /\ mark[task] = "wip" /\ wait.reminded = "no"
    /\ Resolve("deferred", blocked, pendingRetry)
    /\ Cleanup
    /\ UNCHANGED <<state, counters, launched, pause, outside, history>>

(* A clean exit with the task untouched: the agent is started once more to   *)
(* be reminded (a failing send is swallowed).                                *)
Remind ==
    /\ Judged /\ StillOpen
    /\ mark[task] # "wip" /\ wait.reminded = "no"
    /\ \/ /\ agent' = "on" /\ exitFile' = "open"
          /\ wait' = [wait EXCEPT !.reminded = "yes", !.exit = "none"]
       \/ /\ "send" \in Faults
          /\ exitFile' \in {exitFile, "open"}
          /\ wait' = [wait EXCEPT !.reminded = "yes", !.exit = "handled"]
          /\ UNCHANGED agent
    /\ UNCHANGED <<state, pc, task, counters, launched, pause, abort, leftover, mark, history>>

(* The reminded process exited too: the loop ticks the box.                  *)
GiveUp ==
    /\ Judged /\ StillOpen /\ wait.reminded = "yes"
    /\ mark' \in MarkDone(task)
    /\ Resolve("give_up", blocked, pendingRetry)
    /\ Cleanup
    /\ UNCHANGED <<state, counters, launched, pause, agent, exitFile, history>>

-----------------------------------------------------------------------------
(* The wait is rejected.  Each handler puts the task back to [ ]; a pause is *)
(* entered whatever the state was, with a timer only for a throttle.         *)
PauseLoop(reason, timed) ==
    /\ state' = "paused"
    /\ pc' = "paused"
    /\ pauseReason' = reason
    /\ timer' = IF timed THEN "armed" ELSE timer
    /\ task' = NoTask /\ wait' = NoWait

(* A non-zero exit whose output asks for a login.                            *)
AuthFails ==
    /\ Judged /\ "auth" \in Faults /\ exitFile = "failed"
    /\ Cleanup
    /\ mark' \in ResetToTodo({task})
    /\ report' = [report EXCEPT ![task] = "reauth_required"]
    /\ PauseLoop("reauth_required", FALSE)
    /\ UNCHANGED <<counters, launched, provider, savedMain, agent, exitFile, swept, before>>

CanFallBack == provider # "fallback" /\ savedMain = "none"

(* A throttle, in the output at exit or (claude) in the transcript: fall     *)
(* back to the other provider once, if the settings, read again here, say    *)
(* so; else pause until the reset time.                                      *)
Throttled ==
    /\ pc = "wait" /\ "throttle" \in Faults /\ Kind # "sdk"
    /\ wait.exit = "settle" \/ (Kind = "cli" /\ state = "running")
    /\ Cleanup
    /\ mark' \in ResetToTodo({task})
    /\ report' = [report EXCEPT ![task] = "rate_limit"]
    /\ \/ /\ CanFallBack
          /\ savedMain' = provider
          /\ provider' = IF CanSwitch THEN "fallback" ELSE provider
          /\ Continue
          /\ UNCHANGED <<state, pauseReason, timer>>
       \/ /\ PauseLoop("rate_limit", TRUE)
          /\ UNCHANGED <<provider, savedMain>>
    /\ UNCHANGED <<counters, launched, agent, exitFile, swept, before>>

(* The context is full: compact and try again, once; the second time pause.  *)
ContextFull ==
    /\ pc = "wait" /\ "context" \in Faults /\ Kind # "sdk"
    /\ Cleanup
    /\ mark' \in ResetToTodo({task})
    /\ IF task \in compacted
       THEN /\ PauseLoop("rate_limit", FALSE)
            /\ report' = [report EXCEPT ![task] = "rate_limit"]
            /\ UNCHANGED compacted
       ELSE /\ Continue
            /\ compacted' = compacted \cup {task}
            /\ UNCHANGED <<state, pauseReason, timer, report>>
    /\ UNCHANGED <<attempts, strand, hardFail, noProgress, blocked, pendingRetry, launched,
                   provider, savedMain, agent, exitFile, swept, before>>

(* Compacting does not help any more: clear the session and try again.       *)
Thrashing ==
    /\ pc = "wait" /\ "context" \in Faults /\ Kind # "sdk" /\ Kind # "opencode"
    /\ Cleanup
    /\ mark' \in ResetToTodo({task})
    /\ compacted' = compacted \ {task}
    /\ Continue
    /\ UNCHANGED <<state, attempts, strand, hardFail, noProgress, blocked, pendingRetry,
                   launched, pause, agent, exitFile, history>>

-----------------------------------------------------------------------------
(* The wait was resolved: the process gets some time to end (or its exit     *)
(* file a sentinel, its busy flag a reset).  A turn without a deliverable is *)
(* counted; otherwise the task is reported done and its counters dropped.    *)
TurnEnded == exitFile' = IF exitFile = "open" THEN "failed" ELSE exitFile

NoProgressAfter(t, changed) ==
    IF TracksProgress /\ ~changed /\ mark[t] # "done" THEN noProgress[t] + 1 ELSE 0

Changed(fileTouched) == mark # before \/ fileTouched

NoProgressBlock ==
    /\ pc = "flush"
    /\ NoProgressAfter(task, Changed(FALSE)) >= MaxNoProgress
    /\ TurnEnded
    /\ noProgress' = [noProgress EXCEPT ![task] = 0]
    /\ blocked' = blocked \cup {task}
    /\ attempts' = [attempts EXCEPT ![task] = 0]
    /\ pendingRetry' = pendingRetry \ {task}
    /\ mark' \in MarkInProgress(task)
    /\ report' = [report EXCEPT ![task] = "failed"]
    /\ Continue
    /\ UNCHANGED <<state, strand, hardFail, compacted, launched, pause, abort, leftover, agent,
                   swept, before>>

Complete(fileTouched) ==
    /\ pc = "flush"
    /\ NoProgressAfter(task, Changed(fileTouched)) < MaxNoProgress
    /\ TurnEnded
    /\ noProgress' = [noProgress EXCEPT ![task] = NoProgressAfter(task, Changed(fileTouched))]
    /\ attempts' = [attempts EXCEPT ![task] = 0]
    /\ hardFail' = [hardFail EXCEPT ![task] = 0]
    /\ pendingRetry' = pendingRetry \ {task}
    /\ compacted' = compacted \ {task}
    /\ report' = [report EXCEPT ![task] = "done"]
    /\ pc' = "post"
    /\ UNCHANGED <<state, task, wait, strand, blocked, launched, pause, abort, leftover, mark,
                   agent, swept, before>>

(* After a completion: the periodic actions, each awaited.  A prompt starts  *)
(* a turn nobody waits for; pruning moves the [x] lines to DONE.md.          *)
PeriodicPrompt ==
    /\ pc = "post" /\ "periodic" \in Faults
    /\ agent' = "on" /\ exitFile' = "open"
    /\ Continue
    /\ UNCHANGED <<state, counters, launched, pause, abort, leftover, mark, history>>

PeriodicPrune ==
    /\ pc = "post" /\ "periodic" \in Faults
    /\ mark' = [t \in Tasks |-> IF mark[t] = "done" THEN "absent" ELSE mark[t]]
    /\ UNCHANGED <<state, pc, task, wait, counters, launched, pause, abort, leftover, agent,
                   exitFile, history>>

PostDone ==
    /\ pc = "post"
    /\ Continue
    /\ UNCHANGED <<state, counters, launched, pause, abort, leftover, outside, history>>

-----------------------------------------------------------------------------

(* retry(): the operator's, or the timer's.                                  *)
Resume ==
    /\ state = "paused"
    /\ state' = "running"
    /\ timer' = "off" /\ pauseReason' = "none" /\ savedMain' = "none"
    /\ pc' = IF pc = "paused" THEN "top" ELSE pc
    /\ UNCHANGED <<task, wait, counters, launched, provider, abort, leftover, outside, history>>

Retry == Resume

TimerFires == timer = "armed" /\ Resume

(* stop(): wakes whatever the body awaits, a wait through its abort hook if  *)
(* that is still there.                                                      *)
Stop ==
    /\ state \in {"running", "paused"}
    /\ state' = "stopping"
    /\ timer' = "off" /\ pauseReason' = "none" /\ savedMain' = "none"
    /\ IF pc = "wait" /\ abort = "set"
       THEN Resolve("stopped", blocked, pendingRetry) /\ Cleanup
       ELSE /\ pc' = IF pc \in {"paused", "sleep"} THEN "top" ELSE pc
            /\ abort' = "null"
            /\ UNCHANGED <<task, wait, leftover>>
    /\ UNCHANGED <<counters, launched, provider, outside, history>>

-----------------------------------------------------------------------------
(* Outside.  A live agent ticks its way through TODO.md, any task it likes.  *)
AgentMarks(t) ==
    /\ agent = "on"
    /\ \/ mark[t] = "todo" /\ mark' \in {[mark EXCEPT ![t] = "wip"], [mark EXCEPT ![t] = "done"]}
       \/ mark[t] = "wip" /\ mark' = [mark EXCEPT ![t] = "done"]
       \/ "clobber" \in Faults /\ mark[t] \in {"todo", "wip"}
          /\ mark' = [mark EXCEPT ![t] = "absent"]
    /\ UNCHANGED <<state, pc, task, wait, counters, launched, pause, abort, leftover, agent,
                   exitFile, history>>

(* It ends with an exit code, or is killed together with the shell that      *)
(* would have written one.                                                   *)
AgentEnds ==
    /\ agent = "on"
    /\ agent' = "off"
    /\ \/ exitFile' \in {"clean", "failed"}
       \/ "kill" \in Faults /\ Kind # "sdk" /\ UNCHANGED exitFile
    /\ UNCHANGED <<state, pc, task, wait, counters, launched, pause, abort, leftover, mark, history>>

(* A poller appends a task and wakes the idle sleep.                         *)
NewTask(t) ==
    /\ mark[t] = "absent" /\ report[t] # "done"
    /\ mark' = [mark EXCEPT ![t] = "todo"]
    /\ pc' = IF pc = "sleep" THEN "top" ELSE pc
    /\ UNCHANGED <<state, task, wait, counters, launched, pause, abort, leftover, agent,
                   exitFile, history>>

(* Somebody reopens or ticks a task that was left [~].                       *)
HumanEdits(t) ==
    /\ "human" \in Faults
    /\ mark[t] = "wip"
    /\ mark' \in {[mark EXCEPT ![t] = "todo"], [mark EXCEPT ![t] = "done"]}
    /\ UNCHANGED <<state, pc, task, wait, counters, launched, pause, abort, leftover, agent,
                   exitFile, history>>

-----------------------------------------------------------------------------
Picks == IdleOrSweep \/ \E t \in Tasks : Dispatch(t) \/ Watch(t) \/ ForceMark(t)

Judgement ==
    \/ ExitDone \/ HardFailRetry \/ HardFailBlock \/ Deferred \/ Remind \/ GiveUp
    \/ AuthFails \/ (Judged /\ Throttled)

AfterTurn == NoProgressBlock \/ (\E touched \in BOOLEAN : Complete(touched)) \/ PostDone

Body ==
    \/ Picks \/ Wake \/ LoopExit \/ RestoreMain
    \/ SendOk \/ SendThrows
    \/ Check \/ SdkIdle \/ ExitSeen \/ BackoffOver \/ LeftoverCleanup
    \/ Judgement \/ (~Judged /\ Throttled) \/ ContextFull \/ Thrashing
    \/ AfterTurn \/ PeriodicPrompt \/ PeriodicPrune

Operator == Start \/ Stop \/ Retry

Outside == AgentEnds \/ \E t \in Tasks : AgentMarks(t) \/ NewTask(t) \/ HumanEdits(t)

Next == Body \/ TimerFires \/ Operator \/ Outside

Spec == Init /\ [][Next]_vars

(* The event loop runs what is ready and timers fire; a process ends sooner  *)
(* or later.  Nothing is assumed of the operator, of the provider's faults   *)
(* or of the agent's diligence.                                              *)
Ready ==
    \/ Picks \/ Wake \/ LoopExit \/ SendOk \/ SendThrows
    \/ Check \/ SdkIdle \/ ExitSeen \/ BackoffOver \/ Judgement \/ AfterTurn

Fairness == WF_vars(Ready) /\ WF_vars(TimerFires) /\ WF_vars(AgentEnds)

FairSpec == Spec /\ Fairness

-----------------------------------------------------------------------------
TypeOK ==
    /\ state \in {"idle", "running", "stopping", "paused"}
    /\ pc \in {"stopped", "top", "sleep", "send", "wait", "flush", "post", "paused"}
    /\ task \in Tasks \cup {NoTask}
    /\ pc \in {"send", "wait", "flush", "post"} => task # NoTask
    /\ wait \in Waits
    /\ attempts \in [Tasks -> 0..MaxAttempts]
    /\ strand \in [Tasks -> 0..MaxStrand]
    /\ hardFail \in [Tasks -> 0..MaxRetries + 1]
    /\ noProgress \in [Tasks -> 0..MaxNoProgress - 1]
    /\ blocked \subseteq Tasks /\ pendingRetry \subseteq Tasks /\ compacted \subseteq Tasks
    /\ launched \in {"no", "yes"}
    /\ timer \in {"off", "armed"}
    /\ pauseReason \in {"none", "reauth_required", "rate_limit"}
    /\ abort \in {"null", "set"} /\ leftover \in {"no", "yes"}
    /\ provider \in {"main", "fallback"} /\ savedMain \in {"none", "main", "fallback"}
    /\ mark \in [Tasks -> Marks] /\ before \in [Tasks -> Marks]
    /\ agent \in {"off", "on"} /\ exitFile \in {"open", "clean", "failed"}
    /\ report \in [Tasks -> {"none", "started", "done", "failed", "reauth_required", "rate_limit"}]
    /\ swept \in [Tasks -> Nat]

-----------------------------------------------------------------------------
(* Safety *)

(* The pause flags agree: the body is suspended exactly while the state says *)
(* paused and a reason is kept for reconnects, and only a throttle arms the  *)
(* timer, so a login or context pause ends by the operator alone (the        *)
(* handlers, retry() and stop()).                                            *)
PauseConsistent ==
    /\ state = "paused" <=> pc = "paused"
    /\ state = "paused" <=> pauseReason # "none"
    /\ timer = "armed" => pauseReason = "rate_limit"

(* A stranded task is swept at most MaxStrand + 1 times before it is blocked *)
(* and left alone, even if no write to TODO.md succeeds (the flood guard of  *)
(* the stranded sweep).                                                      *)
StrandBudget ==
    \A t \in Tasks : /\ swept[t] <= MaxStrand + 1
                     /\ swept[t] = MaxStrand + 1 => t \in blocked

(* The provider saved for the return is never the fallback itself, also when *)
(* retry() or stop() forgot it while the fallback was in force (the guard of *)
(* the rate-limit handler).                                                  *)
SavedIsMain == savedMain # "fallback"

(* What the loop keeps of a run, in the parts above.                          *)
LoopHolds == PauseConsistent /\ StrandBudget /\ SavedIsMain

(* No task is reported failed that has its box ticked: the strand, retry and *)
(* no-progress budgets all look at TODO.md again before they give up on one. *)
(* Only a send that throws reports without looking: it is not in that run.   *)
FailsOpen ==
    \A t \in Tasks : report[t] # "failed" /\ report'[t] = "failed" => mark[t] # "done"

FailedIsOpen == [][FailsOpen]_vars

ReportedDone(t) == report[t] # "done" /\ report'[t] = "done"

(* task_done for a task that is still open goes out only when the agent      *)
(* deferred it, the sdk turn ended without it, its line was lost for a       *)
(* while, the loop was being stopped, the box could not be ticked, or the    *)
(* task was watched although blocked; after a hard failure or a scheduled    *)
(* retry it never does (the guards after the wait).                          *)
Accounts ==
    \A t \in Tasks :
        ReportedDone(t) /\ mark[t] \in {"todo", "wip"}
        => \/ wait.verdict \in {"deferred", "idle", "lost", "stopped"}
           \/ wait.verdict = "give_up" /\ "write" \in Faults
           \/ wait.verdict = "hard_fail" /\ wait.blockedBefore = "yes"

DoneIsAccounted == [][Accounts]_vars

(* A blocked task stays out of the rotation until somebody reopens it or the *)
(* loop is restarted: it is not picked while it is [~] (_blockedTasks, "left *)
(* [~] on purpose").  Stated of the sdk providers: where exits are judged, a *)
(* blocked task that is watched can be queued for a retry.                   *)
KeepsOut == \A t \in blocked : t \notin blocked' => mark[t] = "todo" \/ pc = "stopped"

BlockedStaysOut == [][KeepsOut]_vars

-----------------------------------------------------------------------------
(* What comments of the source say and runs refute.                          *)

(* A task whose provider asked for a login is never ticked by the loop       *)
(* before somebody saw to it ("pause INDEFINITELY, never mark the task       *)
(* done").                                                                   *)
AuthNeverDone == [][\A t \in Tasks : ForceMark(t) => report[t] # "reauth_required"]_vars

-----------------------------------------------------------------------------
(* Liveness *)

(* A stop always gets the body to its end.                                   *)
StopEndsIdle == state = "stopping" ~> state = "idle"

(* Every open task is settled in the end: done, blocked, or out of the file, *)
(* unless the loop stops or pauses for the operator.                         *)
IsSettled(t) ==
    \/ mark[t] \in {"done", "absent"} \/ t \in blocked
    \/ state \in {"idle", "stopping"} \/ (state = "paused" /\ timer = "off")

Settled == \A t \in Tasks : mark[t] \in {"todo", "wip"} ~> IsSettled(t)
=============================================================================
