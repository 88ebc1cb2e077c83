------------------------------- MODULE CliExit -------------------------------
(***************************************************************************)
(* What the loop does when the provider's process ends while a task is     *)
(* being waited for: CliExitHandler of cliExit.ts.  One handler object      *)
(* lives for one wait (one call of _waitForTaskCompletion); during it the   *)
(* process may be started twice, the second time with the reminder prompt.  *)
(* The handler reads three things: the task's marker in TODO.md, the tail   *)
(* of .autodev/hooks-events.jsonl, and the exit status of the process.      *)
(***************************************************************************)
EXTENDS Naturals, Sequences

CONSTANTS
    Window,     \* how many events the 64 KB tail of hooks-events.jsonl holds
    MaxLog      \* bound of the model: events written in one behaviour

ASSUME ExitBounds == Window \in Nat \ {0} /\ MaxLog \in Nat

(***************************************************************************)
(* Hook events, by what decide() tells apart.  An event is "work" when its  *)
(* name is in WORK_EVENTS; SessionEnd is clean, failed (FAIL_REASONS), a    *)
(* watchdog kill, or clean but carrying a throttle banner; StopFailure may  *)
(* carry error = rate_limit.                                                *)
(***************************************************************************)
Kinds == {"work", "stopFailure", "stopFailureRL", "endClean", "endRL",
          "endFail", "endWatchdog", "reauth"}

FailKinds == {"stopFailure", "stopFailureRL", "endFail", "endWatchdog", "reauth"}

RateLimitKinds == {"stopFailureRL", "endRL"}

(* The process that wrote an event: 0 is a process of an earlier task, whose *)
(* timestamps are before taskStartTime.                                     *)
Events == [kind : Kinds, turn : 0..2]

Markers == {"todo", "wip", "done", "absent"}

Decisions == {"done", "deferred", "rate_limit", "remind", "give_up", "hard_fail"}

-----------------------------------------------------------------------------

(* The events one scan may look at: the tail of the file, cut at the newest  *)
(* event older than the task.                                               *)
Seen(log) ==
    LET first == IF Len(log) > Window THEN Len(log) - Window + 1 ELSE 1
    IN  {i \in first..Len(log) : \A j \in i..Len(log) : log[j].turn > 0}

SawWork(log) == \E i \in Seen(log) : log[i].kind = "work"

(* The newest failure event decides the reason: scanning backwards, the      *)
(* specific SessionEnd is met before the StopFailure written ahead of it.    *)
NewestFailure(log) ==
    {i \in Seen(log) : /\ log[i].kind \in FailKinds
                       /\ \A j \in Seen(log) : log[j].kind \in FailKinds => j <= i}

HardFailure(log, exitedNonZero, stdoutError) ==
    IF NewestFailure(log) # {}
    THEN \E i \in NewestFailure(log) : ~(log[i].kind = "endWatchdog" /\ SawWork(log))
    ELSE stdoutError \/ (exitedNonZero /\ ~SawWork(log))

RecentRateLimit(log) == \E i \in Seen(log) : log[i].kind \in RateLimitKinds

(* found(): a task that vanished from TODO.md counts as done when nothing    *)
(* else is open.                                                            *)
TaskFound(mark, othersOpen) == mark = "done" \/ (mark = "absent" /\ ~othersOpen)

(* A task left [~]: the agent deferred it, unless the provider failed.       *)
InProgressExit(hardFail, reminderSent) ==
    IF hardFail THEN "hard_fail" ELSE IF reminderSent THEN "give_up" ELSE "deferred"

(* A task left [ ].                                                          *)
UntouchedExit(throttled, hardFail, reminderSent) ==
    IF throttled THEN "rate_limit"
    ELSE IF hardFail THEN "hard_fail"
    ELSE IF reminderSent THEN "give_up" ELSE "remind"

(* Mistake: the [~] branch answers before the hard failure is looked for.    *)
DecideDeferredFirst(mark, othersOpen, log, exitedNonZero, stdoutError, reminderSent) ==
    IF TaskFound(mark, othersOpen) THEN "done"
    ELSE IF mark = "wip" THEN InProgressExit(FALSE, reminderSent)
    ELSE UntouchedExit(RecentRateLimit(log),
                       HardFailure(log, exitedNonZero, stdoutError), reminderSent)

Decide(mark, othersOpen, log, exitedNonZero, stdoutError, reminderSent) ==
    IF TaskFound(mark, othersOpen) THEN "done"
    ELSE IF mark = "wip"
         THEN InProgressExit(HardFailure(log, exitedNonZero, stdoutError), reminderSent)
    ELSE UntouchedExit(RecentRateLimit(log),
                       HardFailure(log, exitedNonZero, stdoutError), reminderSent)

-----------------------------------------------------------------------------
VARIABLES
    mark,           \* the task's marker in TODO.md
    othersOpen,     \* is any other task still open in TODO.md?
    log,            \* hooks-events.jsonl
    turn,           \* 1: the task's own process, 2: the reminder's
    running,        \* is that process alive?
    reminderSent,   \* CliExitHandler.reminderSent
    decision,       \* last answer of decide(), "none" before the first
    exit            \* exit status read by the caller for that answer

vars == <<mark, othersOpen, log, turn, running, reminderSent, decision, exit>>

NoExit == [nonZero |-> FALSE, stdoutError |-> FALSE]

TypeOK ==
    /\ mark \in Markers
    /\ othersOpen \in BOOLEAN
    /\ log \in Seq(Events)
    /\ turn \in 1..2
    /\ running \in BOOLEAN
    /\ reminderSent \in BOOLEAN
    /\ decision \in Decisions \cup {"none"}
    /\ exit \in [nonZero : BOOLEAN, stdoutError : BOOLEAN]

(* The wait begins with whatever an earlier task left in the file.           *)
Init ==
    /\ mark \in {"todo", "wip"}
    /\ othersOpen \in BOOLEAN
    /\ log \in {<<>>} \cup {<<[kind |-> k, turn |-> 0]>> : k \in Kinds}
    /\ turn = 1
    /\ running = TRUE
    /\ reminderSent = FALSE
    /\ decision = "none"
    /\ exit = NoExit

(* The provider appends a hook event while its process is alive.             *)
Emit(k) ==
    /\ running
    /\ Len(log) < MaxLog
    /\ log' = Append(log, [kind |-> k, turn |-> turn])
    /\ UNCHANGED <<mark, othersOpen, turn, running, reminderSent, decision, exit>>

(* The agent (or anyone else) rewrites TODO.md while the wait is on.         *)
Edit ==
    /\ decision \in {"none", "remind"}
    /\ \/ mark' \in Markers /\ UNCHANGED othersOpen
       \/ othersOpen' = ~othersOpen /\ UNCHANGED mark
    /\ UNCHANGED <<log, turn, running, reminderSent, decision, exit>>

(* The process ends and onCliExit asks for a decision.  A reminder starts    *)
(* the second process; every other decision ends the wait.                   *)
ProcessExit(nonZero, stdoutError) ==
    LET d == Decide(mark, othersOpen, log, nonZero, stdoutError, reminderSent)
    IN  /\ running
        /\ decision' = d
        /\ exit' = [nonZero |-> nonZero, stdoutError |-> stdoutError]
        /\ reminderSent' = (reminderSent \/ d = "remind")
        /\ turn' = IF d = "remind" THEN turn + 1 ELSE turn
        /\ running' = (d = "remind")
        /\ UNCHANGED <<mark, othersOpen, log>>

Next ==
    \/ \E k \in Kinds : Emit(k)
    \/ Edit
    \/ \E nonZero, stdoutError \in BOOLEAN : ProcessExit(nonZero, stdoutError)

Spec == Init /\ [][Next]_vars

-----------------------------------------------------------------------------
(* Settled states: decide() has answered and the wait is over.               *)
Ended == ~running

(* Events of this task's own processes that the file tail still holds.       *)
Own(kinds) == \E i \in 1..Len(log) : log[i].turn > 0 /\ log[i].kind \in kinds

(* An outage is never a success: when one of the task's own processes        *)
(* reported a failure other than a watchdog kill, the wait does not end with *)
(* the task auto-marked done or quietly deferred, whatever the marker says   *)
(* (decide() asks for the hard failure before the [~] and give_up branches). *)
OutageNeverAutoDone ==
    /\ Ended
    /\ Len(log) <= Window
    /\ Own(FailKinds \ {"endWatchdog"})
    /\ \A i, j \in 1..Len(log) :
          (log[i].kind = "endWatchdog" /\ log[j].kind \in FailKinds \ {"endWatchdog"}) => i < j
    => decision \notin {"give_up", "deferred"}

(* The failure of another task's process never condemns this one: a          *)
(* hard_fail answer has evidence in this task's own events or in the exit    *)
(* status (the timestamp cut of scanHooksForFailure).                        *)
OldFailureNeverCondemns ==
    decision = "hard_fail" => Own(FailKinds) \/ exit.nonZero \/ exit.stdoutError

(* Throttling pauses the loop: a rate-limit signal of this task's own        *)
(* processes is answered with rate_limit while the task is still [ ], also   *)
(* when failure events follow it.                                            *)
ThrottleIsNotFailure ==
    /\ Ended
    /\ Len(log) <= Window
    /\ Own(RateLimitKinds)
    /\ mark = "todo"
    => decision = "rate_limit"

(* A process is reminded at most once per wait and given up on only after    *)
(* the reminded process ended too.                                           *)
GiveUpAfterReminder ==
    /\ decision = "give_up" => turn = 2
    /\ turn = 2 <=> reminderSent

(* What decide() of cliExit.ts answers agrees with what the task's own       *)
(* processes reported, in the parts above.                                   *)
ExitHolds ==
    /\ TypeOK /\ GiveUpAfterReminder
    /\ OutageNeverAutoDone /\ OldFailureNeverCondemns /\ ThrottleIsNotFailure
=============================================================================
