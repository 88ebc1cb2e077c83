--------------------------- MODULE TaskLoopProofs ---------------------------
(***************************************************************************)
(* Proofs about TaskLoop for every number of tasks, every budget, provider  *)
(* kind and set of faults.                                                  *)
(***************************************************************************)
EXTENDS TaskLoop, TLAPS

-----------------------------------------------------------------------------
(* What a write leaves in TODO.md is again a marker for every task.          *)
LEMMA WrittenIsMarks ==
    ASSUME mark \in [Tasks -> Marks],
           NEW S, NEW s \in Marks, NEW m \in Written(S, s)
    PROVE  m \in [Tasks -> Marks]
BY DEF Written

(* The three ways the loop writes a marker.                                  *)
LEMMA WritesAreMarks ==
    ASSUME mark \in [Tasks -> Marks]
    PROVE  /\ \A S : \A m \in ResetToTodo(S) : m \in [Tasks -> Marks]
           /\ \A t : \A m \in MarkInProgress(t) : m \in [Tasks -> Marks]
           /\ \A t : \A m \in MarkDone(t) : m \in [Tasks -> Marks]
<1>1. {"todo", "wip", "done"} \subseteq Marks
  BY DEF Marks
<1>2. \A S : \A m \in ResetToTodo(S) : m \in [Tasks -> Marks]
  BY <1>1, WrittenIsMarks DEF ResetToTodo
<1>3. \A t : \A m \in MarkInProgress(t) : m \in [Tasks -> Marks]
  BY <1>1, WrittenIsMarks DEF MarkInProgress
<1>4. \A t : \A m \in MarkDone(t) : m \in [Tasks -> Marks]
  BY <1>1, WrittenIsMarks DEF MarkDone
<1> QED
  BY <1>2, <1>3, <1>4

(* The end and the beginning of a wait keep their variables well-typed.      *)
LEMMA ResolveType ==
    ASSUME TypeOK, pc = "wait", NEW v \in Verdicts, NEW b, NEW p, Resolve(v, b, p)
    PROVE  /\ pc' \in {"top", "flush"}
           /\ task' \in Tasks \cup {NoTask}
           /\ pc' = "flush" => task' # NoTask
           /\ wait' \in Waits
<1>1. wait \in Waits /\ task \in Tasks \cup {NoTask} /\ task # NoTask
  BY DEF TypeOK
<1>2. NoWait \in Waits
  BY DEF NoWait, Waits
<1>3. [wait EXCEPT !.verdict = v, !.exit = "none"] \in Waits
  BY <1>1 DEF Waits
<1>4. CASE Continue
  BY <1>2, <1>4 DEF Continue
<1>5. CASE /\ pc' = "flush"
           /\ wait' = [wait EXCEPT !.verdict = v, !.exit = "none"]
           /\ UNCHANGED task
  BY <1>1, <1>3, <1>5
<1> QED
  BY <1>4, <1>5 DEF Resolve

(* A wait is entered, or over before it began, with well-typed locals.       *)
LEMMA EnterWaitType ==
    ASSUME TypeOK, NEW t \in Tasks, NEW b, NEW p, EnterWait(t, b, p)
    PROVE  /\ pc' \in {"top", "flush", "wait"}
           /\ task' \in Tasks \cup {NoTask}
           /\ pc' \in {"flush", "wait"} => task' # NoTask
           /\ wait' \in Waits
           /\ abort' \in {"null", "set"}
<1> DEFINE blockedBefore == IF t \in b THEN "yes" ELSE "no"
           over == state # "running" \/ Found(t)
           verdict == IF ~over THEN "none"
                      ELSE IF state # "running" THEN "stopped" ELSE HowFound(t)
           where == AfterWait(t, blockedBefore, b, p)
           begun == [NoWait EXCEPT !.blockedBefore = blockedBefore, !.verdict = verdict]
<1>1. abort \in {"null", "set"}
  BY DEF TypeOK
<1>2. verdict \in Verdicts \cup {"none"}
  BY DEF HowFound, Verdicts
<1>3. NoWait \in Waits /\ begun \in Waits
  <2> HIDE DEF verdict
  <2> QED
    BY <1>2 DEF NoWait, Waits
<1>4. where \in {"top", "flush"}
  BY DEF AfterWait
<1>5. t # NoTask
  BY DEF Tasks, NoTask
<1>6. /\ pc' = IF over THEN where ELSE "wait"
      /\ task' = IF over /\ where = "top" THEN NoTask ELSE t
      /\ abort' = IF over THEN abort ELSE "set"
      /\ wait' = IF over /\ where = "top" THEN NoWait ELSE begun
  BY DEF EnterWait
<1> HIDE DEF over, where, begun
<1> QED
  BY <1>1, <1>3, <1>4, <1>5, <1>6

-----------------------------------------------------------------------------
(* Every state of the loop is well typed; in particular no task is sent more *)
(* than MaxAttempts times without its counter being dropped, and none of the *)
(* other budgets is overrun.                                                 *)
THEOREM TypeCorrect == Spec => []TypeOK
<1> USE LoopBounds, LoopSettings
<1>1. Init => TypeOK
  BY DEF Init, TypeOK, NoWait, Waits, Marks, Tasks, NoTask, Zero
<1>2. TypeOK /\ [Next]_vars => TypeOK'
  <2> SUFFICES ASSUME TypeOK, [Next]_vars PROVE TypeOK'
    OBVIOUS
  <2> USE DEF counters, pause, outside, history
  <2>1. CASE Start
    BY <2>1, WritesAreMarks, ResolveType, EnterWaitType DEF TypeOK, Start, Continue, Cleanup, PauseLoop, Waits, NoWait, Verdicts, Marks, Judged, Bump, Zero, AtTop, NothingToPick
  <2>2. CASE LoopExit
    BY <2>2, WritesAreMarks, ResolveType, EnterWaitType DEF TypeOK, LoopExit, Continue, Cleanup, PauseLoop, Waits, NoWait, Verdicts, Marks, Judged, Bump, Zero, AtTop, NothingToPick
  <2>3. CASE RestoreMain
    BY <2>3, WritesAreMarks, ResolveType, EnterWaitType DEF TypeOK, RestoreMain, Continue, Cleanup, PauseLoop, Waits, NoWait, Verdicts, Marks, Judged, Bump, Zero, AtTop, NothingToPick
  <2>4. CASE IdleOrSweep
    <3>1. CASE StrandSweep
      <4>1. /\ strand' \in [Tasks -> 0..MaxStrand] /\ blocked' \subseteq Tasks
            /\ swept' \in [Tasks -> Nat]
        BY <3>1 DEF StrandSweep, Stranded, In, TypeOK
      <4>2. mark' \in [Tasks -> Marks]
        BY <3>1, WritesAreMarks DEF StrandSweep, TypeOK
      <4>3. report' \in [Tasks -> {"none", "started", "done", "failed", "reauth_required",
                                   "rate_limit"}]
        BY <3>1 DEF StrandSweep, TypeOK
      <4> QED
        BY <2>4, <4>1, <4>2, <4>3 DEF IdleOrSweep, TypeOK
    <3>2. CASE UNCHANGED <<strand, blocked, mark, report, swept>>
      BY <2>4, <3>2 DEF IdleOrSweep, TypeOK
    <3> QED
      BY <2>4, <3>1, <3>2 DEF IdleOrSweep
  <2>5. CASE Wake
    BY <2>5, WritesAreMarks, ResolveType, EnterWaitType DEF TypeOK, Wake, Continue, Cleanup, PauseLoop, Waits, NoWait, Verdicts, Marks, Judged, Bump, Zero, AtTop, NothingToPick
  <2>6. CASE SendOk
    BY <2>6, WritesAreMarks, ResolveType, EnterWaitType DEF TypeOK, SendOk, Continue, Cleanup, PauseLoop, Waits, NoWait, Verdicts, Marks, Judged, Bump, Zero, AtTop, NothingToPick
  <2>7. CASE SendThrows
    BY <2>7, WritesAreMarks, ResolveType, EnterWaitType DEF TypeOK, SendThrows, Continue, Cleanup, PauseLoop, Waits, NoWait, Verdicts, Marks, Judged, Bump, Zero, AtTop, NothingToPick
  <2>8. CASE Check
    <3>1. PICK v \in Verdicts : Resolve(v, blocked, pendingRetry)
      BY <2>8 DEF Check, HowFound, Verdicts
    <3> QED
      BY <2>8, <3>1, ResolveType DEF Check, Cleanup, TypeOK
  <2>9. CASE SdkIdle
    <3>1. PICK v \in Verdicts : Resolve(v, blocked, pendingRetry)
      BY <2>9 DEF SdkIdle, HowFound, Verdicts
    <3> QED
      BY <2>9, <3>1, ResolveType DEF SdkIdle, Cleanup, TypeOK
  <2>10. CASE ExitSeen
    BY <2>10, WritesAreMarks, ResolveType, EnterWaitType DEF TypeOK, ExitSeen, Continue, Cleanup, PauseLoop, Waits, NoWait, Verdicts, Marks, Judged, Bump, Zero, AtTop, NothingToPick
  <2>11. CASE ExitDone
    BY <2>11, WritesAreMarks, ResolveType, EnterWaitType DEF TypeOK, ExitDone, Continue, Cleanup, PauseLoop, Waits, NoWait, Verdicts, Marks, Judged, Bump, Zero, AtTop, NothingToPick
  <2>12. CASE HardFailRetry
    BY <2>12, WritesAreMarks, ResolveType, EnterWaitType DEF TypeOK, HardFailRetry, Continue, Cleanup, PauseLoop, Waits, NoWait, Verdicts, Marks, Judged, Bump, Zero, AtTop, NothingToPick
  <2>13. CASE BackoffOver
    BY <2>13, WritesAreMarks, ResolveType, EnterWaitType DEF TypeOK, BackoffOver, Continue, Cleanup, PauseLoop, Waits, NoWait, Verdicts, Marks, Judged, Bump, Zero, AtTop, NothingToPick
  <2>14. CASE LeftoverCleanup
    BY <2>14, WritesAreMarks, ResolveType, EnterWaitType DEF TypeOK, LeftoverCleanup, Continue, Cleanup, PauseLoop, Waits, NoWait, Verdicts, Marks, Judged, Bump, Zero, AtTop, NothingToPick
  <2>15. CASE HardFailBlock
    BY <2>15, WritesAreMarks, ResolveType, EnterWaitType DEF TypeOK, HardFailBlock, Continue, Cleanup, PauseLoop, Waits, NoWait, Verdicts, Marks, Judged, Bump, Zero, AtTop, NothingToPick
  <2>16. CASE Deferred
    BY <2>16, WritesAreMarks, ResolveType, EnterWaitType DEF TypeOK, Deferred, Continue, Cleanup, PauseLoop, Waits, NoWait, Verdicts, Marks, Judged, Bump, Zero, AtTop, NothingToPick
  <2>17. CASE Remind
    <3>1. wait' \in Waits
      BY <2>17 DEF Remind, TypeOK, Waits
    <3>2. agent' \in {"off", "on"} /\ exitFile' \in {"open", "clean", "failed"}
      BY <2>17 DEF Remind, TypeOK
    <3> QED
      BY <2>17, <3>1, <3>2 DEF Remind, TypeOK
  <2>18. CASE GiveUp
    BY <2>18, WritesAreMarks, ResolveType, EnterWaitType DEF TypeOK, GiveUp, Continue, Cleanup, PauseLoop, Waits, NoWait, Verdicts, Marks, Judged, Bump, Zero, AtTop, NothingToPick
  <2>19. CASE AuthFails
    BY <2>19, WritesAreMarks, ResolveType, EnterWaitType DEF TypeOK, AuthFails, Continue, Cleanup, PauseLoop, Waits, NoWait, Verdicts, Marks, Judged, Bump, Zero, AtTop, NothingToPick
  <2>20. CASE Throttled
    BY <2>20, WritesAreMarks, ResolveType, EnterWaitType DEF TypeOK, Throttled, Continue, Cleanup, PauseLoop, Waits, NoWait, Verdicts, Marks, Judged, Bump, Zero, AtTop, NothingToPick
  <2>21. CASE ContextFull
    BY <2>21, WritesAreMarks, ResolveType, EnterWaitType DEF TypeOK, ContextFull, Continue, Cleanup, PauseLoop, Waits, NoWait, Verdicts, Marks, Judged, Bump, Zero, AtTop, NothingToPick
  <2>22. CASE Thrashing
    BY <2>22, WritesAreMarks, ResolveType, EnterWaitType DEF TypeOK, Thrashing, Continue, Cleanup, PauseLoop, Waits, NoWait, Verdicts, Marks, Judged, Bump, Zero, AtTop, NothingToPick
  <2>23. CASE NoProgressBlock
    <3>1. task \in Tasks
      BY <2>23 DEF NoProgressBlock, TypeOK
    <3>2. wait' \in Waits /\ pc' = "top" /\ task' = NoTask
      BY <2>23 DEF NoProgressBlock, Continue, NoWait, Waits
    <3>3. /\ exitFile' \in {"open", "clean", "failed"} /\ mark' \in [Tasks -> Marks]
          /\ blocked' \subseteq Tasks /\ pendingRetry' \subseteq Tasks
      BY <2>23, <3>1, WritesAreMarks DEF NoProgressBlock, TurnEnded, TypeOK
    <3>4. /\ noProgress' \in [Tasks -> 0..MaxNoProgress - 1]
          /\ attempts' \in [Tasks -> 0..MaxAttempts]
      BY <2>23, <3>1 DEF NoProgressBlock, TypeOK
    <3>5. report' \in [Tasks -> {"none", "started", "done", "failed", "reauth_required",
                                 "rate_limit"}]
      BY <2>23 DEF NoProgressBlock, TypeOK
    <3> QED
      BY <2>23, <3>2, <3>3, <3>4, <3>5 DEF NoProgressBlock, TypeOK
  <2>24. CASE PeriodicPrompt
    BY <2>24, WritesAreMarks, ResolveType, EnterWaitType DEF TypeOK, PeriodicPrompt, Continue, Cleanup, PauseLoop, Waits, NoWait, Verdicts, Marks, Judged, Bump, Zero, AtTop, NothingToPick
  <2>25. CASE PeriodicPrune
    BY <2>25, WritesAreMarks, ResolveType, EnterWaitType DEF TypeOK, PeriodicPrune, Continue, Cleanup, PauseLoop, Waits, NoWait, Verdicts, Marks, Judged, Bump, Zero, AtTop, NothingToPick
  <2>26. CASE PostDone
    BY <2>26, WritesAreMarks, ResolveType, EnterWaitType DEF TypeOK, PostDone, Continue, Cleanup, PauseLoop, Waits, NoWait, Verdicts, Marks, Judged, Bump, Zero, AtTop, NothingToPick
  <2>27. CASE Resume
    BY <2>27, WritesAreMarks, ResolveType, EnterWaitType DEF TypeOK, Resume, Continue, Cleanup, PauseLoop, Waits, NoWait, Verdicts, Marks, Judged, Bump, Zero, AtTop, NothingToPick
  <2>28. CASE Stop
    BY <2>28, WritesAreMarks, ResolveType, EnterWaitType DEF TypeOK, Stop, Continue, Cleanup, PauseLoop, Waits, NoWait, Verdicts, Marks, Judged, Bump, Zero, AtTop, NothingToPick
  <2>29. CASE AgentEnds
    BY <2>29, WritesAreMarks, ResolveType, EnterWaitType DEF TypeOK, AgentEnds, Continue, Cleanup, PauseLoop, Waits, NoWait, Verdicts, Marks, Judged, Bump, Zero, AtTop, NothingToPick
  <2>30. ASSUME NEW t \in Tasks, Dispatch(t) PROVE TypeOK'
    <3>1. /\ attempts' \in [Tasks -> 0..MaxAttempts]
          /\ hardFail' \in [Tasks -> 0..MaxRetries + 1]
      BY <2>30 DEF Dispatch, Exhausted, TypeOK
    <3>2. /\ blocked' \subseteq Tasks /\ pendingRetry' \subseteq Tasks
          /\ launched' = "yes" /\ swept' \in [Tasks -> Nat]
      BY <2>30 DEF Dispatch, TypeOK
    <3>3. /\ report' \in [Tasks -> {"none", "started", "done", "failed", "reauth_required",
                                     "rate_limit"}]
          /\ before' \in [Tasks -> Marks]
      BY <2>30 DEF Dispatch, Signature, TypeOK
    <3>4. /\ pc' \in {"top", "flush", "wait", "send"}
          /\ task' \in Tasks \cup {NoTask}
          /\ pc' \in {"flush", "wait", "send"} => task' # NoTask
          /\ wait' \in Waits
          /\ abort' \in {"null", "set"}
      <4>1. CASE Busy
        BY <2>30, <4>1, EnterWaitType DEF Dispatch
      <4>2. CASE ~Busy
        BY <2>30, <4>2 DEF Dispatch, TypeOK, Tasks, NoTask
      <4> QED
        BY <4>1, <4>2
    <3> QED
      BY <2>30, <3>1, <3>2, <3>3, <3>4 DEF Dispatch, TypeOK
  <2>31. ASSUME NEW t \in Tasks, Watch(t) PROVE TypeOK'
    BY <2>31, WritesAreMarks, EnterWaitType DEF TypeOK, Watch, Continue, Waits, NoWait, Marks, AtTop, Exhausted, Signature
  <2>32. ASSUME NEW t \in Tasks, ForceMark(t) PROVE TypeOK'
    BY <2>32, WritesAreMarks, EnterWaitType DEF TypeOK, ForceMark, Continue, Waits, NoWait, Marks, AtTop, Exhausted, Signature
  <2>33. ASSUME NEW t \in Tasks, AgentMarks(t) PROVE TypeOK'
    BY <2>33, WritesAreMarks, EnterWaitType DEF TypeOK, AgentMarks, Continue, Waits, NoWait, Marks, AtTop, Exhausted, Signature
  <2>34. ASSUME NEW t \in Tasks, NewTask(t) PROVE TypeOK'
    BY <2>34, WritesAreMarks, EnterWaitType DEF TypeOK, NewTask, Continue, Waits, NoWait, Marks, AtTop, Exhausted, Signature
  <2>35. ASSUME NEW t \in Tasks, HumanEdits(t) PROVE TypeOK'
    BY <2>35, WritesAreMarks, EnterWaitType DEF TypeOK, HumanEdits, Continue, Waits, NoWait, Marks, AtTop, Exhausted, Signature
  <2>36. ASSUME NEW touched \in BOOLEAN, Complete(touched) PROVE TypeOK'
    BY <2>36 DEF TypeOK, Complete, TurnEnded, NoProgressAfter
  <2>37. CASE UNCHANGED vars
    BY <2>37 DEF TypeOK, vars
  <2> QED
    BY <2>1, <2>2, <2>3, <2>4, <2>5, <2>6, <2>7, <2>8, <2>9, <2>10, <2>11, <2>12, <2>13, <2>14, <2>15, <2>16, <2>17, <2>18, <2>19, <2>20, <2>21, <2>22, <2>23, <2>24, <2>25, <2>26, <2>27, <2>28, <2>29, <2>30, <2>31, <2>32, <2>33, <2>34, <2>35, <2>36, <2>37 DEF Next, Body, Picks, Judgement, AfterTurn, Operator, Retry, TimerFires, Outside
<1> QED
  BY <1>1, <1>2, PTL DEF Spec

-----------------------------------------------------------------------------
(* Where a wait can lead the body, as far as the pause flags are concerned.  *)
LEMMA ResolvePc ==
    ASSUME NEW v, NEW b, NEW p, Resolve(v, b, p)
    PROVE  pc' \in {"top", "flush"}
BY DEF Resolve, Continue

(* Where entering a wait can lead the body.                                  *)
LEMMA EnterWaitPc ==
    ASSUME NEW t, NEW b, NEW p, EnterWait(t, b, p)
    PROVE  pc' \in {"top", "flush", "wait"}
BY DEF EnterWait, AfterWait

(* The pause flags agree in every reachable state: the body is suspended     *)
(* exactly while the loop says paused, and only a throttle leaves a timer    *)
(* running.  The invariant is inductive as it stands.                        *)
THEOREM PauseCorrect == Spec => []PauseConsistent
<1>1. Init => PauseConsistent
  BY DEF Init, PauseConsistent
<1>2. PauseConsistent /\ [Next]_vars => PauseConsistent'
  <2> SUFFICES ASSUME PauseConsistent, [Next]_vars PROVE PauseConsistent'
    OBVIOUS
  <2> USE DEF counters, pause, outside, history
  <2>1. CASE Start
    BY <2>1 DEF PauseConsistent, Start, Continue
  <2>2. CASE LoopExit
    BY <2>2 DEF PauseConsistent, LoopExit
  <2>3. CASE RestoreMain
    BY <2>3 DEF PauseConsistent, RestoreMain
  <2>4. CASE Wake
    BY <2>4 DEF PauseConsistent, Wake
  <2>5. CASE SendOk
    BY <2>5, EnterWaitPc DEF PauseConsistent, SendOk
  <2>6. CASE SendThrows
    BY <2>6 DEF PauseConsistent, SendThrows, Continue
  <2>7. CASE Check
    BY <2>7, ResolvePc DEF PauseConsistent, Check
  <2>8. CASE SdkIdle
    BY <2>8, ResolvePc DEF PauseConsistent, SdkIdle
  <2>9. CASE ExitSeen
    BY <2>9 DEF PauseConsistent, ExitSeen
  <2>10. CASE ExitDone
    BY <2>10 DEF PauseConsistent, ExitDone, Judged
  <2>11. CASE HardFailRetry
    BY <2>11 DEF PauseConsistent, HardFailRetry, Judged
  <2>12. CASE BackoffOver
    BY <2>12, ResolvePc DEF PauseConsistent, BackoffOver
  <2>13. CASE LeftoverCleanup
    BY <2>13 DEF PauseConsistent, LeftoverCleanup
  <2>14. CASE HardFailBlock
    BY <2>14, ResolvePc DEF PauseConsistent, HardFailBlock, Judged
  <2>15. CASE Deferred
    BY <2>15, ResolvePc DEF PauseConsistent, Deferred, Judged
  <2>16. CASE Remind
    BY <2>16 DEF PauseConsistent, Remind, Judged
  <2>17. CASE GiveUp
    BY <2>17, ResolvePc DEF PauseConsistent, GiveUp, Judged
  <2>18. CASE AuthFails
    BY <2>18 DEF PauseConsistent, AuthFails, Judged, PauseLoop
  <2>19. CASE Throttled
    BY <2>19 DEF PauseConsistent, Throttled, PauseLoop, Continue
  <2>20. CASE ContextFull
    BY <2>20 DEF PauseConsistent, ContextFull, PauseLoop, Continue
  <2>21. CASE Thrashing
    BY <2>21 DEF PauseConsistent, Thrashing, Continue
  <2>22. CASE NoProgressBlock
    BY <2>22 DEF PauseConsistent, NoProgressBlock, Continue
  <2>23. CASE PeriodicPrompt
    BY <2>23 DEF PauseConsistent, PeriodicPrompt, Continue
  <2>24. CASE PeriodicPrune
    BY <2>24 DEF PauseConsistent, PeriodicPrune
  <2>25. CASE PostDone
    BY <2>25 DEF PauseConsistent, PostDone, Continue
  <2>26. CASE Resume
    BY <2>26 DEF PauseConsistent, Resume
  <2>27. CASE Stop
    BY <2>27, ResolvePc DEF PauseConsistent, Stop, Cleanup
  <2>28. CASE AgentEnds
    BY <2>28 DEF PauseConsistent, AgentEnds
  <2>29. CASE IdleOrSweep
    BY <2>29 DEF PauseConsistent, IdleOrSweep, NothingToPick, AtTop
  <2>30. ASSUME NEW t \in Tasks, Dispatch(t) PROVE PauseConsistent'
    BY <2>30, EnterWaitPc DEF PauseConsistent, Dispatch, AtTop
  <2>31. ASSUME NEW t \in Tasks, Watch(t) PROVE PauseConsistent'
    BY <2>31, EnterWaitPc DEF PauseConsistent, Watch, AtTop
  <2>32. ASSUME NEW t \in Tasks, ForceMark(t) PROVE PauseConsistent'
    BY <2>32 DEF PauseConsistent, ForceMark, AtTop
  <2>33. ASSUME NEW t \in Tasks, AgentMarks(t) PROVE PauseConsistent'
    BY <2>33 DEF PauseConsistent, AgentMarks
  <2>34. ASSUME NEW t \in Tasks, NewTask(t) PROVE PauseConsistent'
    BY <2>34 DEF PauseConsistent, NewTask
  <2>35. ASSUME NEW t \in Tasks, HumanEdits(t) PROVE PauseConsistent'
    BY <2>35 DEF PauseConsistent, HumanEdits
  <2>36. ASSUME NEW touched \in BOOLEAN, Complete(touched) PROVE PauseConsistent'
    BY <2>36 DEF PauseConsistent, Complete
  <2>37. CASE UNCHANGED vars
    BY <2>37 DEF PauseConsistent, vars
  <2> QED
    BY <2>1, <2>2, <2>3, <2>4, <2>5, <2>6, <2>7, <2>8, <2>9, <2>10, <2>11, <2>12,
       <2>13, <2>14, <2>15, <2>16, <2>17, <2>18, <2>19, <2>20, <2>21, <2>22, <2>23, <2>24,
       <2>25, <2>26, <2>27, <2>28, <2>29, <2>30, <2>31, <2>32, <2>33, <2>34, <2>35, <2>36,
       <2>37
    DEF Next, Body, Picks, Judgement, AfterTurn, Operator, Retry, TimerFires, Outside
<1> QED
  BY <1>1, <1>2, PTL DEF Spec

-----------------------------------------------------------------------------
(* A task that may still be swept has been swept no more often than its      *)
(* strand counter says; one that is blocked, at most once more.              *)
StrandInv ==
    \A t \in Tasks : /\ t \notin blocked => swept[t] <= strand[t]
                     /\ swept[t] <= MaxStrand + 1

(* The steps that neither sweep nor change who is blocked.                   *)
Quiet == UNCHANGED <<strand, blocked, swept>>

(* Steps that leave the counters and the blocked tasks alone keep it.        *)
LEMMA QuietStep ==
    ASSUME StrandInv, Quiet
    PROVE  StrandInv'
BY DEF StrandInv, Quiet

(* Blocking a task keeps the invariant: its counter is within the budget.    *)
LEMMA BlockStep ==
    ASSUME TypeOK, StrandInv, NEW t \in Tasks,
           blocked' = blocked \cup {t}, UNCHANGED <<strand, swept>>
    PROVE  StrandInv'
BY DEF TypeOK, StrandInv

(* Nor does a fresh attempt at a blocked task, which starts its sweeps anew. *)
LEMMA UnblockStep ==
    ASSUME TypeOK, StrandInv, NEW t \in Tasks,
           blocked' = blocked \ {t}, UNCHANGED strand,
           swept' = IF t \in blocked THEN [swept EXCEPT ![t] = 0] ELSE swept
    PROVE  StrandInv'
BY LoopBounds DEF TypeOK, StrandInv

(* A sweep counts once in both, and blocks what is over the budget.          *)
LEMMA SweepStep ==
    ASSUME TypeOK, StrandInv, StrandSweep
    PROVE  StrandInv'
<1> DEFINE given_up == {t \in Stranded : strand[t] + 1 > MaxStrand}
<1> SUFFICES ASSUME NEW t \in Tasks
             PROVE  /\ t \notin blocked' => swept'[t] <= strand'[t]
                    /\ swept'[t] <= MaxStrand + 1
  BY DEF StrandInv
<1>1. /\ strand[t] \in 0..MaxStrand /\ swept[t] \in Nat
      /\ t \notin blocked => swept[t] <= strand[t]
      /\ swept[t] <= MaxStrand + 1
  BY DEF TypeOK, StrandInv
<1>2. t \in Stranded => t \notin blocked
  BY DEF Stranded
<1>3. /\ blocked' = blocked \cup given_up
      /\ strand'[t] = IF t \in given_up THEN 0
                      ELSE IF t \in Stranded THEN strand[t] + 1 ELSE strand[t]
      /\ swept'[t] = IF t \in Stranded THEN swept[t] + 1 ELSE swept[t]
  BY DEF StrandSweep
<1>4. given_up \subseteq Stranded
  OBVIOUS
<1>5. CASE t \in Stranded
  BY <1>1, <1>2, <1>3, <1>5, LoopBounds
<1>6. CASE t \notin Stranded
  BY <1>1, <1>3, <1>4, <1>6
<1> QED
  BY <1>5, <1>6

(* The flood guard of the stranded sweep: within one run a task is put back  *)
(* at most MaxStrand times and then blocked, for every number of tasks and   *)
(* whether or not TODO.md can be written.                                    *)
THEOREM StrandCorrect == Spec => []StrandBudget
<1>1. Init => StrandInv
  BY LoopBounds DEF Init, StrandInv, Zero
<1>2. TypeOK /\ StrandInv /\ [Next]_vars => StrandInv'
  <2> SUFFICES ASSUME TypeOK, StrandInv, [Next]_vars PROVE StrandInv'
    OBVIOUS
  <2> USE DEF counters, pause, outside, history
  <2>1. CASE Start
    BY <2>1, LoopBounds DEF Start, StrandInv, Zero
  <2>2. CASE LoopExit
    BY <2>2, QuietStep DEF LoopExit, Quiet
  <2>3. CASE RestoreMain
    BY <2>3, QuietStep DEF RestoreMain, Quiet
  <2>4. CASE Wake
    BY <2>4, QuietStep DEF Wake, Quiet
  <2>5. CASE SendOk
    BY <2>5, QuietStep DEF SendOk, Quiet
  <2>6. CASE SendThrows
    BY <2>6, QuietStep DEF SendThrows, Quiet
  <2>7. CASE Check
    BY <2>7, QuietStep DEF Check, Quiet
  <2>8. CASE SdkIdle
    BY <2>8, QuietStep DEF SdkIdle, Quiet
  <2>9. CASE ExitSeen
    BY <2>9, QuietStep DEF ExitSeen, Quiet
  <2>10. CASE ExitDone
    BY <2>10, QuietStep DEF ExitDone, Quiet
  <2>11. CASE HardFailRetry
    BY <2>11, QuietStep DEF HardFailRetry, Quiet
  <2>12. CASE BackoffOver
    BY <2>12, QuietStep DEF BackoffOver, Quiet
  <2>13. CASE LeftoverCleanup
    BY <2>13, QuietStep DEF LeftoverCleanup, Quiet
  <2>14. CASE Deferred
    BY <2>14, QuietStep DEF Deferred, Quiet
  <2>15. CASE Remind
    BY <2>15, QuietStep DEF Remind, Quiet
  <2>16. CASE GiveUp
    BY <2>16, QuietStep DEF GiveUp, Quiet
  <2>17. CASE AuthFails
    BY <2>17, QuietStep DEF AuthFails, Quiet
  <2>18. CASE Throttled
    BY <2>18, QuietStep DEF Throttled, Quiet
  <2>19. CASE ContextFull
    BY <2>19, QuietStep DEF ContextFull, Quiet
  <2>20. CASE Thrashing
    BY <2>20, QuietStep DEF Thrashing, Quiet
  <2>21. CASE PeriodicPrompt
    BY <2>21, QuietStep DEF PeriodicPrompt, Quiet
  <2>22. CASE PeriodicPrune
    BY <2>22, QuietStep DEF PeriodicPrune, Quiet
  <2>23. CASE PostDone
    BY <2>23, QuietStep DEF PostDone, Quiet
  <2>24. CASE Resume
    BY <2>24, QuietStep DEF Resume, Quiet
  <2>25. CASE Stop
    BY <2>25, QuietStep DEF Stop, Quiet
  <2>26. CASE AgentEnds
    BY <2>26, QuietStep DEF AgentEnds, Quiet
  <2>27. CASE HardFailBlock
    <3>1. task \in Tasks
      BY <2>27 DEF HardFailBlock, Judged, TypeOK
    <3> QED
      BY <2>27, <3>1, BlockStep DEF HardFailBlock
  <2>28. CASE NoProgressBlock
    <3>1. task \in Tasks
      BY <2>28 DEF NoProgressBlock, Judged, TypeOK
    <3> QED
      BY <2>28, <3>1, BlockStep DEF NoProgressBlock
  <2>29. CASE IdleOrSweep
    <3>1. StrandSweep \/ Quiet
      BY <2>29 DEF IdleOrSweep, Quiet
    <3> QED
      BY <3>1, SweepStep, QuietStep
  <2>30. ASSUME NEW t \in Tasks, Dispatch(t) PROVE StrandInv'
    BY <2>30, UnblockStep DEF Dispatch
  <2>31. ASSUME NEW t \in Tasks, ForceMark(t) PROVE StrandInv'
    BY <2>31, UnblockStep DEF ForceMark
  <2>32. ASSUME NEW t \in Tasks, Watch(t) PROVE StrandInv'
    BY <2>32, QuietStep DEF Watch, Quiet
  <2>33. ASSUME NEW t \in Tasks, AgentMarks(t) PROVE StrandInv'
    BY <2>33, QuietStep DEF AgentMarks, Quiet
  <2>34. ASSUME NEW t \in Tasks, NewTask(t) PROVE StrandInv'
    BY <2>34, QuietStep DEF NewTask, Quiet
  <2>35. ASSUME NEW t \in Tasks, HumanEdits(t) PROVE StrandInv'
    BY <2>35, QuietStep DEF HumanEdits, Quiet
  <2>36. ASSUME NEW touched \in BOOLEAN, Complete(touched) PROVE StrandInv'
    BY <2>36, QuietStep DEF Complete, Quiet
  <2>37. CASE UNCHANGED vars
    BY <2>37, QuietStep DEF vars, Quiet
  <2> QED
    BY <2>1, <2>2, <2>3, <2>4, <2>5, <2>6, <2>7, <2>8, <2>9, <2>10, <2>11, <2>12,
       <2>13, <2>14, <2>15, <2>16, <2>17, <2>18, <2>19, <2>20, <2>21, <2>22, <2>23, <2>24,
       <2>25, <2>26, <2>27, <2>28, <2>29, <2>30, <2>31, <2>32, <2>33, <2>34, <2>35, <2>36,
       <2>37
    DEF Next, Body, Picks, Judgement, AfterTurn, Operator, Retry, TimerFires, Outside
<1>3. TypeOK /\ StrandInv => StrandBudget
  BY LoopBounds DEF TypeOK, StrandInv, StrandBudget
<1> QED
  BY <1>1, <1>2, <1>3, TypeCorrect, PTL DEF Spec

-----------------------------------------------------------------------------
(* The fallback is never taken for the provider to come back to.             *)
THEOREM SavedCorrect == Spec => []SavedIsMain
<1>1. Init => SavedIsMain
  BY DEF Init, SavedIsMain
<1>2. SavedIsMain /\ [Next]_vars => SavedIsMain'
  <2> SUFFICES ASSUME SavedIsMain, [Next]_vars PROVE SavedIsMain'
    OBVIOUS
  <2> USE DEF counters, pause, outside, history
  <2>1. CASE Throttled
    BY <2>1 DEF Throttled, CanFallBack, SavedIsMain
  <2>2. CASE RestoreMain
    BY <2>2 DEF RestoreMain, SavedIsMain
  <2>3. CASE Resume
    BY <2>3 DEF Resume, SavedIsMain
  <2>4. CASE Stop
    BY <2>4 DEF Stop, SavedIsMain
  <2>5. CASE Start
    BY <2>5 DEF Start, SavedIsMain
  <2>6. CASE IdleOrSweep
    BY <2>6 DEF IdleOrSweep, SavedIsMain
  <2>7. CASE LoopExit
    BY <2>7 DEF LoopExit, SavedIsMain
  <2>8. CASE Wake
    BY <2>8 DEF Wake, SavedIsMain
  <2>9. CASE SendOk
    BY <2>9 DEF SendOk, SavedIsMain
  <2>10. CASE SendThrows
    BY <2>10 DEF SendThrows, SavedIsMain
  <2>11. CASE Check
    BY <2>11 DEF Check, SavedIsMain
  <2>12. CASE SdkIdle
    BY <2>12 DEF SdkIdle, SavedIsMain
  <2>13. CASE ExitSeen
    BY <2>13 DEF ExitSeen, SavedIsMain
  <2>14. CASE ExitDone
    BY <2>14 DEF ExitDone, SavedIsMain
  <2>15. CASE HardFailRetry
    BY <2>15 DEF HardFailRetry, SavedIsMain
  <2>16. CASE BackoffOver
    BY <2>16 DEF BackoffOver, SavedIsMain
  <2>17. CASE LeftoverCleanup
    BY <2>17 DEF LeftoverCleanup, SavedIsMain
  <2>18. CASE Deferred
    BY <2>18 DEF Deferred, SavedIsMain
  <2>19. CASE Remind
    BY <2>19 DEF Remind, SavedIsMain
  <2>20. CASE GiveUp
    BY <2>20 DEF GiveUp, SavedIsMain
  <2>21. CASE AuthFails
    BY <2>21 DEF AuthFails, SavedIsMain
  <2>22. CASE ContextFull
    BY <2>22 DEF ContextFull, SavedIsMain
  <2>23. CASE Thrashing
    BY <2>23 DEF Thrashing, SavedIsMain
  <2>24. CASE PeriodicPrompt
    BY <2>24 DEF PeriodicPrompt, SavedIsMain
  <2>25. CASE PeriodicPrune
    BY <2>25 DEF PeriodicPrune, SavedIsMain
  <2>26. CASE PostDone
    BY <2>26 DEF PostDone, SavedIsMain
  <2>27. CASE AgentEnds
    BY <2>27 DEF AgentEnds, SavedIsMain
  <2>28. CASE HardFailBlock
    BY <2>28 DEF HardFailBlock, SavedIsMain
  <2>29. CASE NoProgressBlock
    BY <2>29 DEF NoProgressBlock, SavedIsMain
  <2>30. ASSUME NEW t \in Tasks, Dispatch(t) PROVE SavedIsMain'
    BY <2>30 DEF Dispatch, SavedIsMain
  <2>31. ASSUME NEW t \in Tasks, Watch(t) PROVE SavedIsMain'
    BY <2>31 DEF Watch, SavedIsMain
  <2>32. ASSUME NEW t \in Tasks, ForceMark(t) PROVE SavedIsMain'
    BY <2>32 DEF ForceMark, SavedIsMain
  <2>33. ASSUME NEW t \in Tasks, AgentMarks(t) PROVE SavedIsMain'
    BY <2>33 DEF AgentMarks, SavedIsMain
  <2>34. ASSUME NEW t \in Tasks, NewTask(t) PROVE SavedIsMain'
    BY <2>34 DEF NewTask, SavedIsMain
  <2>35. ASSUME NEW t \in Tasks, HumanEdits(t) PROVE SavedIsMain'
    BY <2>35 DEF HumanEdits, SavedIsMain
  <2>36. ASSUME NEW touched \in BOOLEAN, Complete(touched) PROVE SavedIsMain'
    BY <2>36 DEF Complete, SavedIsMain
  <2>37. CASE UNCHANGED vars
    BY <2>37 DEF vars, SavedIsMain
  <2> QED
    BY <2>1, <2>2, <2>3, <2>4, <2>5, <2>6, <2>7, <2>8, <2>9, <2>10, <2>11, <2>12,
       <2>13, <2>14, <2>15, <2>16, <2>17, <2>18, <2>19, <2>20, <2>21, <2>22, <2>23, <2>24,
       <2>25, <2>26, <2>27, <2>28, <2>29, <2>30, <2>31, <2>32, <2>33, <2>34, <2>35, <2>36,
       <2>37
    DEF Next, Body, Picks, Judgement, AfterTurn, Operator, Retry, TimerFires, Outside
<1> QED
  BY <1>1, <1>2, PTL DEF Spec

-----------------------------------------------------------------------------
(* What the loop keeps of a run, as the runs check it.                       *)
THEOREM LoopHoldsCorrect == Spec => []LoopHolds
BY PauseCorrect, StrandCorrect, SavedCorrect, PTL DEF LoopHolds

-----------------------------------------------------------------------------
(* Reports of a failure.                                                     *)
LEMMA FailsOpenStep ==
    ASSUME "send" \notin Faults, TypeOK, [Next]_vars
    PROVE  FailsOpen
<1> USE DEF counters, pause, outside, history
<1>1. report \in [Tasks -> {"none", "started", "done", "failed", "reauth_required", "rate_limit"}]
  BY DEF TypeOK
<1>2. ASSUME report' = report PROVE FailsOpen
  BY <1>2 DEF FailsOpen
<1>3. ASSUME NEW t, NEW word, word # "failed", report' = [report EXCEPT ![t] = word] PROVE FailsOpen
  BY <1>1, <1>3 DEF FailsOpen
<1>4. ASSUME NEW t, mark[t] # "done", report' = [report EXCEPT ![t] = "failed"] PROVE FailsOpen
  BY <1>1, <1>4 DEF FailsOpen
<1>5. CASE \E t \in Tasks : Dispatch(t) \/ Watch(t)
  BY <1>2, <1>3, <1>5 DEF Dispatch, Watch
<1>6. CASE IdleOrSweep
  <2>1. CASE report' = report BY <1>2, <2>1
  <2>2. CASE StrandSweep
    <3>1. \A t \in Tasks : report'[t] = "failed" => report[t] = "failed" \/ t \in Stranded
      BY <2>2 DEF StrandSweep
    <3>2. \A t \in Stranded : mark[t] = "wip" BY DEF Stranded, In
    <3> QED BY <3>1, <3>2 DEF FailsOpen
  <2> QED BY <1>6, <2>1, <2>2 DEF IdleOrSweep
<1>7. CASE SendThrows
  BY <1>7 DEF SendThrows
<1>8. CASE HardFailBlock
  BY <1>4, <1>8 DEF HardFailBlock, StillOpen, Found
<1>9. CASE AuthFails \/ Throttled \/ ContextFull
  BY <1>2, <1>3, <1>9 DEF AuthFails, Throttled, ContextFull
<1>10. CASE NoProgressBlock
  <2>1. mark[task] = "done" => NoProgressAfter(task, Changed(FALSE)) = 0
    BY DEF NoProgressAfter
  <2>2. \E x : x >= MaxNoProgress /\ (mark[task] = "done" => x = 0)
    BY <1>10, <2>1, Zenon DEF NoProgressBlock
  <2>3. mark[task] # "done"
    BY <2>2, LoopBounds
  <2> QED BY <1>4, <1>10, <2>3 DEF NoProgressBlock
<1>11. ASSUME NEW touched \in BOOLEAN, Complete(touched) PROVE FailsOpen
  BY <1>3, <1>11 DEF Complete
<1>12. CASE \/ Start \/ Resume \/ Stop \/ RestoreMain \/ Wake \/ LoopExit
            \/ SendOk \/ Check \/ SdkIdle \/ ExitSeen \/ BackoffOver \/ LeftoverCleanup
  BY <1>2, <1>12
     DEF Start, Resume, Stop, RestoreMain, Wake, LoopExit, SendOk, Check, SdkIdle,
         ExitSeen, BackoffOver, LeftoverCleanup
<1>13. CASE \/ ExitDone \/ HardFailRetry \/ Deferred \/ Remind \/ GiveUp \/ Thrashing
            \/ PeriodicPrompt \/ PeriodicPrune \/ PostDone \/ AgentEnds
  BY <1>2, <1>13
     DEF ExitDone, HardFailRetry, Deferred, Remind, GiveUp, Thrashing, PeriodicPrompt,
         PeriodicPrune, PostDone, AgentEnds
<1>14. CASE \E t \in Tasks : ForceMark(t) \/ AgentMarks(t) \/ NewTask(t) \/ HumanEdits(t)
  BY <1>2, <1>14 DEF ForceMark, AgentMarks, NewTask, HumanEdits
<1>15. CASE UNCHANGED vars
  BY <1>2, <1>15 DEF vars
<1> QED
  BY <1>5, <1>6, <1>7, <1>8, <1>9, <1>10, <1>11, <1>12, <1>13, <1>14, <1>15
     DEF Next, Body, Picks, Judgement, AfterTurn, Operator, Retry, TimerFires, Outside

(* No task whose box is ticked is reported failed, for every budget, by any  *)
(* step but a send that throws.                                              *)
THEOREM FailedIsOpenCorrect ==
    ASSUME "send" \notin Faults
    PROVE  Spec => FailedIsOpen
<1>1. TypeOK /\ [Next]_vars => [FailsOpen]_vars
  BY FailsOpenStep
<1> QED
  BY <1>1, TypeCorrect, PTL DEF Spec, FailedIsOpen

-----------------------------------------------------------------------------
(* Blocked tasks, where the provider is an sdk: no exit is ever judged, so   *)
(* no task is queued for a retry.                                            *)
SdkInv == Kind = "sdk" => wait.exit = "none" /\ pendingRetry = {}

LEMMA ResolveExit ==
    ASSUME TypeOK, wait.exit = "none", NEW v, NEW b, NEW p, Resolve(v, b, p)
    PROVE  wait'.exit = "none"
<1>1. wait \in Waits BY DEF TypeOK
<1>2. [wait EXCEPT !.verdict = v, !.exit = "none"].exit = "none" BY <1>1 DEF Waits
<1>3. NoWait.exit = "none" BY DEF NoWait
<1> QED BY <1>2, <1>3 DEF Resolve, Continue

LEMMA EnterWaitExit ==
    ASSUME NEW t, NEW b, NEW p, EnterWait(t, b, p)
    PROVE  wait'.exit = "none"
BY DEF EnterWait, NoWait

LEMMA NoWaitExit == NoWait.exit = "none"
BY DEF NoWait

LEMMA SdkStep ==
    ASSUME TypeOK, SdkInv, [Next]_vars
    PROVE  SdkInv'
<1> SUFFICES ASSUME Kind = "sdk" PROVE wait'.exit = "none" /\ pendingRetry' = {}
  BY DEF SdkInv
<1>0. wait.exit = "none" /\ pendingRetry = {} /\ ~Judged
  BY DEF SdkInv, Judged
<1> USE DEF counters, pause, outside, history
<1>1. CASE Start BY <1>1, NoWaitExit DEF Start, Continue
<1>2. CASE Resume \/ RestoreMain \/ Wake \/ LoopExit \/ LeftoverCleanup \/ AgentEnds \/ PeriodicPrune
  BY <1>0, <1>2 DEF Resume, RestoreMain, Wake, LoopExit, LeftoverCleanup, AgentEnds, PeriodicPrune
<1>3. CASE Stop BY <1>0, <1>3, ResolveExit DEF Stop
<1>4. CASE SendOk BY <1>0, <1>4, EnterWaitExit DEF SendOk
<1>5. CASE SendThrows \/ PeriodicPrompt \/ PostDone
  BY <1>0, <1>5, NoWaitExit DEF SendThrows, PeriodicPrompt, PostDone, Continue
<1>6. CASE Check \/ SdkIdle \/ BackoffOver
  BY <1>0, <1>6, ResolveExit DEF Check, SdkIdle, BackoffOver
<1>7. CASE ExitSeen \/ Judgement \/ Throttled \/ ContextFull \/ Thrashing
  BY <1>0, <1>7
     DEF ExitSeen, Judgement, ExitDone, HardFailRetry, HardFailBlock, Deferred, Remind, GiveUp,
         AuthFails, Throttled, ContextFull, Thrashing
<1>8. CASE NoProgressBlock BY <1>0, <1>8, NoWaitExit DEF NoProgressBlock, Continue
<1>9. ASSUME NEW touched \in BOOLEAN, Complete(touched) PROVE wait'.exit = "none" /\ pendingRetry' = {}
  BY <1>0, <1>9 DEF Complete
<1>10. CASE IdleOrSweep BY <1>0, <1>10 DEF IdleOrSweep
<1>11. ASSUME NEW t \in Tasks, Dispatch(t) PROVE wait'.exit = "none" /\ pendingRetry' = {}
  BY <1>0, <1>11, EnterWaitExit DEF Dispatch
<1>12. ASSUME NEW t \in Tasks, Watch(t) PROVE wait'.exit = "none" /\ pendingRetry' = {}
  BY <1>0, <1>12, EnterWaitExit DEF Watch
<1>13. CASE \E t \in Tasks : ForceMark(t) \/ AgentMarks(t) \/ NewTask(t) \/ HumanEdits(t)
  BY <1>0, <1>13 DEF ForceMark, AgentMarks, NewTask, HumanEdits
<1>14. CASE UNCHANGED vars
  BY <1>0, <1>14 DEF vars
<1> QED
  BY <1>1, <1>2, <1>3, <1>4, <1>5, <1>6, <1>7, <1>8, <1>9, <1>10, <1>11, <1>12, <1>13, <1>14
     DEF Next, Body, Picks, AfterTurn, Operator, Retry, TimerFires, Outside

LEMMA KeepsOutStep ==
    ASSUME Kind = "sdk", SdkInv, [Next]_vars
    PROVE  KeepsOut
<1> USE DEF counters, pause, outside, history
<1>0. wait.exit = "none" /\ pendingRetry = {} /\ ~Judged
  BY DEF SdkInv, Judged
<1>1. ASSUME blocked \subseteq blocked' PROVE KeepsOut
  BY <1>1 DEF KeepsOut
<1>2. CASE Start BY <1>2 DEF Start, KeepsOut
<1>3. ASSUME NEW t \in Tasks, Dispatch(t) \/ ForceMark(t) PROVE KeepsOut
  <2>1. mark[t] = "todo" BY <1>0, <1>3 DEF Dispatch, ForceMark, Fresh, Redo, First, In
  <2>2. blocked' = blocked \ {t} BY <1>3 DEF Dispatch, ForceMark
  <2> QED BY <2>1, <2>2 DEF KeepsOut
<1>4. CASE \/ IdleOrSweep \/ NoProgressBlock \/ \E t \in Tasks : Watch(t)
  BY <1>1, <1>4 DEF IdleOrSweep, StrandSweep, NoProgressBlock, Watch
<1>5. CASE \/ Resume \/ Stop \/ RestoreMain \/ Wake \/ LoopExit
           \/ SendOk \/ SendThrows \/ Check \/ SdkIdle \/ ExitSeen \/ BackoffOver \/ LeftoverCleanup
  BY <1>1, <1>5
     DEF Resume, Stop, RestoreMain, Wake, LoopExit, SendOk, SendThrows, Check, SdkIdle,
         ExitSeen, BackoffOver, LeftoverCleanup
<1>6. CASE Judgement \/ Throttled \/ ContextFull \/ Thrashing
  BY <1>0, <1>6
     DEF Judgement, ExitDone, HardFailRetry, HardFailBlock, Deferred, Remind, GiveUp,
         AuthFails, Throttled, ContextFull, Thrashing
<1>7. CASE PeriodicPrompt \/ PeriodicPrune \/ PostDone \/ AgentEnds
  BY <1>1, <1>7 DEF PeriodicPrompt, PeriodicPrune, PostDone, AgentEnds
<1>8. ASSUME NEW touched \in BOOLEAN, Complete(touched) PROVE KeepsOut
  BY <1>1, <1>8 DEF Complete
<1>9. CASE \E t \in Tasks : AgentMarks(t) \/ NewTask(t) \/ HumanEdits(t)
  BY <1>1, <1>9 DEF AgentMarks, NewTask, HumanEdits
<1>10. CASE UNCHANGED vars
  BY <1>1, <1>10 DEF vars
<1> QED
  BY <1>2, <1>3, <1>4, <1>5, <1>6, <1>7, <1>8, <1>9, <1>10
     DEF Next, Body, Picks, AfterTurn, Operator, Retry, TimerFires, Outside

(* With an sdk a blocked task is not picked again until somebody reopens it  *)
(* or the loop is restarted.                                                 *)
THEOREM BlockedStaysOutCorrect ==
    ASSUME Kind = "sdk"
    PROVE  Spec => BlockedStaysOut
<1>1. Init => SdkInv BY NoWaitExit DEF Init, SdkInv
<1>2. TypeOK /\ SdkInv /\ [Next]_vars => SdkInv' BY SdkStep
<1>3. SdkInv /\ [Next]_vars => [KeepsOut]_vars BY KeepsOutStep
<1> QED
  BY <1>1, <1>2, <1>3, TypeCorrect, PTL DEF Spec, BlockedStaysOut

-----------------------------------------------------------------------------
(* Reports of a completion.  While a task is with the agent its line stays,  *)
(* and a box that was seen ticked stays ticked; a retry is queued before its *)
(* backoff begins, and a blocked task that was not watched as one goes back  *)
(* to the top.                                                               *)
WithAgent == pc \in {"send", "wait", "flush"}

AccInv ==
    /\ WithAgent => mark[task] # "absent"
    /\ pc = "wait" /\ wait.exit = "backoff" => task \in pendingRetry
    /\ pc = "flush" =>
        /\ wait.verdict \in {"seen", "lost", "stopped", "idle", "deferred", "give_up", "hard_fail"}
        /\ wait.verdict = "seen" => mark[task] = "done"
        /\ wait.verdict = "give_up" => mark[task] = "done" \/ "write" \in Faults
        /\ wait.verdict = "hard_fail" => wait.blockedBefore = "yes"

LEMMA ResolveEnds ==
    ASSUME TypeOK, pc = "wait", NEW v \in Verdicts, NEW b, NEW p, Resolve(v, b, p)
    PROVE  /\ pc' \in {"top", "flush"}
           /\ pc' = "flush" =>
                /\ task' = task /\ wait'.verdict = v /\ wait'.blockedBefore = wait.blockedBefore
                /\ task \in b => wait.blockedBefore = "yes"
                /\ task \notin p
<1>1. wait \in Waits /\ wait.blockedBefore \in {"no", "yes"} BY DEF TypeOK, Waits
<1>2. /\ [wait EXCEPT !.verdict = v, !.exit = "none"].verdict = v
      /\ [wait EXCEPT !.verdict = v, !.exit = "none"].blockedBefore = wait.blockedBefore
  BY <1>1 DEF Waits
<1>3. CASE (task \in b /\ wait.blockedBefore = "no") \/ task \in p
  BY <1>3 DEF Resolve, AfterWait, Continue
<1>4. CASE ~((task \in b /\ wait.blockedBefore = "no") \/ task \in p)
  BY <1>1, <1>2, <1>4 DEF Resolve, AfterWait, Continue
<1> QED BY <1>3, <1>4

LEMMA EnterWaitBegins ==
    ASSUME NEW t \in Tasks, NEW b, NEW p, EnterWait(t, b, p)
    PROVE  /\ pc' \in {"top", "flush", "wait"}
           /\ pc' \in {"flush", "wait"} => task' = t
           /\ wait'.exit = "none"
           /\ pc' = "flush" => /\ wait'.verdict \in {"stopped", "seen", "lost"}
                               /\ wait'.verdict = "seen" => mark[t] = "done"
<1> DEFINE blockedBefore == IF t \in b THEN "yes" ELSE "no"
           over == state # "running" \/ Found(t)
           verdict == IF ~over THEN "none"
                      ELSE IF state # "running" THEN "stopped" ELSE HowFound(t)
           where == AfterWait(t, blockedBefore, b, p)
           begun == [NoWait EXCEPT !.blockedBefore = blockedBefore, !.verdict = verdict]
<1>1. over => verdict \in {"stopped", "seen", "lost"} /\ (verdict = "seen" => mark[t] = "done")
  BY DEF HowFound
<1>2. where \in {"top", "flush"} BY DEF AfterWait
<1>3. NoWait.exit = "none" /\ begun.exit = "none" /\ begun.verdict = verdict
  <2> HIDE DEF verdict
  <2> QED BY DEF NoWait
<1>4. /\ pc' = IF over THEN where ELSE "wait"
      /\ task' = IF over /\ where = "top" THEN NoTask ELSE t
      /\ wait' = IF over /\ where = "top" THEN NoWait ELSE begun
  BY DEF EnterWait
<1> HIDE DEF over, where, begun, verdict
<1> QED BY <1>1, <1>2, <1>3, <1>4

(* No write of the loop takes a line away.                                   *)
LEMMA WritesKeepLines ==
    ASSUME NEW u \in Tasks, mark[u] # "absent"
    PROVE  /\ \A S : \A m \in ResetToTodo(S) : m[u] # "absent"
           /\ \A t : \A m \in MarkInProgress(t) : m[u] # "absent"
           /\ \A t : \A m \in MarkDone(t) : m[u] # "absent"
BY DEF ResetToTodo, MarkInProgress, MarkDone, Written

(* An open line is ticked, unless the file is locked.                        *)
LEMMA MarkDoneTicks ==
    ASSUME "write" \notin Faults, NEW t \in Tasks, mark[t] \in {"todo", "wip"}, NEW m \in MarkDone(t)
    PROVE  m[t] = "done"
BY DEF MarkDone, Written, Open, In

LEMMA InitAcc == Init => AccInv
BY DEF Init, AccInv, WithAgent

(* The line of a task is dropped only by an agent that clobbers the file, or *)
(* after a completion.                                                       *)
LEMMA AccStep ==
    ASSUME "clobber" \notin Faults, TypeOK, AccInv, [Next]_vars
    PROVE  AccInv'
<1> USE DEF counters, pause, outside, history
<1>0. /\ mark \in [Tasks -> Marks] /\ wait \in Waits /\ task \in Tasks \cup {NoTask}
      /\ WithAgent => task \in Tasks
  BY DEF TypeOK, WithAgent, NoTask, Tasks
<1>1. ASSUME pc' \notin {"send", "wait", "flush"} PROVE AccInv'
  BY <1>1 DEF AccInv, WithAgent
<1>2. ASSUME UNCHANGED <<pc, task, wait, mark>>, pendingRetry \subseteq pendingRetry' PROVE AccInv'
  BY <1>2 DEF AccInv, WithAgent
<1>3. CASE Start \/ LoopExit \/ Wake \/ SendThrows \/ PeriodicPrompt \/ PeriodicPrune \/ PostDone
           \/ IdleOrSweep \/ NoProgressBlock
  BY <1>1, <1>3
     DEF Start, LoopExit, Wake, SendThrows, PeriodicPrompt, PeriodicPrune, PostDone, IdleOrSweep,
         NoProgressBlock, Continue
<1>4. ASSUME NEW t \in Tasks, ForceMark(t) PROVE AccInv'
  BY <1>1, <1>4 DEF ForceMark, AtTop
<1>5. CASE AuthFails \/ Throttled \/ ContextFull \/ Thrashing
  BY <1>1, <1>5 DEF AuthFails, Throttled, ContextFull, Thrashing, PauseLoop, Continue
<1>6. CASE RestoreMain \/ LeftoverCleanup \/ AgentEnds \/ UNCHANGED vars
  BY <1>2, <1>6 DEF RestoreMain, LeftoverCleanup, AgentEnds, vars
<1>7. ASSUME NEW touched \in BOOLEAN, Complete(touched) PROVE AccInv'
  BY <1>1, <1>7 DEF Complete
<1>8. ASSUME pc = "wait", UNCHANGED <<mark, pendingRetry>>, NEW v \in Verdicts, Resolve(v, blocked, pendingRetry),
             v \notin {"retry", "give_up", "hard_fail"}, v = "seen" => mark[task] = "done"
      PROVE  AccInv'
  BY <1>0, <1>8, ResolveEnds DEF AccInv, WithAgent, Verdicts
<1>9. HowFound(task) \in Verdicts /\ HowFound(task) \in {"seen", "lost"}
      /\ (HowFound(task) = "seen" => mark[task] = "done")
  BY DEF HowFound, Verdicts
<1>10. {"stopped", "lost", "idle", "deferred", "retry", "give_up", "hard_fail"} \subseteq Verdicts
  BY DEF Verdicts
<1>11. CASE Resume
  BY <1>1, <1>2, <1>11 DEF Resume
<1>12. CASE Stop
  <2>1. CASE pc = "wait" /\ abort = "set" BY <1>8, <1>10, <1>12, <2>1 DEF Stop
  <2>2. CASE ~(pc = "wait" /\ abort = "set") BY <1>1, <1>2, <1>12, <2>2 DEF Stop
  <2> QED BY <2>1, <2>2
<1>13. CASE Check \/ Deferred
  BY <1>8, <1>9, <1>10, <1>13 DEF Check, Deferred, Judged
<1>14. CASE SdkIdle
  <2>1. CASE state # "running" BY <1>8, <1>10, <1>14, <2>1 DEF SdkIdle
  <2>2. CASE state = "running" /\ Found(task) BY <1>8, <1>9, <1>14, <2>2 DEF SdkIdle
  <2>3. CASE state = "running" /\ ~Found(task) BY <1>8, <1>10, <1>14, <2>3 DEF SdkIdle
  <2> QED BY <2>1, <2>2, <2>3
<1>15. CASE BackoffOver
  <2>1. task \in pendingRetry /\ Resolve("retry", blocked, pendingRetry) /\ pc = "wait"
    BY <1>15 DEF BackoffOver, AccInv
  <2>2. pc' = "top" BY <1>10, <2>1, ResolveEnds
  <2> QED BY <1>1, <2>2
<1>16. CASE HardFailBlock
  <2>1. pc = "wait" /\ Resolve("hard_fail", blocked', pendingRetry') /\ task \in blocked'
        /\ mark' \in MarkInProgress(task)
    BY <1>16 DEF HardFailBlock, Judged
  <2>2. pc' \in {"top", "flush"}
        /\ (pc' = "flush" => task' = task /\ wait'.verdict = "hard_fail"
                             /\ wait'.blockedBefore = "yes")
    BY <1>10, <2>1, ResolveEnds
  <2>3. mark'[task] # "absent"
    BY <1>0, <2>1, WritesKeepLines DEF AccInv, WithAgent
  <2> QED BY <2>2, <2>3 DEF AccInv, WithAgent
<1>17. CASE GiveUp
  <2>1. pc = "wait" /\ Resolve("give_up", blocked, pendingRetry) /\ mark' \in MarkDone(task) /\ ~Found(task)
    BY <1>17 DEF GiveUp, Judged, StillOpen
  <2>2. pc' \in {"top", "flush"} /\ (pc' = "flush" => task' = task /\ wait'.verdict = "give_up")
    BY <1>10, <2>1, ResolveEnds
  <2>3. task \in Tasks /\ mark[task] \in {"todo", "wip"}
    BY <1>0, <2>1 DEF AccInv, WithAgent, Found, Marks
  <2>4. mark'[task] # "absent" /\ (mark'[task] = "done" \/ "write" \in Faults)
    BY <2>1, <2>3, WritesKeepLines, MarkDoneTicks
  <2> QED BY <2>2, <2>4 DEF AccInv, WithAgent
<1>18. CASE HardFailRetry
  <2>1. pc' = "wait" /\ task' = task /\ task \in pendingRetry' /\ mark' \in MarkInProgress(task) /\ pc = "wait"
    BY <1>18 DEF HardFailRetry, Judged
  <2>2. mark'[task] # "absent"
    BY <1>0, <2>1, WritesKeepLines DEF AccInv, WithAgent
  <2> QED BY <2>1, <2>2 DEF AccInv, WithAgent
<1>19. CASE ExitSeen \/ ExitDone \/ Remind
  <2>1. /\ UNCHANGED <<pc, task, mark, pendingRetry>> /\ pc = "wait"
        /\ \/ wait' = [wait EXCEPT !.exit = "settle"]
           \/ wait' = [wait EXCEPT !.exit = "handled"]
           \/ wait' = [wait EXCEPT !.reminded = "yes", !.exit = "none"]
           \/ wait' = [wait EXCEPT !.reminded = "yes", !.exit = "handled"]
    BY <1>19 DEF ExitSeen, ExitDone, Remind, Judged
  <2>2. wait'.exit # "backoff" BY <1>0, <2>1 DEF Waits
  <2> QED BY <2>1, <2>2 DEF AccInv, WithAgent
<1>20. CASE SendOk
  <2>1. task \in Tasks /\ mark[task] # "absent" BY <1>0, <1>20 DEF SendOk, AccInv, WithAgent
  <2> QED BY <1>20, <2>1, EnterWaitBegins DEF SendOk, AccInv, WithAgent
<1>21. ASSUME NEW t \in Tasks, Dispatch(t) PROVE AccInv'
  <2>1. mark[t] # "absent" /\ mark' = mark BY <1>21 DEF Dispatch, Fresh, Redo, First, In
  <2>2. CASE Busy BY <1>21, <2>1, <2>2, EnterWaitBegins DEF Dispatch, AccInv, WithAgent
  <2>3. CASE ~Busy BY <1>21, <2>1, <2>3 DEF Dispatch, AccInv, WithAgent
  <2> QED BY <2>2, <2>3
<1>22. ASSUME NEW t \in Tasks, Watch(t) PROVE AccInv'
  <2>1. mark[t] # "absent" /\ mark' = mark BY <1>22 DEF Watch, Watched, First, In
  <2> QED BY <1>22, <2>1, EnterWaitBegins DEF Watch, AccInv, WithAgent
<1>23. ASSUME UNCHANGED <<task, wait, pendingRetry>>, pc' = pc \/ pc' = "top",
              \A u \in Tasks : mark[u] # "absent" => mark'[u] # "absent",
              \A u \in Tasks : mark[u] = "done" => mark'[u] = "done"
       PROVE  AccInv'
  BY <1>0, <1>23 DEF AccInv, WithAgent
<1>24. ASSUME NEW t \in Tasks, AgentMarks(t) \/ NewTask(t) \/ HumanEdits(t) PROVE AccInv'
  BY <1>0, <1>23, <1>24 DEF AgentMarks, NewTask, HumanEdits
<1> QED
  BY <1>3, <1>4, <1>5, <1>6, <1>7, <1>11, <1>12, <1>13, <1>14, <1>15, <1>16, <1>17, <1>18, <1>19,
     <1>20, <1>21, <1>22, <1>24
     DEF Next, Body, Picks, Judgement, AfterTurn, Operator, Retry, TimerFires, Outside

LEMMA AccountsStep ==
    ASSUME TypeOK, AccInv, [Next]_vars
    PROVE  Accounts
<1> USE DEF counters, pause, outside, history
<1>1. report \in [Tasks -> {"none", "started", "done", "failed", "reauth_required", "rate_limit"}]
  BY DEF TypeOK
<1>2. ASSUME report' = report PROVE Accounts
  BY <1>2 DEF Accounts, ReportedDone
<1>3. ASSUME NEW t, NEW word, word # "done", report' = [report EXCEPT ![t] = word] PROVE Accounts
  BY <1>1, <1>3 DEF Accounts, ReportedDone
<1>4. ASSUME NEW touched \in BOOLEAN, Complete(touched) PROVE Accounts
  <2>1. pc = "flush" /\ report' = [report EXCEPT ![task] = "done"] BY <1>4 DEF Complete
  <2>2. \A t \in Tasks : ReportedDone(t) => t = task BY <1>1, <2>1 DEF ReportedDone
  <2> QED BY <2>1, <2>2 DEF Accounts, AccInv
<1>5. CASE \E t \in Tasks : Dispatch(t) \/ Watch(t)
  BY <1>2, <1>3, <1>5 DEF Dispatch, Watch
<1>6. CASE IdleOrSweep
  <2>1. CASE report' = report BY <1>2, <2>1
  <2>2. CASE StrandSweep BY <1>1, <2>2 DEF StrandSweep, Accounts, ReportedDone
  <2> QED BY <1>6, <2>1, <2>2 DEF IdleOrSweep
<1>7. CASE SendThrows \/ HardFailBlock \/ NoProgressBlock
  BY <1>3, <1>7 DEF SendThrows, HardFailBlock, NoProgressBlock
<1>8. CASE AuthFails \/ Throttled \/ ContextFull
  BY <1>2, <1>3, <1>8 DEF AuthFails, Throttled, ContextFull
<1>9. CASE \/ Start \/ Resume \/ Stop \/ RestoreMain \/ Wake \/ LoopExit
           \/ SendOk \/ Check \/ SdkIdle \/ ExitSeen \/ BackoffOver \/ LeftoverCleanup
  BY <1>2, <1>9
     DEF Start, Resume, Stop, RestoreMain, Wake, LoopExit, SendOk, Check, SdkIdle,
         ExitSeen, BackoffOver, LeftoverCleanup
<1>10. CASE \/ ExitDone \/ HardFailRetry \/ Deferred \/ Remind \/ GiveUp \/ Thrashing
            \/ PeriodicPrompt \/ PeriodicPrune \/ PostDone \/ AgentEnds
  BY <1>2, <1>10
     DEF ExitDone, HardFailRetry, Deferred, Remind, GiveUp, Thrashing, PeriodicPrompt,
         PeriodicPrune, PostDone, AgentEnds
<1>11. CASE \E t \in Tasks : ForceMark(t) \/ AgentMarks(t) \/ NewTask(t) \/ HumanEdits(t)
  BY <1>2, <1>11 DEF ForceMark, AgentMarks, NewTask, HumanEdits
<1>12. CASE UNCHANGED vars
  BY <1>2, <1>12 DEF vars
<1> QED
  BY <1>4, <1>5, <1>6, <1>7, <1>8, <1>9, <1>10, <1>11, <1>12
     DEF Next, Body, Picks, Judgement, AfterTurn, Operator, Retry, TimerFires, Outside

(* task_done for a task that is still open goes out in the listed cases      *)
(* only, as long as the agent does not drop lines of TODO.md.                *)
THEOREM DoneIsAccountedCorrect ==
    ASSUME "clobber" \notin Faults
    PROVE  Spec => DoneIsAccounted
<1>1. TypeOK /\ AccInv /\ [Next]_vars => AccInv' BY AccStep
<1>2. TypeOK /\ AccInv /\ [Next]_vars => [Accounts]_vars BY AccountsStep
<1> QED
  BY <1>1, <1>2, InitAcc, TypeCorrect, PTL DEF Spec, DoneIsAccounted
=============================================================================
