-------------------------- MODULE AcpSessionProofs --------------------------
(***************************************************************************)
(* The session for any number of processes, prompts and tools: its types,  *)
(* the replay guard, the tools it reports, the prompts it has to answer    *)
(* for, and the processes nobody will stop.  Then the host that dispatches *)
(* turns to the session, and the two other back-ends that live on from     *)
(* turn to turn: opencode's server and copilot's sessions.                 *)
(***************************************************************************)
EXTENDS AcpSession, MCAcpHost, SequenceTheorems, FiniteSetTheorems, TLAPS

\* What the pieces of the handlers leave well typed.
SessionTypes ==
    /\ child \in 0..MaxProc /\ sid \in {"none", "s"} /\ want \in {"none", "s"}
    /\ stage \in {"none", "init", "load", "new", "ok", "failed"}
    /\ loading \in {"no", "yes"} /\ verify \in {"no", "yes"}
    /\ pending \in SUBSET Id /\ names \in SUBSET Tool /\ output \in {"no", "yes"}

ProcTypes ==
    /\ life \in [Proc -> {"gone", "run", "dead"}] /\ mine \in [Proc -> {"no", "yes"}]
    /\ has \in [Proc -> {"no", "replay", "yes"}] /\ queue \in [Proc -> Seq(Id)]

RestTypes == steerWaits \in {"no", "yes"} /\ office \in SUBSET Tool /\ late \in SUBSET Id

LEMMA TypesSplit == TypeOK <=> SessionTypes /\ ProcTypes /\ RestTypes /\ turn \in Turns
  BY DEF TypeOK, SessionTypes, ProcTypes, RestTypes

LEMMA AwaitType ==
    ASSUME turn \in Turns, NEW pend, NEW r \in {"clean", "error"}
    PROVE  Await(pend, r) \in Turns
  BY DEF Await, Turns, TurnRecords

LEMMA SpawnTypes ==
    ASSUME TypeOK, Spawn
    PROVE  /\ child' \in 0..MaxProc /\ stage' \in {"init", "failed"}
           /\ ProcTypes'
<1>1. CASE \A p \in Proc : life[p] # "gone"
  BY <1>1 DEF TypeOK, ProcTypes, Spawn, procs
<1>2. CASE ~ \A p \in Proc : life[p] # "gone"
  <2>1. PICK p \in Proc :
            /\ child' = p /\ stage' = "init"
            /\ life' = [life EXCEPT ![p] = "run"] /\ mine' = [mine EXCEPT ![p] = "yes"]
            /\ has' = [has EXCEPT ![p] = "no"] /\ queue' = [queue EXCEPT ![p] = <<>>]
    BY <1>2 DEF Spawn
  <2>2. queue' \in [Proc -> Seq(Id)]
    BY <2>1 DEF TypeOK
  <2> QED
    BY <2>1, <2>2, AcpBounds DEF TypeOK, ProcTypes, Proc
<1> QED BY <1>1, <1>2

LEMMA KilledType ==
    ASSUME TypeOK
    PROVE  Killed \in [Proc -> {"gone", "run", "dead"}]
  BY AcpBounds DEF TypeOK, Killed, Alive, Proc

LEMMA LostType == Lost \in {"none", "ok", "failed"}
  BY DEF Lost

LEMMA SendTurnTypes ==
    ASSUME TypeOK, SendTurn, turn'.id \in Id
    PROVE  pending' \in SUBSET Id /\ late' \in SUBSET Id /\ queue' \in [Proc -> Seq(Id)]
<1>1. ASSUME NEW q \in Seq(Id) PROVE Append(q, turn'.id) \in Seq(Id)
  OBVIOUS
<1>2. Alive => child \in Proc
  BY AcpBounds DEF TypeOK, Alive, Proc
<1>3. CASE ~Alive
  BY <1>3 DEF SendTurn, TypeOK
<1>4. CASE Alive
  <2>1. queue[child] \in Seq(Id)
    BY <1>2, <1>4 DEF TypeOK
  <2>2. queue' \in [Proc -> Seq(Id)]
    BY <1>1, <1>2, <1>4, <2>1 DEF SendTurn, TypeOK
  <2> QED BY <1>4, <2>2 DEF SendTurn, TypeOK
<1> QED BY <1>3, <1>4

LEMMA SendSteerTypes ==
    ASSUME TypeOK, SendSteer, Alive
    PROVE  pending' \in SUBSET Id /\ late' \in SUBSET Id /\ queue' \in [Proc -> Seq(Id)]
<1>1. PICK i \in FreeIds :
          /\ pending' = pending \cup {i} /\ late' = late \ {i}
          /\ queue' = IF life[child] = "run" THEN [queue EXCEPT ![child] = Append(@, i)] ELSE queue
  BY DEF SendSteer
<1>2. i \in Id
  BY DEF FreeIds
<1>3. ASSUME NEW q \in Seq(Id) PROVE Append(q, i) \in Seq(Id)
  BY <1>2
<1>4. child \in Proc
  BY AcpBounds DEF TypeOK, Alive, Proc
<1>5. queue' \in [Proc -> Seq(Id)]
  BY <1>1, <1>3, <1>4 DEF TypeOK
<1> QED BY <1>1, <1>2, <1>5 DEF TypeOK

LEMMA ForgetTypes ==
    ASSUME ForgetSession
    PROVE  /\ sid' \in {"none", "s"} /\ want' \in {"none", "s"} /\ verify' = "no"
           /\ mine' \in [Proc -> {"no", "yes"}] /\ has' \in [Proc -> {"no", "replay", "yes"}]
           /\ queue' \in [Proc -> Seq(Id)] /\ late' = {}
<1>1. <<>> \in Seq(Id)
  OBVIOUS
<1> QED BY <1>1 DEF ForgetSession

LEMMA NoTurnType == NoTurn \in Turns
  BY AcpBounds DEF NoTurn, Turn, Turns, TurnRecords

\* The changes to the record of the turn.
LEMMA TurnTypes ==
    ASSUME turn \in Turns, turn.pc # "idle"
    PROVE  /\ [turn EXCEPT !.pc = "grace"] \in Turns
           /\ [turn EXCEPT !.pc = "starting"] \in Turns
           /\ [turn EXCEPT !.pc = "restarting"] \in Turns
           /\ Turn("retry", turn.id, 2) \in Turns
           /\ [turn EXCEPT !.pc = "over", !.res = "timeout"] \in Turns
           /\ [turn EXCEPT !.pc = "over", !.res = "stall"] \in Turns
<1>0. turn \in TurnRecords /\ turn.id # 0
  BY DEF Turns
<1>1. [turn EXCEPT !.pc = "grace"] \in Turns
  <2> DEFINE t == [turn EXCEPT !.pc = "grace"]
  <2>1. t \in TurnRecords
    BY <1>0 DEF TurnRecords
  <2>2. t.id = turn.id
    BY <1>0 DEF TurnRecords
  <2> QED BY <1>0, <2>1, <2>2 DEF Turns
<1>2. [turn EXCEPT !.pc = "starting"] \in Turns
  <2> DEFINE t == [turn EXCEPT !.pc = "starting"]
  <2>1. t \in TurnRecords
    BY <1>0 DEF TurnRecords
  <2>2. t.id = turn.id
    BY <1>0 DEF TurnRecords
  <2> QED BY <1>0, <2>1, <2>2 DEF Turns
<1>3. [turn EXCEPT !.pc = "restarting"] \in Turns
  <2> DEFINE t == [turn EXCEPT !.pc = "restarting"]
  <2>1. t \in TurnRecords
    BY <1>0 DEF TurnRecords
  <2>2. t.id = turn.id
    BY <1>0 DEF TurnRecords
  <2> QED BY <1>0, <2>1, <2>2 DEF Turns
<1>4. Turn("retry", turn.id, 2) \in Turns
  BY <1>0 DEF Turn, Turns, TurnRecords
<1>5. [turn EXCEPT !.pc = "over", !.res = "timeout"] \in Turns
  <2> DEFINE t == [turn EXCEPT !.pc = "over", !.res = "timeout"]
  <2>1. t \in TurnRecords
    BY <1>0 DEF TurnRecords
  <2>2. t.id = turn.id
    BY <1>0 DEF TurnRecords
  <2> QED BY <1>0, <2>1, <2>2 DEF Turns
<1>6. [turn EXCEPT !.pc = "over", !.res = "stall"] \in Turns
  <2> DEFINE t == [turn EXCEPT !.pc = "over", !.res = "stall"]
  <2>1. t \in TurnRecords
    BY <1>0 DEF TurnRecords
  <2>2. t.id = turn.id
    BY <1>0 DEF TurnRecords
  <2> QED BY <1>0, <2>1, <2>2 DEF Turns
<1> QED BY <1>1, <1>2, <1>3, <1>4, <1>5, <1>6

LEMMA RacingType ==
    ASSUME NEW t \in Turns, t.id # 0
    PROVE  Racing(t) \in Turns /\ Racing(t).id = t.id /\ t.id \in Id
<1>0. t \in TurnRecords
  BY DEF Turns
<1>1. t.id \in Id
  BY <1>0, AcpBounds DEF TurnRecords, Id
<1>2. Racing(t).id = t.id
  BY <1>0 DEF Racing, TurnRecords
<1>3. Racing(t) \in TurnRecords
  <2>1. CASE Alive
    BY <1>0, <2>1 DEF Racing, TurnRecords
  <2>2. CASE ~Alive
    BY <1>0, <2>2 DEF Racing, TurnRecords
  <2> QED BY <2>1, <2>2
<1> QED BY <1>1, <1>2, <1>3 DEF Turns

LEMMA FreshTurnType ==
    ASSUME NEW i \in Id
    PROVE  /\ Turn("prompt", i, 1) \in Turns /\ Turn("prompt", i, 1).id = i
           /\ Turn("starting", i, 1) \in Turns
           /\ i # 0
  BY AcpBounds DEF Turn, Turns, TurnRecords, Id

LEMMA TypesStep ==
    ASSUME TypeOK, [Next]_vars
    PROVE  TypeOK'
<1>1. ASSUME Dispatch PROVE TypeOK'
  <2>1. PICK i \in FreeIds :
           IF Ready
           THEN /\ turn' = Racing(Turn("prompt", i, 1)) /\ output' = "no"
                /\ SendTurn
                /\ UNCHANGED <<child, stage, life, mine, has>>
           ELSE /\ turn' = Turn("starting", i, 1)
                /\ IF stage = "none" THEN Spawn ELSE UNCHANGED <<child, stage, procs>>
                /\ UNCHANGED <<pending, output, late>>
    BY <1>1 DEF Dispatch
  <2>2. i \in Id
    BY DEF FreeIds
  <2>3. turn' \in Turns
    BY <2>1, <2>2, FreshTurnType, RacingType
  <2>4. CASE Ready
    <3>1. turn'.id \in Id
      BY <2>1, <2>2, <2>4, FreshTurnType, RacingType
    <3> QED BY <1>1, <2>1, <2>3, <2>4, <3>1, SendTurnTypes DEF Dispatch, TypeOK
  <2>5. CASE ~Ready
    BY <1>1, <2>1, <2>3, <2>5, SpawnTypes DEF Dispatch, TypeOK, ProcTypes, procs
  <2> QED BY <2>4, <2>5
<1>2. ASSUME Steer PROVE TypeOK'
  BY <1>2, SendSteerTypes DEF Steer, Ready, TypeOK
<1>3. ASSUME SteerEnsure PROVE TypeOK'
  <2>1. CASE stage = "none"
    BY <1>3, <2>1, SpawnTypes DEF SteerEnsure, TypeOK, ProcTypes
  <2>2. CASE stage # "none"
    BY <1>3, <2>2 DEF SteerEnsure, TypeOK, procs
  <2> QED BY <2>1, <2>2
<1>4. ASSUME Teardown PROVE TypeOK'
  <2>1. turn' \in Turns
    BY <1>4, AwaitType DEF Teardown, TypeOK
  <2>2. life' \in [Proc -> {"gone", "run", "dead"}]
    BY <1>4, KilledType DEF Teardown
  <2>3. child' \in 0..MaxProc
    BY <1>4, AcpBounds DEF Teardown, DropChild
  <2> QED
    BY <1>4, <2>1, <2>2, <2>3, LostType, ForgetTypes DEF Teardown, DropChild, FlushOpenTools, TypeOK
<1>5. ASSUME Handshake PROVE TypeOK'
  BY <1>5, AcpBounds DEF Handshake, AfterHandshake, TypeOK
<1>6. ASSUME AuthRefused PROVE TypeOK'
  BY <1>6, AcpBounds DEF AuthRefused, TypeOK, procs
<1>7. ASSUME Loaded PROVE TypeOK'
  BY <1>7, AcpBounds DEF Loaded, TypeOK
<1>8. ASSUME LoadFails PROVE TypeOK'
  BY <1>8, AcpBounds DEF LoadFails, TypeOK
<1>9. ASSUME NewSession PROVE TypeOK'
  BY <1>9, AcpBounds DEF NewSession, TypeOK
<1>10. ASSUME NewFails PROVE TypeOK'
  BY <1>10, AcpBounds DEF NewFails, TypeOK, procs
<1>11. ASSUME ResumeSteer PROVE TypeOK'
  BY <1>11, SendSteerTypes DEF ResumeSteer, Ready, TypeOK
<1>12. ASSUME ResumeTurn PROVE TypeOK'
  <2>1. CASE turn.pc = "starting" /\ ~Alive
    BY <1>12, <2>1, SpawnTypes, TurnTypes DEF ResumeTurn, TypeOK, ProcTypes
  <2>2. CASE ~(turn.pc = "starting" /\ ~Alive) /\ turn.pc \in {"starting", "restarting"}
    <3>1. turn \in Turns /\ turn.id # 0
      BY <2>2 DEF TypeOK, Turns
    <3>2. turn' \in Turns /\ turn'.id \in Id /\ SendTurn
      BY <1>12, <2>2, <3>1, RacingType DEF ResumeTurn
    <3> QED BY <1>12, <2>2, <3>2, SendTurnTypes DEF ResumeTurn, TypeOK
  <2>3. CASE ~(turn.pc = "starting" /\ ~Alive) /\ turn.pc \notin {"starting", "restarting"}
    BY <1>12, <2>3 DEF ResumeTurn, TypeOK
  <2> QED BY <2>1, <2>2, <2>3
<1>13. ASSUME StartupFailed PROVE TypeOK'
  BY <1>13, KilledType, ForgetTypes, NoTurnType, AcpBounds DEF StartupFailed, FlushOpenTools, TypeOK, procs
<1>14. ASSUME TurnOver PROVE TypeOK'
  BY <1>14, ForgetTypes, NoTurnType, TurnTypes DEF TurnOver, EndTurn, FlushOpenTools, TypeOK
<1>15. ASSUME Retry PROVE TypeOK'
  BY <1>15, SpawnTypes, TurnTypes DEF Retry, TypeOK, ProcTypes
<1>16. ASSUME GraceOver PROVE TypeOK'
  BY <1>16, ForgetTypes, NoTurnType, TurnTypes DEF GraceOver, EndTurn, FlushOpenTools, TypeOK
<1>17. ASSUME Watchdog PROVE TypeOK'
  BY <1>17, KilledType, LostType, TurnTypes, AcpBounds DEF Watchdog, Close, DropChild, FlushOpenTools, TypeOK
<1>18. ASSUME ResumeStall PROVE TypeOK'
  BY <1>18, KilledType, LostType, TurnTypes, AcpBounds DEF ResumeStall, Close, DropChild, FlushOpenTools, TypeOK
<1>19. ASSUME NEW i \in Id, RequestTimeout(i) PROVE TypeOK'
  BY <1>19, AwaitType DEF RequestTimeout, TypeOK, procs
<1>20. ASSUME NEW p \in Proc, NEW t \in Tool, ToolStart(p, t) PROVE TypeOK'
  BY <1>20, AcpBounds DEF ToolStart, TypeOK, procs
<1>21. ASSUME NEW p \in Proc, NEW t \in Tool, ToolEnd(p, t) PROVE TypeOK'
  BY <1>21, AcpBounds DEF ToolEnd, TypeOK, procs
<1>22. ASSUME NEW p \in Proc, Text(p) PROVE TypeOK'
  BY <1>22, AcpBounds DEF Text, TypeOK, procs
<1>23. ASSUME NEW p \in Proc, LateLoad(p) PROVE TypeOK'
  BY <1>23, AcpBounds DEF LateLoad, TypeOK, session
<1>24. ASSUME NEW p \in Proc, Crash(p) PROVE TypeOK'
  BY <1>24, AcpBounds DEF Crash, TypeOK, session
<1>25. ASSUME NEW p \in Proc, ExitEvent(p) PROVE TypeOK'
  BY <1>25, LostType, AwaitType, AcpBounds DEF ExitEvent, DropChild, FlushOpenTools, TypeOK
<1>26. ASSUME NEW p \in Proc, NEW r \in {"clean", "error"}, Answer(p, r) PROVE TypeOK'
  <2>1. queue[p] \in Seq(Id) /\ queue[p] # <<>>
    BY <1>26 DEF Answer, TypeOK
  <2>2. Tail(queue[p]) \in Seq(Id)
    BY <2>1
  <2>3. queue' \in [Proc -> Seq(Id)]
    BY <1>26, <2>2 DEF Answer, TypeOK
  <2> QED BY <1>26, <2>3, AwaitType DEF Answer, TypeOK
<1>27. CASE UNCHANGED vars
  BY <1>27 DEF vars, session, procs, TypeOK
<1> QED
  BY <1>1, <1>2, <1>3, <1>4, <1>5, <1>6, <1>7, <1>8, <1>9, <1>10, <1>11, <1>12, <1>13, <1>14, <1>15, <1>16, <1>17, <1>18, <1>19, <1>20, <1>21, <1>22, <1>23, <1>24, <1>25, <1>26, <1>27 DEF Next, Startup, Continuation

\* Every variable keeps its type.
THEOREM TypeCorrect == Spec => []TypeOK
<1>1. Init => TypeOK
  BY AcpBounds, NoTurnType DEF Init, TypeOK
<1>2. TypeOK /\ [Next]_vars => TypeOK'
  BY TypesStep
<1> QED BY <1>1, <1>2, PTL DEF Spec

-----------------------------------------------------------------------------
(* The replay guard.  A turn that is about to start a fresh session has none:   *)
(* the stall that led to it closed the child.                                  *)
Stalled == turn.pc = "retry" \/ (turn.pc = "over" /\ turn.res = "stall")

GuardInv ==
    /\ LoadingNotStranded
    /\ Stalled => loading = "no"
    /\ turn.pc = "retry" => sid = "none"
    /\ turn.pc = "drain" => turn.res \in {"clean", "error"}
    /\ turn.pc = "grace" => turn.res = "clean"
    /\ stage \in {"init", "load", "new"} => Alive

LEMMA AwaitNotStalled ==
    ASSUME TypeOK, GuardInv, ~Stalled, NEW pend, NEW r \in {"clean", "error"}
    PROVE  LET t == Await(pend, r)
           IN  /\ t.pc # "retry" /\ ~(t.pc = "over" /\ t.res = "stall")
               /\ t.pc = "drain" => t.res \in {"clean", "error"}
               /\ t.pc = "grace" => t.res = "clean"
  BY DEF Await, Stalled, GuardInv, TypeOK, Turns, TurnRecords

LEMMA RacingNotStalled ==
    ASSUME NEW t \in Turns
    PROVE  Racing(t).pc \in {"prompt", "over"} /\ Racing(t).res \in {"none", "error"}
  BY DEF Racing, Turns, TurnRecords

\* A spawn that succeeds gives a child.
LEMMA SpawnGuard ==
    ASSUME TypeOK, Spawn
    PROVE  stage' \in {"init", "failed"} /\ (stage' = "init" => child' # 0)
  BY AcpBounds DEF Spawn, Proc

LEMMA GuardStep ==
    ASSUME TypeOK, GuardInv, [Next]_vars
    PROVE  GuardInv'
<1>1. ASSUME Dispatch PROVE GuardInv'
  <2> USE AcpBounds DEF Proc, procs, Ready, GuardInv, Stalled, LoadingNotStranded, Alive, TypeOK
  <2>1. PICK i \in FreeIds : IF Ready THEN /\ turn' = Racing(Turn("prompt", i, 1))
                                          /\ UNCHANGED <<child, stage>>
                            ELSE /\ turn' = Turn("starting", i, 1)
                                 /\ IF stage = "none" THEN Spawn ELSE UNCHANGED <<child, stage, procs>>
    BY <1>1 DEF Dispatch
  <2>2. UNCHANGED <<sid, loading, verify>>
    BY <1>1 DEF Dispatch
  <2>3. turn'.pc \in {"prompt", "over", "starting"} /\ turn'.res \in {"none", "error"}
    <3>1. CASE Ready
      BY <3>1, <2>1, RacingNotStalled, FreshTurnType DEF FreeIds
    <3>2. CASE ~Ready
      BY <3>2, <2>1 DEF Turn
    <3> QED BY <3>1, <3>2
  <2>4. CASE Ready \/ stage # "none"
    BY <2>1, <2>2, <2>3, <2>4
  <2>5. CASE ~Ready /\ stage = "none"
    <3>1. Spawn
      BY <2>1, <2>5
    <3> QED BY <3>1, SpawnGuard, <2>2, <2>3, <2>5
  <2> QED BY <2>4, <2>5
<1>2. ASSUME Steer PROVE GuardInv'
  BY <1>2 DEF Steer, SendSteer, GuardInv, Stalled, LoadingNotStranded, Alive, TypeOK, Turns, TurnRecords
<1>3. ASSUME SteerEnsure PROVE GuardInv'
  BY <1>3, SpawnGuard DEF SteerEnsure, procs, Ready, GuardInv, Stalled, LoadingNotStranded, Alive, TypeOK, Turns, TurnRecords
<1>4. ASSUME Teardown PROVE GuardInv'
  BY <1>4, AwaitNotStalled DEF Teardown, DropChild, Lost, FlushOpenTools, ForgetSession, Urgent, GuardInv, Stalled, LoadingNotStranded, Alive, TypeOK, Turns, TurnRecords
<1>5. ASSUME Handshake PROVE GuardInv'
  BY <1>5 DEF Handshake, AfterHandshake, Urgent, GuardInv, Stalled, LoadingNotStranded, Alive, TypeOK, Turns, TurnRecords
<1>6. ASSUME AuthRefused PROVE GuardInv'
  BY <1>6 DEF AuthRefused, GuardInv, Stalled, LoadingNotStranded, Alive, TypeOK, Turns, TurnRecords
<1>7. ASSUME Loaded PROVE GuardInv'
  BY <1>7 DEF Loaded, Urgent, GuardInv, Stalled, LoadingNotStranded, Alive, TypeOK, Turns, TurnRecords
<1>8. ASSUME LoadFails PROVE GuardInv'
  BY <1>8 DEF LoadFails, GuardInv, Stalled, LoadingNotStranded, Alive, TypeOK, Turns, TurnRecords
<1>9. ASSUME NewSession PROVE GuardInv'
  BY <1>9 DEF NewSession, Urgent, GuardInv, Stalled, LoadingNotStranded, Alive, TypeOK, Turns, TurnRecords
<1>10. ASSUME NewFails PROVE GuardInv'
  BY <1>10 DEF NewFails, GuardInv, Stalled, LoadingNotStranded, Alive, TypeOK, Turns, TurnRecords
<1>11. ASSUME ResumeSteer PROVE GuardInv'
  BY <1>11 DEF ResumeSteer, SendSteer, GuardInv, Stalled, LoadingNotStranded, Alive, TypeOK, Turns, TurnRecords
<1>12. ASSUME ResumeTurn PROVE GuardInv'
  <2> USE DEF GuardInv, Stalled, LoadingNotStranded, Alive, TypeOK, Turns, TurnRecords
  <2>1. UNCHANGED <<sid, loading, verify>> /\ stage = "ok" /\ loading = "no"
    BY <1>12 DEF ResumeTurn
  <2>2. CASE turn.pc = "starting" /\ ~Alive
    <3>1. Spawn /\ turn'.pc = "restarting"
      BY <1>12, <2>2 DEF ResumeTurn
    <3> QED BY <2>1, <3>1, SpawnGuard
  <2>3. CASE ~(turn.pc = "starting" /\ ~Alive)
    <3>1. stage' = "none" /\ (turn' = Racing(turn) \/ turn' = turn)
      BY <1>12, <2>3 DEF ResumeTurn
    <3>2. CASE turn' = Racing(turn)
      BY <2>1, <3>1, <3>2, RacingNotStalled
    <3>3. CASE turn' = turn
      BY <2>1, <3>1, <3>3
    <3> QED BY <3>1, <3>2, <3>3
  <2> QED BY <2>2, <2>3
<1>13. ASSUME StartupFailed PROVE GuardInv'
  BY <1>13 DEF StartupFailed, FlushOpenTools, ForgetSession, NoTurn, Turn, procs, GuardInv, Stalled, LoadingNotStranded, Alive, TypeOK, Turns, TurnRecords
<1>14. ASSUME TurnOver PROVE GuardInv'
  BY <1>14 DEF TurnOver, EndTurn, FlushOpenTools, ForgetSession, NoTurn, Turn, GuardInv, Stalled, LoadingNotStranded, Alive, TypeOK, Turns, TurnRecords
<1>15. ASSUME Retry PROVE GuardInv'
  BY <1>15, SpawnGuard DEF Retry, procs, GuardInv, Stalled, LoadingNotStranded, Alive, TypeOK, Turns, TurnRecords
<1>16. ASSUME GraceOver PROVE GuardInv'
  BY <1>16 DEF GraceOver, EndTurn, FlushOpenTools, ForgetSession, NoTurn, Turn, Urgent, GuardInv, Stalled, LoadingNotStranded, Alive, TypeOK, Turns, TurnRecords
<1>17. ASSUME Watchdog PROVE GuardInv'
  BY <1>17 DEF Watchdog, Close, DropChild, Lost, FlushOpenTools, Urgent, GuardInv, Stalled, LoadingNotStranded, Alive, TypeOK, Turns, TurnRecords
<1>18. ASSUME ResumeStall PROVE GuardInv'
  BY <1>18 DEF ResumeStall, Close, DropChild, Lost, FlushOpenTools, Urgent, GuardInv, Stalled, LoadingNotStranded, Alive, TypeOK, Turns, TurnRecords
<1>19. ASSUME NEW i \in Id, RequestTimeout(i) PROVE GuardInv'
  BY <1>19, AwaitNotStalled DEF RequestTimeout, Urgent, procs, GuardInv, Stalled, LoadingNotStranded, Alive, TypeOK, Turns, TurnRecords
<1>20. ASSUME NEW p \in Proc, NEW t \in Tool, ToolStart(p, t) PROVE GuardInv'
  BY <1>20 DEF ToolStart, procs, GuardInv, Stalled, LoadingNotStranded, Alive, TypeOK, Turns, TurnRecords
<1>21. ASSUME NEW p \in Proc, NEW t \in Tool, ToolEnd(p, t) PROVE GuardInv'
  BY <1>21 DEF ToolEnd, procs, GuardInv, Stalled, LoadingNotStranded, Alive, TypeOK, Turns, TurnRecords
<1>22. ASSUME NEW p \in Proc, Text(p) PROVE GuardInv'
  BY <1>22 DEF Text, procs, GuardInv, Stalled, LoadingNotStranded, Alive, TypeOK, Turns, TurnRecords
<1>23. ASSUME NEW p \in Proc, LateLoad(p) PROVE GuardInv'
  BY <1>23 DEF LateLoad, session, GuardInv, Stalled, LoadingNotStranded, Alive, TypeOK, Turns, TurnRecords
<1>24. ASSUME NEW p \in Proc, Crash(p) PROVE GuardInv'
  BY <1>24 DEF Crash, session, GuardInv, Stalled, LoadingNotStranded, Alive, TypeOK, Turns, TurnRecords
<1>25. ASSUME NEW p \in Proc, ExitEvent(p) PROVE GuardInv'
  BY <1>25, AwaitNotStalled DEF ExitEvent, DropChild, Lost, FlushOpenTools, Urgent, GuardInv, Stalled, LoadingNotStranded, Alive, TypeOK, Turns, TurnRecords
<1>26. ASSUME NEW p \in Proc, NEW r \in {"clean", "error"}, Answer(p, r) PROVE GuardInv'
  BY <1>26, AwaitNotStalled DEF Answer, Urgent, GuardInv, Stalled, LoadingNotStranded, Alive, TypeOK, Turns, TurnRecords
<1>27. CASE UNCHANGED vars
  BY <1>27 DEF vars, session, procs, GuardInv, Stalled, LoadingNotStranded, Alive, TypeOK, Turns, TurnRecords
<1> QED
  BY <1>1, <1>2, <1>3, <1>4, <1>5, <1>6, <1>7, <1>8, <1>9, <1>10, <1>11, <1>12, <1>13, <1>14, <1>15, <1>16, <1>17, <1>18, <1>19, <1>20, <1>21, <1>22, <1>23, <1>24, <1>25, <1>26, <1>27 DEF Next, Startup, Continuation

LEMMA GuardAlways == Spec => [](TypeOK /\ GuardInv)
<1>1. Init => GuardInv
  BY DEF Init, GuardInv, LoadingNotStranded, Stalled, NoTurn, Turn
<1>2. TypeOK /\ GuardInv /\ [Next]_vars => GuardInv'
  BY GuardStep
<1> QED BY <1>1, <1>2, TypeCorrect, PTL DEF Spec

\* A session that drops the agent's updates because they are a replay is one
\* that waits for the answer to session/load, with a child to give it.
THEOREM GuardHolds == Spec => []LoadingNotStranded
<1>1. GuardInv => LoadingNotStranded
  BY DEF GuardInv
<1> QED BY <1>1, GuardAlways, PTL

-----------------------------------------------------------------------------
LEMMA ForgetStep == [Next]_vars => ForgetsByReload
<1> SUFFICES ASSUME [Next]_vars PROVE ForgetsByReload
  OBVIOUS
<1> USE DEF Forgotten, ForgetsByReload
<1>1. ASSUME Dispatch PROVE ForgetsByReload
  BY <1>1 DEF Dispatch
<1>2. ASSUME Steer PROVE ForgetsByReload
  BY <1>2 DEF Steer
<1>3. ASSUME SteerEnsure PROVE ForgetsByReload
  BY <1>3 DEF SteerEnsure
<1>4. ASSUME Teardown PROVE ForgetsByReload
  BY <1>4 DEF Teardown, DropChild, FlushOpenTools
<1>5. ASSUME Handshake PROVE ForgetsByReload
  BY <1>5 DEF Handshake
<1>6. ASSUME AuthRefused PROVE ForgetsByReload
  BY <1>6 DEF AuthRefused
<1>7. ASSUME Loaded PROVE ForgetsByReload
  BY <1>7 DEF Loaded
<1>8. ASSUME LoadFails PROVE ForgetsByReload
  BY <1>8 DEF LoadFails
<1>9. ASSUME NewSession PROVE ForgetsByReload
  BY <1>9 DEF NewSession
<1>10. ASSUME NewFails PROVE ForgetsByReload
  BY <1>10 DEF NewFails
<1>11. ASSUME ResumeSteer PROVE ForgetsByReload
  BY <1>11 DEF ResumeSteer
<1>12. ASSUME ResumeTurn PROVE ForgetsByReload
  BY <1>12 DEF ResumeTurn
<1>13. ASSUME StartupFailed PROVE ForgetsByReload
  BY <1>13 DEF StartupFailed, FlushOpenTools
<1>14. ASSUME TurnOver PROVE ForgetsByReload
  BY <1>14 DEF TurnOver, FlushOpenTools
<1>15. ASSUME Retry PROVE ForgetsByReload
  BY <1>15 DEF Retry
<1>16. ASSUME GraceOver PROVE ForgetsByReload
  BY <1>16 DEF GraceOver, FlushOpenTools
<1>17. ASSUME Watchdog PROVE ForgetsByReload
  BY <1>17 DEF Watchdog, Close, DropChild, FlushOpenTools
<1>18. ASSUME ResumeStall PROVE ForgetsByReload
  BY <1>18 DEF ResumeStall, Close, DropChild, FlushOpenTools
<1>19. ASSUME NEW i \in Id, RequestTimeout(i) PROVE ForgetsByReload
  BY <1>19 DEF RequestTimeout
<1>20. ASSUME NEW p \in Proc, NEW t \in Tool, ToolStart(p, t) PROVE ForgetsByReload
  BY <1>20 DEF ToolStart
<1>21. ASSUME NEW p \in Proc, NEW t \in Tool, ToolEnd(p, t) PROVE ForgetsByReload
  BY <1>21 DEF ToolEnd
<1>22. ASSUME NEW p \in Proc, Text(p) PROVE ForgetsByReload
  BY <1>22 DEF Text
<1>23. ASSUME NEW p \in Proc, LateLoad(p) PROVE ForgetsByReload
  BY <1>23 DEF LateLoad, session
<1>24. ASSUME NEW p \in Proc, Crash(p) PROVE ForgetsByReload
  BY <1>24 DEF Crash, session
<1>25. ASSUME NEW p \in Proc, ExitEvent(p) PROVE ForgetsByReload
  BY <1>25 DEF ExitEvent, DropChild, FlushOpenTools
<1>26. ASSUME NEW p \in Proc, NEW r \in {"clean", "error"}, Answer(p, r) PROVE ForgetsByReload
  BY <1>26 DEF Answer
<1>27. CASE UNCHANGED vars
  BY <1>27 DEF vars, session
<1> QED
  BY <1>1, <1>2, <1>3, <1>4, <1>5, <1>6, <1>7, <1>8, <1>9, <1>10, <1>11, <1>12, <1>13, <1>14, <1>15, <1>16, <1>17, <1>18, <1>19, <1>20, <1>21, <1>22, <1>23, <1>24, <1>25, <1>26, <1>27 DEF Next, Startup, Continuation

\* Every tool reported as started is reported as ended by whatever takes it off
\* the session's books, except the end of a session/load.
THEOREM ToolsNotForgotten == Spec => OnlyReloadForgetsTools
<1> QED BY ForgetStep, PTL DEF Spec, OnlyReloadForgetsTools

-----------------------------------------------------------------------------
(* The work of the agent.  No prompt is in two places of the queues, so an     *)
(* answer takes off the session's books what it takes off the queue; a host   *)
(* that is going to send has not sent; and a session whose resume stalled has *)
(* no child.                                                                  *)

Distinct(s) == \A k, l \in 1..Len(s) : s[k] = s[l] => k = l

Unique ==
    /\ \A p \in Proc : life[p] = "run" => Distinct(queue[p])
    /\ \A p, q \in Proc : life[p] = "run" /\ life[q] = "run" /\ p # q
            => Range(queue[p]) \cap Range(queue[q]) = {}

WillSend == turn.pc \in {"starting", "restarting", "retry"}

WorkInv ==
    /\ WorkIsTracked /\ Unique
    /\ WillSend => ~Queued(turn.id)
    /\ Stalled => child = 0
    /\ turn.pc = "over" /\ turn.res = "clean" => pending = {} /\ (stage = "ok" => child = 0)

\* A prompt at the end of a queue.
LEMMA Appending ==
    ASSUME NEW s \in Seq(Id), NEW i \in Id
    PROVE  /\ Range(Append(s, i)) = Range(s) \cup {i}
           /\ Distinct(s) /\ i \notin Range(s) => Distinct(Append(s, i))
<1>1. /\ Len(s) \in Nat /\ DOMAIN s = 1..Len(s) /\ DOMAIN Append(s, i) = 1..(Len(s) + 1)
      /\ Len(Append(s, i)) = Len(s) + 1
      /\ Append(s, i)[Len(s) + 1] = i
      /\ \A k \in 1..Len(s) : Append(s, i)[k] = s[k]
  OBVIOUS
<1>2. \A k \in 1..(Len(s) + 1) : k \in 1..Len(s) \/ k = Len(s) + 1 BY <1>1
<1> QED BY <1>1, <1>2 DEF Range, Distinct

\* An answer takes the first.
LEMMA Taking ==
    ASSUME NEW s \in Seq(Id), s # <<>>
    PROVE  /\ Head(s) \in Range(s) /\ Range(Tail(s)) \subseteq Range(s)
           /\ Distinct(s) => Distinct(Tail(s)) /\ Head(s) \notin Range(Tail(s))
<1>1. /\ Len(s) \in Nat \ {0} /\ DOMAIN s = 1..Len(s) /\ DOMAIN Tail(s) = 1..(Len(s) - 1)
      /\ Len(Tail(s)) = Len(s) - 1 /\ Head(s) = s[1]
      /\ \A k \in 1..(Len(s) - 1) : Tail(s)[k] = s[k + 1]
  OBVIOUS
<1>2. \A k \in 1..(Len(s) - 1) : k + 1 \in 1..Len(s) /\ k + 1 # 1 BY <1>1
<1>3. 1 \in 1..Len(s) BY <1>1
<1> QED BY <1>1, <1>2, <1>3 DEF Range, Distinct

LEMMA EmptyQueue == Range(<<>>) = {} /\ Distinct(<<>>)
BY DEF Range, Distinct

LEMMA ChildIsProc == TypeOK /\ Alive => child \in Proc
BY AcpBounds DEF TypeOK, Alive, Proc

\* _promptRequest: the books and the queue grow by the same prompt.
LEMMA Sending ==
    ASSUME TypeOK, WorkIsTracked, Unique, Alive, NEW i \in Id, ~Queued(i),
           child' = child, life' = life, pending' = pending \cup {i}, late' = late \ {i},
           queue' = IF life[child] = "run" THEN [queue EXCEPT ![child] = Append(@, i)] ELSE queue
    PROVE  /\ WorkIsTracked' /\ Unique'
           /\ \A j : j # i /\ ~Queued(j) => ~Queued(j)'
<1>1. child \in Proc /\ queue \in [Proc -> Seq(Id)] BY ChildIsProc DEF TypeOK
<1>2. CASE life[child] # "run"
  BY <1>2 DEF WorkIsTracked, Unique, Backlog, Alive, Queued
<1>3. CASE life[child] = "run"
  <2>1. /\ queue'[child] = Append(queue[child], i)
        /\ \A q \in Proc : q # child => queue'[q] = queue[q]
    BY <1>1, <1>3
  <2>2. \A q \in Proc : life[q] = "run" => i \notin Range(queue[q]) BY DEF Queued
  <2>3. /\ Range(queue'[child]) = Range(queue[child]) \cup {i}
        /\ Distinct(queue[child]) => Distinct(queue'[child])
    BY <1>1, <1>3, <2>1, <2>2, Appending
  <2>4. WorkIsTracked' BY <1>1, <1>3, <2>3 DEF WorkIsTracked, Backlog, Alive
  <2>5. Unique' BY <1>1, <1>3, <2>1, <2>2, <2>3 DEF Unique
  <2>6. \A j : j # i /\ ~Queued(j) => ~Queued(j)' BY <1>1, <1>3, <2>1, <2>3 DEF Queued
  <2> QED BY <2>4, <2>5, <2>6
<1> QED BY <1>2, <1>3

\* _spawnChild: the new process has nothing to do.
LEMMA Spawning ==
    ASSUME TypeOK, WorkIsTracked, Unique, Spawn, UNCHANGED <<pending, late>>
    PROVE  WorkIsTracked' /\ Unique' /\ \A j : ~Queued(j) => ~Queued(j)'
<1>1. CASE \A p \in Proc : life[p] # "gone"
  <2>1. UNCHANGED <<child, life, queue>> BY <1>1 DEF Spawn, procs
  <2> QED BY <2>1 DEF WorkIsTracked, Unique, Backlog, Alive, Queued
<1>2. CASE \E p \in Proc : life[p] = "gone"
  <2>1. PICK p \in Proc :
          /\ child' = p /\ life[p] = "gone"
          /\ life' = [life EXCEPT ![p] = "run"] /\ queue' = [queue EXCEPT ![p] = <<>>]
    BY <1>2 DEF Spawn
  <2>2. /\ life \in [Proc -> {"gone", "run", "dead"}] /\ queue \in [Proc -> Seq(Id)] BY DEF TypeOK
  <2>3. /\ queue'[p] = <<>> /\ \A q \in Proc : q # p => queue'[q] = queue[q] /\ life'[q] = life[q]
    BY <2>1, <2>2
  <2>4. Range(queue'[p]) = {} /\ Distinct(queue'[p]) BY <2>3, EmptyQueue
  <2>5. WorkIsTracked' BY <2>1, <2>4 DEF WorkIsTracked, Backlog
  <2>6. Unique' BY <2>3, <2>4 DEF Unique
  <2>7. \A j : ~Queued(j) => ~Queued(j)' BY <2>3, <2>4 DEF Queued
  <2> QED BY <2>5, <2>6, <2>7
<1> QED BY <1>1, <1>2

\* Nothing is sent, and no process is started or stops being the child but to be lost.
LEMMA Keeping ==
    ASSUME TypeOK, WorkIsTracked, Unique, queue' = queue,
           \A p \in Proc : life'[p] = "run" => life[p] = "run"
    PROVE  /\ Unique' /\ \A j : ~Queued(j) => ~Queued(j)'
           /\ child' = 0 \/ (child' = child /\ pending \subseteq pending' /\ late \subseteq late') => WorkIsTracked'
<1>1. Unique' BY DEF Unique
<1>2. \A j : ~Queued(j) => ~Queued(j)' BY DEF Queued
<1>3. ASSUME child' = child, pending \subseteq pending', late \subseteq late' PROVE WorkIsTracked'
  <2>1. Backlog' \subseteq Backlog BY <1>3, ChildIsProc DEF Backlog, Alive
  <2> QED BY <1>3, <2>1 DEF WorkIsTracked
<1>4. child' = 0 => WorkIsTracked' BY DEF WorkIsTracked, Backlog, Alive
<1> QED BY <1>1, <1>2, <1>3, <1>4

\* The session is forgotten with its queues.
LEMMA Forgetting ==
    ASSUME ForgetSession, child' = 0
    PROVE  WorkIsTracked' /\ Unique' /\ \A j : ~Queued(j)'
<1>1. \A p \in Proc : queue'[p] = <<>> BY DEF ForgetSession
<1>2. \A p \in Proc : Range(queue'[p]) = {} /\ Distinct(queue'[p]) BY <1>1, EmptyQueue
<1> QED BY <1>2 DEF WorkIsTracked, Backlog, Alive, Unique, Queued

\* What Await makes of a turn, as far as its end is concerned.
LEMMA AwaitEnds ==
    ASSUME TypeOK, GuardInv, NEW pend, NEW r \in {"clean", "error"}, NEW t, t = Await(pend, r), ~Stalled
    PROVE  /\ t.id = turn.id
           /\ t.pc \in {"starting", "restarting"} <=> turn.pc \in {"starting", "restarting"}
           /\ t.pc # "retry" /\ ~(t.pc = "over" /\ t.res = "stall")
           /\ t.pc = "over" => pend = {} \/ turn.pc = "over"
<1>1. turn \in TurnRecords BY DEF TypeOK, Turns
<1>2. CASE turn.pc = "prompt" /\ turn.id \notin pend
  <2>1. t = [turn EXCEPT !.pc = IF pend = {} THEN "over" ELSE "drain", !.res = r] BY <1>2 DEF Await
  <2> QED BY <1>1, <1>2, <2>1 DEF TurnRecords, WillSend, Stalled
<1>3. CASE ~(turn.pc = "prompt" /\ turn.id \notin pend) /\ turn.pc = "drain" /\ pend = {}
  <2>1. t = [turn EXCEPT !.pc = "over"] BY <1>3 DEF Await
  <2> QED BY <1>1, <1>3, <2>1 DEF TurnRecords, GuardInv, Stalled
<1>4. CASE ~(turn.pc = "prompt" /\ turn.id \notin pend) /\ ~(turn.pc = "drain" /\ pend = {})
  <2>1. t = turn BY <1>4 DEF Await
  <2> QED BY <2>1 DEF WillSend, Stalled
<1> QED BY <1>2, <1>3, <1>4

LEMMA RacingEnds ==
    ASSUME NEW t \in Turns
    PROVE  /\ Racing(t).pc \in {"prompt", "over"} /\ Racing(t).res \in {"none", "error"}
           /\ Racing(t).id = t.id
BY DEF Racing, Turns, TurnRecords

LEMMA DispatchWork == TypeOK /\ WorkInv /\ Dispatch => WorkInv'
<1> SUFFICES ASSUME TypeOK, WorkInv, Dispatch PROVE WorkInv' OBVIOUS
<1>1. PICK i \in FreeIds :
           IF Ready
           THEN /\ turn' = Racing(Turn("prompt", i, 1)) /\ SendTurn
                /\ UNCHANGED <<child, stage, life, mine, has>>
           ELSE /\ turn' = Turn("starting", i, 1)
                /\ IF stage = "none" THEN Spawn ELSE UNCHANGED <<child, stage, procs>>
                /\ UNCHANGED <<pending, output, late>>
  BY DEF Dispatch
<1>2. i \in Id /\ ~Queued(i) BY DEF FreeIds
<1>3. CASE Ready
  <2>1. Turn("prompt", i, 1) \in Turns /\ Turn("prompt", i, 1).id = i BY <1>2, FreshTurnType
  <2>2. turn'.pc \in {"prompt", "over"} /\ turn'.res \in {"none", "error"} /\ turn'.id = i
    BY <1>1, <1>3, <2>1, RacingEnds
  <2>3. /\ child' = child /\ life' = life /\ pending' = pending \cup {i} /\ late' = late \ {i}
        /\ queue' = IF life[child] = "run" THEN [queue EXCEPT ![child] = Append(@, i)] ELSE queue
    BY <1>1, <1>3, <2>2 DEF SendTurn, Ready
  <2>4. WorkIsTracked' /\ Unique' BY <1>2, <1>3, <2>3, Sending DEF WorkInv, Ready
  <2> QED BY <2>2, <2>4 DEF WorkInv, WillSend, Stalled
<1>4. CASE ~Ready
  <2>1. turn'.pc = "starting" /\ turn'.id = i BY <1>1, <1>4 DEF Turn
  <2>2. CASE stage = "none"
    <3>1. WorkIsTracked' /\ Unique' /\ ~Queued(i)' BY <1>1, <1>2, <1>4, <2>2, Spawning DEF WorkInv
    <3> QED BY <2>1, <3>1 DEF WorkInv, WillSend, Stalled
  <2>3. CASE stage # "none"
    <3>1. UNCHANGED <<child, life, queue, pending, late>> BY <1>1, <1>4, <2>3 DEF procs
    <3>2. WorkIsTracked' /\ Unique' /\ ~Queued(i)' BY <1>2, <3>1, Keeping DEF WorkInv
    <3> QED BY <2>1, <3>2 DEF WorkInv, WillSend, Stalled
  <2> QED BY <2>2, <2>3
<1> QED BY <1>3, <1>4

\* The steps that leave the turn, and send nothing.
LEMMA QuietWork ==
    ASSUME TypeOK, WorkInv, UNCHANGED <<turn, queue, pending, late>>, child' = child \/ child' = 0,
           \A p \in Proc : life'[p] = "run" => life[p] = "run",
           stage' = "ok" => stage = "ok" \/ turn.pc # "over"
    PROVE  WorkInv'
<1>1. WorkIsTracked' /\ Unique' /\ \A j : ~Queued(j) => ~Queued(j)' BY Keeping DEF WorkInv
<1> QED BY <1>1 DEF WorkInv, WillSend, Stalled

LEMMA StartupWork == TypeOK /\ WorkInv /\ Startup => WorkInv'
<1> SUFFICES ASSUME TypeOK, WorkInv, Startup PROVE WorkInv' OBVIOUS
<1>1. /\ UNCHANGED <<turn, queue, pending, late, child, life>> /\ ~Urgent
  BY DEF Startup, Handshake, AuthRefused, Loaded, LoadFails, NewSession, NewFails, procs
<1> QED BY <1>1, QuietWork DEF Urgent

LEMMA SteerWork ==
    ASSUME TypeOK, WorkInv, Alive, SendSteer, UNCHANGED <<child, stage, turn, life>>,
           stage = "ok" \/ turn.pc # "over"
    PROVE  WorkInv'
<1>1. PICK i \in FreeIds :
          /\ pending' = pending \cup {i} /\ late' = late \ {i}
          /\ queue' = IF life[child] = "run" THEN [queue EXCEPT ![child] = Append(@, i)] ELSE queue
  BY DEF SendSteer
<1>2. i \in Id /\ i # turn.id /\ ~Queued(i) BY DEF FreeIds
<1>3. WorkIsTracked' /\ Unique' /\ \A j : j # i /\ ~Queued(j) => ~Queued(j)'
  BY <1>1, <1>2, Sending DEF WorkInv
<1> QED BY <1>2, <1>3 DEF WorkInv, WillSend, Stalled, Alive

LEMMA SteersWork == TypeOK /\ WorkInv /\ (Steer \/ SteerEnsure \/ ResumeSteer) => WorkInv'
<1> SUFFICES ASSUME TypeOK, WorkInv, Steer \/ SteerEnsure \/ ResumeSteer PROVE WorkInv' OBVIOUS
<1>1. CASE Steer BY <1>1, SteerWork DEF Steer, Ready, Urgent
<1>2. CASE SteerEnsure
  <2>1. UNCHANGED <<turn, pending, late>> /\ ~Urgent BY <1>2 DEF SteerEnsure
  <2>2. WorkIsTracked' /\ Unique' /\ \A j : ~Queued(j) => ~Queued(j)'
    <3>1. CASE stage = "none" BY <1>2, <2>1, <3>1, Spawning DEF SteerEnsure, WorkInv
    <3>2. CASE stage # "none" BY <1>2, <2>1, <3>2, Keeping DEF SteerEnsure, WorkInv, procs
    <3> QED BY <3>1, <3>2
  <2> QED BY <2>1, <2>2 DEF WorkInv, WillSend, Stalled, Urgent
<1>3. CASE ResumeSteer
  <2>1. CASE stage = "ok" /\ Ready /\ FreeIds # {}
    BY <1>3, <2>1, SteerWork DEF ResumeSteer, Ready
  <2>2. CASE ~(stage = "ok" /\ Ready /\ FreeIds # {})
    BY <1>3, <2>2, QuietWork DEF ResumeSteer
  <2> QED BY <2>1, <2>2
<1> QED BY <1>1, <1>2, <1>3

LEMMA ResumeTurnWork == TypeOK /\ WorkInv /\ ResumeTurn => WorkInv'
<1> SUFFICES ASSUME TypeOK, WorkInv, ResumeTurn PROVE WorkInv' OBVIOUS
<1>0. turn \in Turns BY DEF TypeOK
<1>1. CASE turn.pc = "starting" /\ ~Alive
  <2>1. turn' = [turn EXCEPT !.pc = "restarting"] /\ Spawn /\ UNCHANGED <<pending, late>>
    BY <1>1 DEF ResumeTurn
  <2>2. turn'.pc = "restarting" /\ turn'.id = turn.id BY <1>0, <2>1 DEF Turns, TurnRecords
  <2>3. WorkIsTracked' /\ Unique' /\ \A j : ~Queued(j) => ~Queued(j)' BY <2>1, Spawning DEF WorkInv
  <2> QED BY <1>1, <2>2, <2>3 DEF WorkInv, WillSend, Stalled
<1>2. CASE ~(turn.pc = "starting" /\ ~Alive) /\ turn.pc \in {"starting", "restarting"}
  <2>1. turn' = Racing(turn) /\ SendTurn /\ UNCHANGED <<child, life>> BY <1>2 DEF ResumeTurn
  <2>2. turn'.pc \in {"prompt", "over"} /\ turn'.res \in {"none", "error"} /\ turn'.id = turn.id
    BY <1>0, <2>1, RacingEnds
  <2>3. turn.id \in Id /\ ~Queued(turn.id) BY <1>0, <1>2, RacingType DEF WorkInv, WillSend, Turns
  <2>4. WorkIsTracked' /\ Unique'
    <3>1. CASE Alive
      BY <2>1, <2>2, <2>3, <3>1, Sending DEF SendTurn, WorkInv
    <3>2. CASE ~Alive
      BY <2>1, <3>2, Keeping DEF SendTurn, WorkInv
    <3> QED BY <3>1, <3>2
  <2> QED BY <2>2, <2>4 DEF WorkInv, WillSend, Stalled
<1>3. CASE turn.pc \notin {"starting", "restarting"}
  BY <1>3, QuietWork DEF ResumeTurn
<1> QED BY <1>1, <1>2, <1>3

LEMMA StartupFailedWork == TypeOK /\ WorkInv /\ StartupFailed => WorkInv'
<1> SUFFICES ASSUME TypeOK, WorkInv, StartupFailed PROVE WorkInv' OBVIOUS
<1>1. NoTurn.pc = "idle" BY DEF NoTurn, Turn
<1>2. CASE turn.pc = "starting" /\ turn.run = 1
  <2>1. child' = 0 /\ ForgetSession /\ turn' = NoTurn BY <1>2 DEF StartupFailed
  <2>2. WorkIsTracked' /\ Unique' BY <2>1, Forgetting
  <2> QED BY <1>1, <2>1, <2>2 DEF WorkInv, WillSend, Stalled
<1>3. CASE ~(turn.pc = "starting" /\ turn.run = 1)
  <2>1. UNCHANGED <<child, pending, life, queue, late>> /\ stage' = "none"
    BY <1>3 DEF StartupFailed, procs
  <2>2. CASE turn.pc \in {"starting", "restarting"}
    <3>1. turn' = NoTurn BY <1>3, <2>2 DEF StartupFailed
    <3>2. WorkIsTracked' /\ Unique' BY <2>1, Keeping DEF WorkInv
    <3> QED BY <1>1, <3>1, <3>2 DEF WorkInv, WillSend, Stalled
  <2>3. CASE turn.pc \notin {"starting", "restarting"}
    BY <1>3, <2>1, <2>3, QuietWork DEF StartupFailed
  <2> QED BY <2>2, <2>3
<1> QED BY <1>2, <1>3

\* runTurn ends: the session is forgotten only with a stalled resume, whose child is lost.
LEMMA EndTurnWork ==
    ASSUME TypeOK, WorkInv, EndTurn, UNCHANGED <<child, pending, life>>, turn.res = "stall" => Stalled
    PROVE  WorkInv'
<1>1. NoTurn.pc = "idle" BY DEF NoTurn, Turn
<1>2. CASE turn.res = "stall" /\ turn.run = 1
  <2>1. ForgetSession /\ turn'.pc = "retry" BY <1>2 DEF EndTurn, Turn
  <2>2. child' = 0 BY <1>2 DEF WorkInv
  <2>3. WorkIsTracked' /\ Unique' /\ \A j : ~Queued(j)' BY <2>1, <2>2, Forgetting
  <2> QED BY <2>1, <2>2, <2>3 DEF WorkInv, WillSend, Stalled
<1>3. CASE ~(turn.res = "stall" /\ turn.run = 1)
  <2>1. turn' = NoTurn /\ UNCHANGED <<queue, late>> BY <1>3 DEF EndTurn
  <2>2. WorkIsTracked' /\ Unique' BY <2>1, Keeping DEF WorkInv
  <2> QED BY <1>1, <2>1, <2>2 DEF WorkInv, WillSend, Stalled
<1> QED BY <1>2, <1>3

LEMMA EndsWork == TypeOK /\ GuardInv /\ WorkInv /\ (TurnOver \/ GraceOver) => WorkInv'
<1> SUFFICES ASSUME TypeOK, GuardInv, WorkInv, TurnOver \/ GraceOver PROVE WorkInv' OBVIOUS
<1>1. CASE TurnOver
  <2>1. CASE turn.res = "clean" /\ output = "no"
    <3>1. turn' = [turn EXCEPT !.pc = "grace"] /\ UNCHANGED <<child, pending, life, queue, late>>
      BY <1>1, <2>1 DEF TurnOver
    <3>2. turn'.pc = "grace" BY <3>1 DEF TypeOK, Turns, TurnRecords
    <3>3. WorkIsTracked' /\ Unique' BY <3>1, Keeping DEF WorkInv
    <3> QED BY <3>2, <3>3 DEF WorkInv, WillSend, Stalled
  <2>2. CASE ~(turn.res = "clean" /\ output = "no")
    BY <1>1, <2>2, EndTurnWork DEF TurnOver, Stalled
  <2> QED BY <2>1, <2>2
<1>2. CASE GraceOver
  BY <1>2, EndTurnWork DEF GraceOver, GuardInv
<1> QED BY <1>1, <1>2

LEMMA RetryWork == TypeOK /\ WorkInv /\ Retry => WorkInv'
<1> SUFFICES ASSUME TypeOK, WorkInv, Retry PROVE WorkInv' OBVIOUS
<1>1. turn' = [turn EXCEPT !.pc = "starting"] /\ Spawn /\ UNCHANGED <<pending, late>> /\ turn.pc = "retry"
  BY DEF Retry
<1>2. turn'.pc = "starting" /\ turn'.id = turn.id BY <1>1 DEF TypeOK, Turns, TurnRecords
<1>3. WorkIsTracked' /\ Unique' /\ \A j : ~Queued(j) => ~Queued(j)' BY <1>1, Spawning DEF WorkInv
<1> QED BY <1>1, <1>2, <1>3 DEF WorkInv, WillSend, Stalled

\* close() and the watchdogs, and a torn down session.
LEMMA CloseWork == TypeOK /\ GuardInv /\ WorkInv /\ (Watchdog \/ ResumeStall \/ Teardown) => WorkInv'
<1> SUFFICES ASSUME TypeOK, GuardInv, WorkInv, Watchdog \/ ResumeStall \/ Teardown PROVE WorkInv' OBVIOUS
<1>1. child' = 0 /\ pending' = {} BY DEF Watchdog, ResumeStall, Teardown, Close, DropChild
<1>2. WorkIsTracked' BY <1>1 DEF WorkIsTracked, Backlog, Alive
<1>3. CASE Watchdog \/ ResumeStall
  <2>1. queue' = queue /\ life' = Killed BY <1>3 DEF Watchdog, ResumeStall, Close
  <2>2. \A p \in Proc : life'[p] = "run" => life[p] = "run" BY <2>1 DEF Killed, TypeOK
  <2>3. Unique' /\ \A j : ~Queued(j) => ~Queued(j)' BY <2>1, <2>2, Keeping DEF WorkInv
  <2>4. turn'.pc = "over" BY <1>3 DEF Watchdog, ResumeStall, Close, TypeOK, Turns, TurnRecords
  <2> QED BY <1>1, <1>2, <2>3, <2>4 DEF WorkInv, WillSend
<1>4. CASE Teardown
  <2>1. ForgetSession /\ turn' = Await({}, "error") /\ ~Urgent BY <1>4 DEF Teardown
  <2>2. Unique' /\ \A j : ~Queued(j)' BY <1>1, <2>1, Forgetting
  <2>3. ~Stalled BY <2>1 DEF Urgent, Stalled
  <2>4. turn'.pc # "retry" /\ ~(turn'.pc = "over" /\ turn'.res = "stall") BY <2>1, <2>3, AwaitEnds
  <2> QED BY <1>1, <1>2, <2>2, <2>4 DEF WorkInv, Stalled
<1> QED BY <1>3, <1>4

LEMMA TimeoutWork == ASSUME TypeOK, GuardInv, WorkInv, NEW i \in Id, RequestTimeout(i) PROVE WorkInv'
<1>1. /\ pending' = pending \ {i} /\ late' = IF Queued(i) THEN late \cup {i} ELSE late
      /\ turn' = Await(pending', "error") /\ UNCHANGED <<child, stage, life, queue>> /\ ~Urgent
  BY DEF RequestTimeout, procs
<1>2. Unique' /\ \A j : ~Queued(j) => ~Queued(j)' BY <1>1, Keeping DEF WorkInv
<1>3. WorkIsTracked'
  <2>1. Backlog' = Backlog BY <1>1 DEF Backlog, Alive
  <2>2. i \in Backlog => Queued(i) BY ChildIsProc DEF Backlog, Queued
  <2> QED BY <1>1, <2>1, <2>2 DEF WorkInv, WorkIsTracked
<1>4. ~Stalled /\ turn.pc # "over" BY <1>1 DEF Urgent, Stalled
<1>5. /\ turn'.id = turn.id /\ (turn'.pc \in {"starting", "restarting"} => turn.pc \in {"starting", "restarting"})
      /\ turn'.pc # "retry" /\ ~(turn'.pc = "over" /\ turn'.res = "stall")
      /\ turn'.pc = "over" => pending' = {}
  BY <1>1, <1>4, AwaitEnds
<1> QED BY <1>1, <1>2, <1>3, <1>4, <1>5 DEF WorkInv, Stalled, WillSend, Urgent

LEMMA AnswerWork ==
    ASSUME TypeOK, GuardInv, WorkInv, NEW p \in Proc, NEW r \in {"clean", "error"}, Answer(p, r) PROVE WorkInv'
<1> DEFINE h == Head(queue[p])
<1>1. /\ life[p] = "run" /\ queue[p] # <<>> /\ queue[p] \in Seq(Id) /\ queue \in [Proc -> Seq(Id)]
      /\ queue' = [queue EXCEPT ![p] = Tail(queue[p])] /\ late' = late \ {h}
      /\ UNCHANGED <<child, stage, life>> /\ ~Urgent
      /\ \/ pending' = pending \ {h} /\ turn' = Await(pending', r)
         \/ UNCHANGED <<pending, turn>>
  BY DEF Answer, TypeOK
<1>2. /\ h \in Range(queue[p]) /\ Range(Tail(queue[p])) \subseteq Range(queue[p])
      /\ Distinct(queue[p]) => Distinct(Tail(queue[p])) /\ h \notin Range(Tail(queue[p]))
  BY <1>1, Taking
<1> HIDE DEF h
<1>3. queue'[p] = Tail(queue[p]) /\ \A q \in Proc : q # p => queue'[q] = queue[q] BY <1>1
<1>4. \A q \in Proc : Range(queue'[q]) \subseteq Range(queue[q]) BY <1>2, <1>3
<1>5. Unique' BY <1>1, <1>2, <1>3, <1>4 DEF WorkInv, Unique
<1>6. \A j : ~Queued(j) => ~Queued(j)' BY <1>1, <1>4 DEF Queued
<1>7. WorkIsTracked'
  <2>1. CASE child = p
    <3>1. Backlog' \subseteq Backlog \ {h} BY <1>1, <1>2, <1>3, <2>1 DEF Backlog, Alive, WorkInv, Unique
    <3> QED BY <1>1, <3>1 DEF WorkInv, WorkIsTracked
  <2>2. CASE child # p
    <3>1. Backlog' = Backlog /\ h \notin Backlog
      BY <1>1, <1>2, <1>3, <2>2, ChildIsProc DEF Backlog, Alive, WorkInv, Unique
    <3> QED BY <1>1, <3>1 DEF WorkInv, WorkIsTracked
  <2> QED BY <2>1, <2>2
<1>8. ~Stalled /\ turn.pc # "over" BY <1>1 DEF Urgent, Stalled
<1>9. /\ turn'.id = turn.id /\ (turn'.pc \in {"starting", "restarting"} => turn.pc \in {"starting", "restarting"})
      /\ turn'.pc # "retry" /\ ~(turn'.pc = "over" /\ turn'.res = "stall")
      /\ turn'.pc = "over" => pending' = {}
  <2>1. CASE turn' = turn BY <1>8, <2>1 DEF WillSend, Stalled
  <2>2. CASE turn' = Await(pending', r) BY <1>8, <2>2, AwaitEnds
  <2> QED BY <1>1, <2>1, <2>2
<1> QED BY <1>1, <1>5, <1>6, <1>7, <1>9 DEF WorkInv, Stalled, WillSend, Urgent

LEMMA ExitWork == ASSUME TypeOK, GuardInv, WorkInv, NEW p \in Proc, ExitEvent(p) PROVE WorkInv'
<1>1. /\ life[p] = "dead" /\ life' = [life EXCEPT ![p] = "gone"] /\ queue' = [queue EXCEPT ![p] = <<>>]
      /\ late' = {i \in late : Queued(i)} /\ ~Urgent
      /\ \/ DropChild /\ turn' = Await({}, "error")
         \/ UNCHANGED <<child, pending, stage, turn>>
  BY DEF ExitEvent
<1>2. /\ queue'[p] = <<>> /\ life'[p] = "gone"
      /\ \A q \in Proc : q # p => queue'[q] = queue[q] /\ life'[q] = life[q]
  BY <1>1 DEF TypeOK
<1>3. Unique' BY <1>2 DEF WorkInv, Unique
<1>4. \A j : ~Queued(j) => ~Queued(j)' BY <1>2 DEF Queued
<1>5. ~Stalled /\ turn.pc # "over" BY <1>1 DEF Urgent, Stalled
<1>6. CASE DropChild /\ turn' = Await({}, "error")
  <2>1. child' = 0 /\ pending' = {} BY <1>6 DEF DropChild
  <2>2. WorkIsTracked' BY <2>1 DEF WorkIsTracked, Backlog, Alive
  <2>3. /\ turn'.id = turn.id /\ (turn'.pc \in {"starting", "restarting"} => turn.pc \in {"starting", "restarting"})
        /\ turn'.pc # "retry" /\ ~(turn'.pc = "over" /\ turn'.res = "stall")
    BY <1>5, <1>6, AwaitEnds
  <2> QED BY <1>3, <1>4, <2>1, <2>2, <2>3 DEF WorkInv, Stalled, WillSend
<1>7. CASE UNCHANGED <<child, pending, stage, turn>>
  <2>1. WorkIsTracked'
    <3>1. Backlog' \subseteq Backlog BY <1>1, <1>2, <1>7, ChildIsProc DEF Backlog, Alive
    <3>2. \A i \in Backlog : Queued(i) BY ChildIsProc DEF Backlog, Queued
    <3> QED BY <1>1, <1>7, <3>1, <3>2 DEF WorkInv, WorkIsTracked
  <2> QED BY <1>3, <1>4, <1>5, <1>7, <2>1 DEF WorkInv, Stalled, WillSend
<1> QED BY <1>1, <1>6, <1>7

LEMMA InitWork == Init => WorkInv
BY DEF Init, WorkInv, WorkIsTracked, Backlog, Alive, Unique, WillSend, Stalled, NoTurn, Turn

\* The steps of the agent, but for its answers and its exit.
LEMMA AgentWork ==
    ASSUME TypeOK, WorkInv, NEW p \in Proc,
           (\E t \in Tool : ToolStart(p, t) \/ ToolEnd(p, t)) \/ Text(p) \/ LateLoad(p) \/ Crash(p)
    PROVE  WorkInv'
<1>1. CASE Crash(p)
  BY <1>1, QuietWork DEF Crash, session, TypeOK
<1>2. CASE (\E t \in Tool : ToolStart(p, t) \/ ToolEnd(p, t)) \/ Text(p) \/ LateLoad(p)
  BY <1>2, QuietWork DEF ToolStart, ToolEnd, Text, LateLoad, session, procs
<1> QED BY <1>1, <1>2

LEMMA WorkStep == TypeOK /\ GuardInv /\ WorkInv /\ [Next]_vars => WorkInv'
<1> SUFFICES ASSUME TypeOK, GuardInv, WorkInv, [Next]_vars PROVE WorkInv' OBVIOUS
<1>1. CASE UNCHANGED vars BY <1>1, QuietWork DEF vars, session, procs
<1>2. CASE Next
  BY <1>2, DispatchWork, SteersWork, StartupWork, ResumeTurnWork, StartupFailedWork, EndsWork,
     RetryWork, CloseWork, TimeoutWork, AgentWork, ExitWork, AnswerWork
     DEF Next, Continuation
<1> QED BY <1>1, <1>2

LEMMA WorkAlways == Spec => [](TypeOK /\ GuardInv /\ WorkInv)
<1>1. Spec => [](TypeOK /\ GuardInv) BY GuardAlways
<1> QED BY <1>1, InitWork, WorkStep, PTL DEF Spec

\* Whatever the child still has to do is awaited or was given up by the request
\* timer, whichever way prompts, steers, answers, exits and restarts interleave.
THEOREM WorkTracked == Spec => []WorkIsTracked
<1>1. WorkInv => WorkIsTracked BY DEF WorkInv
<1> QED BY <1>1, WorkAlways, PTL

-----------------------------------------------------------------------------
(* Processes nobody will stop. *)

\* A child that is kept or killed leaves none.
LEMMA NoneLeft ==
    ASSUME TypeOK, \A q \in Proc : life'[q] = "run" => life[q] = "run",
           child' = child \/ (child' = 0 /\ life' = Killed)
    PROVE  Orphans' \subseteq Orphans
<1>1. CASE child' = child BY <1>1 DEF Orphans
<1>2. CASE child' = 0 /\ life' = Killed
  <2>1. \A q \in Proc : life'[q] = "run" => q # child BY <1>2 DEF Killed, Alive, TypeOK, Proc
  <2> QED BY <2>1 DEF Orphans
<1> QED BY <1>1, <1>2

LEMMA KilledOnly == TypeOK => \A q \in Proc : Killed[q] = "run" => life[q] = "run"
BY DEF Killed, TypeOK

\* A new child leaves the one it replaces.
LEMMA SpawnLeaves ==
    ASSUME TypeOK, Spawn
    PROVE  /\ \A q \in Orphans' \ Orphans : q = child /\ Alive
           /\ stage' \in {"init", "failed"}
<1>1. CASE \A p \in Proc : life[p] # "gone"
  BY <1>1 DEF Spawn, procs, Orphans
<1>2. CASE ~ \A p \in Proc : life[p] # "gone"
  <2>1. PICK p \in Proc : child' = p /\ stage' = "init" /\ life' = [life EXCEPT ![p] = "run"]
    BY <1>2 DEF Spawn
  <2>2. \A q \in Proc : q # p => life'[q] = life[q] BY <2>1 DEF TypeOK
  <2> QED BY <2>1, <2>2 DEF Orphans, Alive, Proc
<1> QED BY <1>1, <1>2

LEMMA OrphanStep == TypeOK /\ GuardInv /\ WorkInv /\ [Next]_vars => OrphanedBySuccessor
<1> SUFFICES ASSUME TypeOK, GuardInv, WorkInv, [Next]_vars PROVE OrphanedBySuccessor OBVIOUS
<1>1. ASSUME Orphans' \subseteq Orphans PROVE OrphanedBySuccessor
  BY <1>1 DEF OrphanedBySuccessor
<1>2. ASSUME UNCHANGED <<child, life>> PROVE OrphanedBySuccessor
  BY <1>1, <1>2 DEF Orphans
<1>3. ASSUME child' = 0, life' = Killed PROVE OrphanedBySuccessor
  BY <1>1, <1>3, NoneLeft, KilledOnly
<1>4. ASSUME Spawn, Alive => sid = "none" PROVE OrphanedBySuccessor
  BY <1>4, SpawnLeaves DEF OrphanedBySuccessor
<1>5. CASE Dispatch
  <2>1. CASE Ready BY <1>2, <1>5, <2>1 DEF Dispatch
  <2>2. CASE ~Ready BY <1>2, <1>4, <1>5, <2>2 DEF Dispatch, Ready, procs
  <2> QED BY <2>1, <2>2
<1>6. CASE SteerEnsure BY <1>2, <1>4, <1>6 DEF SteerEnsure, Ready, procs
<1>7. CASE ResumeTurn BY <1>2, <1>4, <1>7 DEF ResumeTurn
<1>8. CASE Retry BY <1>4, <1>8 DEF Retry, WorkInv, Stalled, Alive
<1>9. CASE StartupFailed BY <1>2, <1>3, <1>9 DEF StartupFailed, procs
<1>10. CASE Watchdog \/ ResumeStall \/ Teardown
  BY <1>3, <1>10 DEF Watchdog, ResumeStall, Teardown, Close, DropChild
<1>11. CASE Steer \/ Startup \/ ResumeSteer \/ TurnOver \/ GraceOver \/ (\E i \in Id : RequestTimeout(i))
  BY <1>2, <1>11 DEF Steer, Startup, Handshake, AuthRefused, Loaded, LoadFails, NewSession, NewFails,
     ResumeSteer, TurnOver, GraceOver, RequestTimeout, procs
<1>12. ASSUME NEW p \in Proc,
           \/ \E t \in Tool : ToolStart(p, t) \/ ToolEnd(p, t)
           \/ Text(p) \/ LateLoad(p) \/ \E r \in {"clean", "error"} : Answer(p, r)
       PROVE OrphanedBySuccessor
  BY <1>2, <1>12 DEF ToolStart, ToolEnd, Text, LateLoad, Answer, session, procs
<1>13. ASSUME NEW p \in Proc, Crash(p) PROVE OrphanedBySuccessor
  BY <1>1, <1>13, NoneLeft DEF Crash, session, TypeOK
<1>14. ASSUME NEW p \in Proc, ExitEvent(p) PROVE OrphanedBySuccessor
  <2>1. life[p] = "dead" /\ life' = [life EXCEPT ![p] = "gone"] BY <1>14 DEF ExitEvent
  <2>2. life'[p] = "gone" /\ \A q \in Proc : q # p => life'[q] = life[q] BY <2>1 DEF TypeOK
  <2>3. \A q \in Orphans' : q # p BY <2>2 DEF Orphans
  <2> QED BY <2>1, <2>2, <2>3 DEF OrphanedBySuccessor
<1>15. CASE UNCHANGED vars BY <1>2, <1>15 DEF vars, session, procs
<1> QED
  BY <1>5, <1>6, <1>7, <1>8, <1>9, <1>10, <1>11, <1>12, <1>13, <1>14, <1>15 DEF Next, Continuation

LEMMA IdleStep == WorkInv => EndsIdle
BY DEF WorkInv, WorkIsTracked, EndsIdle

\* No step loses what the session answers for: a tool shown as running, a
\* process, or a prompt of a turn that ends clean.
THEOREM LosesNothing == Spec => StepsLoseNothing
<1>1. [Next]_vars => [ForgetsByReload]_vars BY ForgetStep
<1>2. TypeOK /\ GuardInv /\ WorkInv /\ [Next]_vars => [OrphanedBySuccessor]_vars BY OrphanStep
<1>3. TypeOK /\ GuardInv /\ WorkInv /\ [Next]_vars => [EndsIdle]_vars BY IdleStep
<1> QED
  BY <1>1, <1>2, <1>3, WorkAlways, PTL
     DEF Spec, StepsLoseNothing, OnlyReloadForgetsTools, OrphansComeFrom, CleanEndIsIdle


-----------------------------------------------------------------------------
(* The host of the session. *)

OpenPc == {"starting", "running", "grace", "server"}

\* The object a coroutine awaits: the one the host holds or, until the
\* coroutine has taken up the error, the one just closed.
Held == IF Rest THEN ahSess ELSE ahKilled

\* A turn that was not dispatched has not been anywhere.
Fresh == \A t \in AhTurn : t > ahTurns => ahPc[t] = "no"

AwaitsHeld ==
    /\ \A t \in AhTurn : /\ ahPc[t] = "starting" => Held = "starting"
                         /\ ahPc[t] = "running" => Held = "ready"
    /\ ahSteer = "waiting" => Held = "ready"

\* An open turn is the last one, the loop waits for it, and the flag of the
\* way it runs on is up.
Marked(t) ==
    /\ t = ahTurns /\ ahLoop = "waits"
    /\ ahPc[t] = "server" => ahServing = "yes"
    /\ ahPc[t] # "server" => ahBusy = "yes"

Covered ==
    /\ \A t \in AhTurn : ahPc[t] \in OpenPc => Marked(t)
    /\ (\A t \in AhTurn : ahPc[t] \notin OpenPc) => ahExit = ahTurns

HostInv == AhTypeOK /\ Fresh /\ AwaitsHeld /\ (ahGivenUp = {} => Covered)

LEMMA OpenIs ==
    ASSUME AhTypeOK
    PROVE  AhOpen = {t \in AhTurn : ahPc[t] \in OpenPc}
  BY DEF AhTypeOK, AhOpen, OpenPc

LEMMA HostInvHolds == HostInv => HostHolds
<1> SUFFICES ASSUME HostInv PROVE BusyCovers /\ AwaitsTheHeld
  BY DEF HostInv, HostHolds
<1>1. AwaitsTheHeld
  BY DEF HostInv, AwaitsHeld, Held, AwaitsTheHeld
<1>2. ASSUME Rest, ahGivenUp = {}
      PROVE  /\ AhOpen # {} => Busy
             /\ \A t, u \in AhOpen : t = u
             /\ ahLoop = "idle" => ahExit = ahTurns
  <2>1. Covered /\ AhOpen = {t \in AhTurn : ahPc[t] \in OpenPc}
    BY <1>2, OpenIs DEF HostInv
  <2> QED BY <2>1 DEF Covered, Marked, Busy
<1> QED BY <1>1, <1>2 DEF BusyCovers

LEMMA HostInit == AhInit => HostInv
<1> SUFFICES ASSUME AhInit PROVE HostInv
  OBVIOUS
<1> USE AhBounds DEF AhInit, AhTurn
<1>1. AhTypeOK
  BY DEF AhTypeOK
<1>2. Fresh /\ AwaitsHeld /\ Covered
  BY DEF Fresh, AwaitsHeld, Held, Covered, OpenPc
<1> QED BY <1>1, <1>2 DEF HostInv

\* Turns that end: an open turn of the new state was open before, on the
\* same way, and its marks are still there.
LEMMA MoveIs ==
    ASSUME AhTypeOK, NEW ts \in SUBSET AhTurn,
           NEW pc \in {"no", "starting", "running", "grace", "server", "done"}, Move(ts, pc)
    PROVE  /\ ahPc' \in [AhTurn -> {"no", "starting", "running", "grace", "server", "done"}]
           /\ \A t \in AhTurn : ahPc'[t] = IF t \in ts THEN pc ELSE ahPc[t]
  BY DEF AhTypeOK, Move

LEMMA GoesIs ==
    ASSUME AhTypeOK, NEW t \in AhTurn,
           NEW pc \in {"no", "starting", "running", "grace", "server", "done"}, Goes(t, pc)
    PROVE  /\ ahPc' \in [AhTurn -> {"no", "starting", "running", "grace", "server", "done"}]
           /\ ahPc'[t] = pc
           /\ \A u \in AhTurn : u # t => ahPc'[u] = ahPc[u]
  BY DEF AhTypeOK, Goes

\* The turns that waited for a start have been somewhere.
LEMMA StartIsOverKeeps ==
    ASSUME HostInv, Held = "starting" \/ Waiters # {}, NEW left \in {"none", "off"},
           StartIsOver(left), UNCHANGED <<ahRunner, ahGivenUp>>,
           ahKilled' = "no", ahSteer' = "no", ahKnown' \in {"yes", "no"},
           ahFaults' \in 0..AhMaxFaults
    PROVE  HostInv'
<1>0. Running = {}
  BY DEF HostInv, AwaitsHeld, Waiters, Starting, Running
<1>1. CASE Waiters # {} /\ ahKnown = "no"
  <2>1. /\ Move(Waiters, "server")
        /\ ahSess' = "none" /\ ahBusy' = "no" /\ ahServing' = "yes" /\ ahExit' = 0
    BY <1>1 DEF StartIsOver, FallsBack
  <2>2. /\ ahPc' \in [AhTurn -> {"no", "starting", "running", "grace", "server", "done"}]
        /\ \A t \in AhTurn : ahPc'[t] = IF Starting(t) THEN "server" ELSE ahPc[t]
    BY <2>1, MoveIs DEF HostInv, Waiters
  <2>3. AhTypeOK'
    BY <2>1, <2>2, AhBounds DEF HostInv, AhTypeOK, ahRunner, AhTurn
  <2>4. Fresh'
    BY <2>2 DEF HostInv, Fresh, Starting, ahRunner
  <2>5. AwaitsHeld'
    BY <1>0, <2>2 DEF HostInv, AwaitsHeld, Starting, Running
  <2>6. ASSUME ahGivenUp' = {} PROVE Covered'
    <3>1. Covered
      BY <2>6 DEF HostInv
    <3>2. PICK w \in AhTurn : Starting(w)
      BY <1>1 DEF Waiters
    <3>3. \A t \in AhTurn : ahPc[t] \in OpenPc => t = w
      BY <3>1, <3>2 DEF Covered, Marked, OpenPc, Starting
    <3> QED BY <2>1, <2>2, <3>1, <3>2, <3>3 DEF Covered, Marked, OpenPc, Starting, ahRunner
  <2> QED BY <2>3, <2>4, <2>5, <2>6 DEF HostInv
<1>2. CASE ~(Waiters # {} /\ ahKnown = "no")
  <2>1. /\ ahSess' = left /\ ahServing' = ahServing
        /\ Move(Waiters, "done")
        /\ Waiters # {} => ahExit' \in Waiters /\ ahBusy' = "no"
        /\ Waiters = {} => ahExit' = ahExit /\ ahBusy' = ahBusy
    BY <1>2 DEF StartIsOver
  <2>2. /\ ahPc' \in [AhTurn -> {"no", "starting", "running", "grace", "server", "done"}]
        /\ \A t \in AhTurn : ahPc'[t] = IF Starting(t) THEN "done" ELSE ahPc[t]
    BY <2>1, MoveIs DEF HostInv, Waiters
  <2>3. AhTypeOK'
    BY <2>1, <2>2, AhBounds DEF HostInv, AhTypeOK, ahRunner, AhTurn, Waiters
  <2>4. Fresh'
    BY <2>2 DEF HostInv, Fresh, Starting, ahRunner
  <2>5. AwaitsHeld'
    BY <1>0, <2>2 DEF HostInv, AwaitsHeld, Starting, Running
  <2>6. ASSUME ahGivenUp' = {} PROVE Covered'
    <3>1. Covered
      BY <2>6 DEF HostInv
    <3>2. CASE Waiters = {}
      BY <2>1, <2>2, <3>1, <3>2 DEF Covered, Marked, OpenPc, Starting, Waiters, ahRunner
    <3>3. CASE Waiters # {}
      <4>1. \A t \in AhTurn : ahPc[t] \in OpenPc => t = ahTurns
        BY <3>1 DEF Covered, Marked
      <4>2. ahTurns \in AhTurn /\ Starting(ahTurns) /\ ahExit' = ahTurns
        BY <2>1, <3>3, <4>1 DEF Waiters, Starting, OpenPc
      <4>3. \A t \in AhTurn : ahPc'[t] \notin OpenPc
        BY <2>2, <4>1, <4>2 DEF Starting, OpenPc
      <4> QED BY <4>2, <4>3 DEF Covered, ahRunner
    <3> QED BY <3>2, <3>3
  <2> QED BY <2>3, <2>4, <2>5, <2>6 DEF HostInv
<1> QED BY <1>1, <1>2

\* Every prompt of a process that is gone comes to its end.
LEMMA RunningOverKeeps ==
    ASSUME HostInv, Waiters = {}, RunningOver, ahSess' \in {"none", "off", "starting", "ready"},
           UNCHANGED <<ahServing, ahRunner, ahGivenUp>>,
           ahKilled' = "no", ahSteer' = "no", ahKnown' \in {"yes", "no"},
           ahFaults' \in 0..AhMaxFaults
    PROVE  HostInv'
<1>1. CASE Running # {}
  <2>1. /\ ahPc' = [t \in AhTurn |-> IF t \in Running THEN "done" ELSE ahPc[t]]
        /\ ahExit' \in Running /\ ahBusy' = "no"
    BY <1>1 DEF RunningOver
  <2>2. /\ ahPc' \in [AhTurn -> {"no", "starting", "running", "grace", "server", "done"}]
        /\ \A t \in AhTurn : ahPc'[t] = IF ahPc[t] = "running" THEN "done" ELSE ahPc[t]
    BY <2>1 DEF HostInv, AhTypeOK, Running
  <2>3. AhTypeOK'
    BY <2>1, <2>2, AhBounds DEF HostInv, AhTypeOK, ahRunner, AhTurn, Running
  <2>4. Fresh'
    BY <2>2 DEF HostInv, Fresh, ahRunner
  <2>5. AwaitsHeld'
    BY <2>2 DEF HostInv, AwaitsHeld, Waiters, Starting
  <2>6. ASSUME ahGivenUp' = {} PROVE Covered'
    <3>1. Covered
      BY <2>6 DEF HostInv
    <3>2. \A t \in AhTurn : ahPc[t] \in OpenPc => t = ahTurns
      BY <3>1 DEF Covered, Marked
    <3>3. ahTurns \in AhTurn /\ ahPc[ahTurns] = "running" /\ ahExit' = ahTurns
      BY <2>1, <3>2 DEF Running, OpenPc
    <3>4. \A t \in AhTurn : ahPc'[t] \notin OpenPc
      BY <2>2, <3>2, <3>3 DEF OpenPc
    <3> QED BY <3>3, <3>4 DEF Covered, ahRunner
  <2> QED BY <2>3, <2>4, <2>5, <2>6 DEF HostInv
<1>2. CASE Running = {}
  <2>1. UNCHANGED <<ahPc, ahExit, ahBusy>>
    BY <1>2 DEF RunningOver
  <2>2. AhTypeOK'
    BY <2>1 DEF HostInv, AhTypeOK, ahRunner
  <2>3. Fresh' /\ AwaitsHeld'
    BY <1>2, <2>1 DEF HostInv, Fresh, AwaitsHeld, Waiters, Running, Starting, ahRunner
  <2>4. (ahGivenUp = {} => Covered)'
    BY <2>1 DEF HostInv, Covered, Marked, ahRunner
  <2> QED BY <2>2, <2>3, <2>4 DEF HostInv
<1> QED BY <1>1, <1>2

\* One turn comes to its end by itself.
LEMMA OverKeeps ==
    ASSUME HostInv, Rest, NEW t \in AhTurn, ahPc[t] \in OpenPc,
           Goes(t, "done"), ahExit' = t,
           \/ ahBusy' = "no" /\ UNCHANGED ahServing
           \/ ahServing' = "no" /\ UNCHANGED ahBusy,
           UNCHANGED <<ahAgent, ahSteer, ahKilled, ahRunner, ahGivenUp, ahFaults>>
    PROVE  HostInv'
<1>1. /\ ahPc' \in [AhTurn -> {"no", "starting", "running", "grace", "server", "done"}]
      /\ ahPc'[t] = "done" /\ \A u \in AhTurn : u # t => ahPc'[u] = ahPc[u]
  BY GoesIs DEF HostInv
<1>2. AhTypeOK'
  BY <1>1, AhBounds DEF HostInv, AhTypeOK, ahAgent, ahRunner, AhTurn
<1>3. Fresh'
  BY <1>1 DEF HostInv, Fresh, OpenPc, ahRunner
<1>4. AwaitsHeld'
  BY <1>1 DEF HostInv, AwaitsHeld, Held, Rest, ahAgent
<1>5. ASSUME ahGivenUp' = {} PROVE Covered'
  <2>1. Covered
    BY <1>5 DEF HostInv
  <2>2. \A u \in AhTurn : ahPc[u] \in OpenPc => u = t
    BY <2>1 DEF Covered, Marked
  <2>3. t = ahTurns
    BY <2>1 DEF Covered, Marked
  <2>4. \A u \in AhTurn : ahPc'[u] \notin OpenPc
    BY <1>1, <2>2 DEF OpenPc
  <2> QED BY <2>3, <2>4 DEF Covered, ahRunner
<1> QED BY <1>2, <1>3, <1>4, <1>5 DEF HostInv

LEMMA FaultType == ASSUME AhTypeOK, AhFault PROVE ahFaults' \in 0..AhMaxFaults
  BY AhBounds DEF AhTypeOK, AhFault

LEMMA DispatchKeeps == ASSUME HostInv, AhDispatch PROVE HostInv'
<1> DEFINE n == ahTurns + 1
<1>1. /\ n \in AhTurn /\ n \in 1..AhMaxTurn /\ ahPc[n] = "no"
  BY AhBounds DEF HostInv, AhTypeOK, Fresh, AhDispatch, AhTurn
<1>2. /\ Rest /\ ahLoop = "idle" /\ ahTurns' = n /\ ahLoop' = "waits" /\ ahFirst' = "no"
      /\ UNCHANGED <<ahKnown, ahServing, ahSteer, ahKilled, ahGivenUp>>
  BY DEF AhDispatch
<1> HIDE DEF n
<1>3. ahGivenUp' = {} => \A t \in AhTurn : ahPc[t] \notin OpenPc
  BY <1>2 DEF HostInv, Covered, Marked
<1>4. ahGivenUp' \subseteq 1..n
  BY <1>1 DEF HostInv, AhTypeOK, n, AhDispatch
<1>5. \A t \in AhTurn : t > n => t > ahTurns
  BY <1>1 DEF HostInv, AhTypeOK, n, AhTurn
<1>6. CASE /\ ahBusy' = "yes" /\ ahExit' = 0 /\ UNCHANGED ahFaults
           /\ ahSess' = IF ahSess = "ready" THEN "ready" ELSE "starting"
           /\ Goes(n, IF ahSess = "ready" THEN "running" ELSE "starting")
  <2> DEFINE pc == IF ahSess = "ready" THEN "running" ELSE "starting"
  <2>0. pc \in {"no", "starting", "running", "grace", "server", "done"}
    OBVIOUS
  <2>1. /\ ahPc' \in [AhTurn -> {"no", "starting", "running", "grace", "server", "done"}]
        /\ ahPc'[n] = pc /\ \A u \in AhTurn : u # n => ahPc'[u] = ahPc[u]
    <3>1. Goes(n, pc)
      BY <1>6
    <3> QED BY ONLY <1>1, <2>0, <3>1, HostInv, GoesIs DEF HostInv
  <2>2. AhTypeOK'
    BY <1>1, <1>2, <1>4, <1>6, <2>1, AhBounds DEF HostInv, AhTypeOK
  <2>3. Fresh'
    BY <1>2, <1>5, <2>1 DEF HostInv, Fresh, AhTypeOK, AhTurn
  <2>4. AwaitsHeld'
    BY <1>1, <1>2, <1>6, <2>1 DEF HostInv, AwaitsHeld, Held, Rest, AhTypeOK
  <2>5. (ahGivenUp = {} => Covered)'
    BY <1>1, <1>2, <1>3, <1>6, <2>1 DEF Covered, Marked, OpenPc
  <2> QED BY <2>2, <2>3, <2>4, <2>5 DEF HostInv
<1>7. CASE AhFault /\ Goes(n, "done") /\ ahExit' = n /\ UNCHANGED <<ahBusy, ahSess>>
  <2>1. /\ ahPc' \in [AhTurn -> {"no", "starting", "running", "grace", "server", "done"}]
        /\ ahPc'[n] = "done" /\ \A u \in AhTurn : u # n => ahPc'[u] = ahPc[u]
    BY <1>1, <1>7, GoesIs DEF HostInv
  <2>2. AhTypeOK'
    BY <1>1, <1>2, <1>4, <1>7, <2>1, FaultType, AhBounds DEF HostInv, AhTypeOK
  <2>3. Fresh'
    BY <1>2, <1>5, <2>1 DEF HostInv, Fresh, AhTypeOK, AhTurn
  <2>4. AwaitsHeld'
    BY <1>1, <1>2, <1>7, <2>1 DEF HostInv, AwaitsHeld, Held, Rest
  <2>5. (ahGivenUp = {} => Covered)'
    BY <1>1, <1>2, <1>3, <1>7, <2>1 DEF Covered, Marked, OpenPc
  <2> QED BY <2>2, <2>3, <2>4, <2>5 DEF HostInv
<1> QED BY <1>6, <1>7 DEF AhDispatch, n

LEMMA StartedKeeps == ASSUME HostInv, AhStarted PROVE HostInv'
<1>1. /\ ahPc' \in [AhTurn -> {"no", "starting", "running", "grace", "server", "done"}]
      /\ \A t \in AhTurn : ahPc'[t] = IF Starting(t) THEN "running" ELSE ahPc[t]
  BY DEF AhStarted, HostInv, AhTypeOK
<1>2. AhTypeOK'
  BY <1>1 DEF AhStarted, HostInv, AhTypeOK, ahFlags, ahRunner
<1>3. Fresh' /\ AwaitsHeld'
  BY <1>1 DEF AhStarted, HostInv, Fresh, AwaitsHeld, Held, Rest, Starting, ahRunner
<1>4. (ahGivenUp = {} => Covered)'
  BY <1>1 DEF AhStarted, HostInv, Covered, Marked, OpenPc, Starting, ahFlags, ahRunner
<1> QED BY <1>2, <1>3, <1>4 DEF HostInv

\* Steps that leave every turn where it is.
LEMMA QuietKeeps ==
    ASSUME HostInv, UNCHANGED <<ahPc, ahExit, ahTurns, ahGivenUp>>, AhTypeOK',
           AwaitsHeld', ahGivenUp = {} => \A t \in AhTurn : ahPc[t] \in OpenPc => Marked(t)'
    PROVE  HostInv'
<1>1. Fresh'
  BY DEF HostInv, Fresh
<1>2. (ahGivenUp = {} => Covered)'
  BY DEF HostInv, Covered
<1> QED BY <1>1, <1>2 DEF HostInv

LEMMA HostStep == HostInv /\ [AhNext]_ahVars => HostInv'
<1> SUFFICES ASSUME HostInv, [AhNext]_ahVars PROVE HostInv'
  OBVIOUS
<1>0. AhTypeOK /\ Fresh /\ AwaitsHeld
  BY DEF HostInv
<1>a. Rest /\ ahSess = "ready" => Waiters = {}
  BY <1>0 DEF AwaitsHeld, Held, Waiters, Starting
<1>b. ahGivenUp = {} => \A t \in AhTurn : ahPc[t] \in OpenPc => Marked(t)
  BY DEF HostInv, Covered
<1>1. CASE AhDispatch
  BY <1>1, DispatchKeeps
<1>2. CASE AhStarted
  BY <1>2, StartedKeeps
<1>3. CASE AhStartFails
  <2>1. /\ Held = "starting" /\ StartIsOver("off") /\ ahSteer' = "no" /\ ahKilled' = "no"
        /\ UNCHANGED <<ahRunner, ahGivenUp>> /\ ahKnown' \in {"yes", "no"}
        /\ ahFaults' \in 0..AhMaxFaults
    BY <1>0, <1>3, FaultType DEF AhStartFails, AhTypeOK, Held, Rest
  <2> QED BY <2>1, StartIsOverKeeps
<1>4. CASE AhDies
  <2>1. /\ Waiters = {} /\ RunningOver /\ ahSess' = "off" /\ ahSteer' = "no" /\ ahKilled' = "no"
        /\ UNCHANGED <<ahServing, ahRunner, ahGivenUp>> /\ ahKnown' \in {"yes", "no"}
        /\ ahFaults' \in 0..AhMaxFaults
    BY <1>0, <1>a, <1>4, FaultType DEF AhDies, AhTypeOK, Rest
  <2> QED BY <2>1, RunningOverKeeps
<1>5. CASE AhSteers
  <2>1. AhTypeOK'
    BY <1>0, <1>5, FaultType DEF AhSteers, AhTypeOK, ahFlags, ahRunner
  <2>2. AwaitsHeld'
    BY <1>0, <1>5 DEF AhSteers, AhTypeOK, AwaitsHeld, Held, Rest
  <2> QED BY <1>b, <1>5, <2>1, <2>2, QuietKeeps DEF AhSteers, Marked, ahFlags, ahRunner
<1>6. CASE AhSteered
  <2>1. AhTypeOK' /\ AwaitsHeld'
    BY <1>0, <1>6 DEF AhSteered, AhTypeOK, AwaitsHeld, Held, Rest, ahAgent, ahFlags, ahRunner
  <2> QED BY <1>b, <1>6, <2>1, QuietKeeps DEF AhSteered, Marked, ahFlags, ahRunner
<1>7. CASE AhLoopStarts
  <2>1. AhTypeOK' /\ AwaitsHeld'
    BY <1>0, <1>7 DEF AhLoopStarts, AhTypeOK, AwaitsHeld, Held, Rest, ahAgent, ahCalls, ahFlags
  <2> QED BY <1>b, <1>7, <2>1, QuietKeeps DEF AhLoopStarts, Marked, ahCalls, ahFlags
<1>8. CASE AhTurnSeen
  <2>1. AhTypeOK' /\ AwaitsHeld'
    BY <1>0, <1>8 DEF AhTurnSeen, AhTypeOK, AwaitsHeld, Held, Rest, ahAgent, ahCalls, ahFlags
  <2>2. ahGivenUp = {} => \A t \in AhTurn : ahPc[t] \notin OpenPc
    BY <1>b, <1>8 DEF AhTurnSeen, Marked, Busy, OpenPc
  <2> QED BY <1>8, <2>1, <2>2, QuietKeeps DEF AhTurnSeen, ahCalls
<1>9. CASE AhForceIdle
  <2>1. /\ ~Rest' /\ ahKilled' = ahSess /\ Rest
        /\ UNCHANGED <<ahPc, ahTurns, ahSteer, ahExit>>
    BY <1>0, <1>9 DEF AhForceIdle, Closed, Rest, AhTypeOK
  <2>2. \A t \in AhTurn : ahPc[t] \notin {"no", "done"} => t \in 1..ahTurns
    BY <1>0, AhBounds DEF Fresh, AhTurn, AhTypeOK
  <2>3. AhTypeOK'
    <3>1. ahGivenUp' \subseteq 1..ahTurns'
      BY <1>0, <1>9, <2>1, <2>2 DEF AhForceIdle, AhTypeOK
    <3> QED BY <1>0, <1>9, <2>1, <3>1, FaultType DEF AhForceIdle, Closed, AhTypeOK
  <2>4. AwaitsHeld' /\ Fresh'
    BY <1>0, <2>1 DEF AwaitsHeld, Held, Rest, Fresh
  <2>5. ASSUME ahGivenUp' = {} PROVE Covered'
    <3>1. ahGivenUp = {} /\ \A t \in AhTurn : ahPc[t] \notin OpenPc
      BY <1>9, <2>5 DEF AhForceIdle, OpenPc
    <3> QED BY <2>1, <3>1 DEF HostInv, Covered
  <2> QED BY <2>3, <2>4, <2>5 DEF HostInv
<1>10. CASE AhEvict
  <2>1. /\ ~Rest' /\ ahKilled' = ahSess /\ Rest
        /\ UNCHANGED <<ahPc, ahTurns, ahSteer, ahExit, ahGivenUp>>
    BY <1>0, <1>10 DEF AhEvict, Closed, Rest, AhTypeOK, ahRunner
  <2>2. AhTypeOK'
    BY <1>0, <1>10, FaultType DEF AhEvict, Closed, AhTypeOK, ahRunner
  <2>3. AwaitsHeld'
    BY <1>0, <2>1 DEF AwaitsHeld, Held, Rest
  <2>4. ahGivenUp = {} => \A t \in AhTurn : ahPc[t] \notin OpenPc
    BY <1>b, <1>10 DEF AhEvict, Marked
  <2> QED BY <2>1, <2>2, <2>3, <2>4, QuietKeeps
<1>11. CASE AhResumes
  <2>1. /\ ahKilled' = "no" /\ ahSteer' = "no" /\ ahKnown' = "no"
        /\ UNCHANGED <<ahRunner, ahGivenUp>> /\ ahFaults' \in 0..AhMaxFaults
    BY <1>0, <1>11 DEF AhResumes, AhTypeOK
  <2>2. CASE Waiters # {}
    BY <1>11, <2>1, <2>2, StartIsOverKeeps DEF AhResumes
  <2>3. CASE Waiters = {}
    <3>1. RunningOver /\ UNCHANGED <<ahSess, ahServing>>
      BY <1>11, <2>3 DEF AhResumes
    <3> QED BY <1>0, <2>1, <2>3, <3>1, RunningOverKeeps DEF AhTypeOK
  <2> QED BY <2>2, <2>3
<1>12. ASSUME NEW t \in AhTurn, AhTurnEnds(t) PROVE HostInv'
  <2>1. /\ Rest /\ ahPc[t] = "running" /\ ahSess = "ready"
        /\ UNCHANGED <<ahKnown, ahKilled, ahServing, ahRunner, ahGivenUp>>
    BY <1>12 DEF AhTurnEnds
  <2>2. CASE Over(t) /\ UNCHANGED <<ahSess, ahSteer, ahFaults>>
    BY <2>1, <2>2, OverKeeps DEF Over, OpenPc, ahAgent
  <2>3. CASE Goes(t, "grace") /\ UNCHANGED <<ahSess, ahSteer, ahExit, ahBusy, ahFaults>>
    <3>1. /\ ahPc' \in [AhTurn -> {"no", "starting", "running", "grace", "server", "done"}]
          /\ ahPc'[t] = "grace" /\ \A u \in AhTurn : u # t => ahPc'[u] = ahPc[u]
      BY <1>0, <2>3, GoesIs
    <3>2. AhTypeOK'
      BY <1>0, <2>1, <2>3, <3>1 DEF AhTypeOK, ahRunner
    <3>3. Fresh' /\ AwaitsHeld'
      BY <1>0, <2>1, <2>3, <3>1 DEF Fresh, AwaitsHeld, Held, Rest, ahRunner
    <3>4. (ahGivenUp = {} => Covered)'
      BY <2>1, <2>3, <3>1 DEF HostInv, Covered, Marked, OpenPc, ahRunner
    <3> QED BY <3>2, <3>3, <3>4 DEF HostInv
  <2>4. CASE AhFault /\ RunningOver /\ ahSess' = "off" /\ ahSteer' = "no"
    <3>1. /\ Waiters = {} /\ ahKilled' = "no" /\ ahKnown' \in {"yes", "no"}
          /\ ahFaults' \in 0..AhMaxFaults
      BY <1>0, <1>a, <2>1, <2>4, FaultType DEF AhTypeOK, Rest
    <3> QED BY <2>1, <2>4, <3>1, RunningOverKeeps
  <2> QED BY <1>12, <2>2, <2>3, <2>4 DEF AhTurnEnds
<1>13. ASSUME NEW t \in AhTurn, AhGraceEnds(t) PROVE HostInv'
  BY <1>13, OverKeeps DEF AhGraceEnds, Over, OpenPc
<1>14. ASSUME NEW t \in AhTurn, AhServed(t) PROVE HostInv'
  BY <1>14, OverKeeps DEF AhServed, OpenPc
<1>15. CASE UNCHANGED ahVars
  <2>1. AhTypeOK' /\ AwaitsHeld'
    BY <1>0, <1>15 DEF AhTypeOK, AwaitsHeld, Held, Rest, ahVars, ahAgent, ahCalls, ahFlags, ahRunner
  <2> QED BY <1>b, <1>15, <2>1, QuietKeeps DEF Marked, ahVars, ahCalls, ahFlags, ahRunner
<1> QED BY <1>1, <1>2, <1>3, <1>4, <1>5, <1>6, <1>7, <1>8, <1>9, <1>10, <1>11,
           <1>12, <1>13, <1>14, <1>15 DEF AhNext

(* What the host knows of its turns is true: while it gave none up, a turn *)
(* that is not over is busy to the loop, two never run at once, and the    *)
(* exit file is the last turn's; and no coroutine awaits a session the     *)
(* host no longer holds (opencode/acp.ts, sendOpencodeAcpPrompt).          *)
THEOREM HostCorrect == AhSpec => []HostHolds
<1>1. AhInit => HostInv
  BY HostInit
<1>2. HostInv /\ [AhNext]_ahVars => HostInv'
  BY HostStep
<1>3. HostInv => HostHolds
  BY HostInvHolds
<1> QED BY <1>1, <1>2, <1>3, PTL DEF AhSpec

-----------------------------------------------------------------------------
(* The server of opencode: turns, the busy mark, and what a server owes.     *)

Excused(v) == v \in ocPast.forced \/ \E u \in ocPast.forced : u < v /\ ~OcRunning(u)

Prefix ==
    /\ \A u, w \in OcTurn : u < w /\ ocTurn[w].pc # "new" => ocTurn[u].pc # "new"
    /\ \A u \in ocPast.forced : ocTurn[u].pc # "new"

Alone == \A v, w \in OcTurn : v < w /\ ocTurn[w].pc # "new" /\ OcRunning(v) => Excused(v)

Boots ==
    /\ ocRoot.server # 0 => ocServer[ocRoot.server] # "no"
    /\ \A t \in OcTurn : ocTurn[t].pc = "boot" /\ ocRoot.server # 0 =>
           \E u \in ocPast.forced : u < t \/ u < ocRoot.server

Channelled ==
    (ocRoot.server # 0 \/ \E t \in OcTurn : ocTurn[t].pc = "boot") /\ ~ocRoot.channel
        => ocPast.forced # {}

Works ==
    \A s \in OcTurn :
        /\ ocServer[s] \in {"working", "asks"} => ocOwed[s] # {}
        /\ Extra \in ocOwed[s] => ocRoot.extras > 0

Unanswered(u, s) ==
    /\ ocTurn[u].server = s /\ u \notin ocPast.answered
    /\ ocTurn[u].pc \in {"waits", "ended"}
    /\ ocTurn[u].pc = "ended" => u \in ocPast.short

OwedTurns == \A s, u \in OcTurn : u \in ocOwed[s] => Unanswered(u, s)

News ==
    \A t \in OcTurn :
        /\ ocTurn[t].pc \notin {"sent", "waits"} => ocTurn[t].news = <<>>
        /\ ocTurn[t].pc \in {"have", "sent", "waits"} => ocTurn[t].server # 0
        /\ t \in ocPast.short \cup ocPast.early => ocTurn[t].pc = "ended"
        /\ t \in ocPast.answered => ocTurn[t].pc \in {"waits", "ended"}

Quiet == ocRoot.extras = 0 /\ ocPast.forced = {}

OcHeard ==
    Quiet => \A t \in OcTurn :
        /\ ocTurn[t].news # <<>> /\ t \notin ocPast.answered
        /\ Head(ocTurn[t].news) = "idle"
        => \E u \in ocPast.short : u < t /\ ocTurn[u].server = ocTurn[t].server

Failed ==
    Quiet => \A s \in OcTurn : ocServer[s] = "erred" =>
        \E u \in OcTurn : /\ Unanswered(u, s) /\ u \notin ocOwed[s]
                          /\ ocTurn[u].pc = "waits" => ocTurn[u].news # <<>>

OcRecs == [pc : {"new", "boot", "have", "sent", "waits", "ended"}, server : OcTurn \cup {0},
           news : Seq({"idle", "error", "disposed"}), exit : {"none", "0", "1"}]

LEMMA OcTurnsAre == OcTypeOK => ocTurn \in [OcTurn -> OcRecs]
  BY DEF OcTypeOK, OcRecs

LEMMA ZeroIsNone == 0 \notin OcTurn /\ OcTurn \subseteq Int
  BY DEF OcTurn

\* What a listener has heard first stays first.
LEMMA NewsGrow ==
    ASSUME NEW n \in Seq({"idle", "error", "disposed"}), NEW e \in {"idle", "error", "disposed"}
    PROVE  /\ Append(n, e) \in Seq({"idle", "error", "disposed"}) /\ Append(n, e) # <<>>
           /\ n = <<>> => Head(Append(n, e)) = e
           /\ n # <<>> => Head(Append(n, e)) = Head(n)
<1> DEFINE W == {"idle", "error", "disposed"}
<1>0. n \in Seq(W) /\ e \in W
  OBVIOUS
<1> HIDE DEF W
<1>1. Append(n, e) \in Seq(W) /\ Append(n, e) # <<>> /\ Head(Append(n, e)) = Append(n, e)[1]
  BY <1>0, AppendProperties
<1>2. n = <<>> => Head(Append(n, e)) = e
  BY <1>0, <1>1
<1>3. n # <<>> => Head(Append(n, e)) = Head(n)
  <2>1. n # <<>> => Len(n) \in Nat \ {0}
    BY <1>0, EmptySeq
  <2> QED BY <1>0, <1>1, <2>1
<1> QED BY <1>1, <1>2, <1>3 DEF W

LEMMA HearIs ==
    ASSUME OcTypeOK, NEW s \in OcTurn, NEW e \in {"idle", "error", "disposed"}
    PROVE  /\ Hear(ocTurn, s, e) \in [OcTurn -> OcRecs]
           /\ \A t \in OcTurn :
                /\ Hear(ocTurn, s, e)[t].pc = ocTurn[t].pc
                /\ Hear(ocTurn, s, e)[t].server = ocTurn[t].server
                /\ \/ /\ ocTurn[t].pc \in {"sent", "waits"} /\ ocTurn[t].server = s
                      /\ Hear(ocTurn, s, e)[t].news = Append(ocTurn[t].news, e)
                   \/ /\ ~(ocTurn[t].pc \in {"sent", "waits"} /\ ocTurn[t].server = s)
                      /\ Hear(ocTurn, s, e)[t] = ocTurn[t]
<1> DEFINE H == Hear(ocTurn, s, e)
<1>0. ocTurn \in [OcTurn -> OcRecs]
  BY OcTurnsAre
<1>1. ASSUME NEW t \in OcTurn
      PROVE  /\ H[t] \in OcRecs /\ H[t].pc = ocTurn[t].pc /\ H[t].server = ocTurn[t].server
             /\ \/ /\ ocTurn[t].pc \in {"sent", "waits"} /\ ocTurn[t].server = s
                   /\ H[t].news = Append(ocTurn[t].news, e)
                \/ /\ ~(ocTurn[t].pc \in {"sent", "waits"} /\ ocTurn[t].server = s)
                   /\ H[t] = ocTurn[t]
  <2>1. ocTurn[t] \in OcRecs
    BY <1>0
  <2>2. CASE ocTurn[t].pc \in {"sent", "waits"} /\ ocTurn[t].server = s
    <3>1. H[t] = [ocTurn[t] EXCEPT !.news = Append(ocTurn[t].news, e)]
      BY <2>1, <2>2 DEF Hear
    <3>2. Append(ocTurn[t].news, e) \in Seq({"idle", "error", "disposed"})
      BY <2>1, NewsGrow DEF OcRecs
    <3> HIDE DEF H
    <3> QED BY <2>1, <2>2, <3>1, <3>2 DEF OcRecs
  <2>3. CASE ~(ocTurn[t].pc \in {"sent", "waits"} /\ ocTurn[t].server = s)
    <3>1. H[t] = ocTurn[t]
      BY <2>3 DEF Hear
    <3> HIDE DEF H
    <3> QED BY <2>1, <2>3, <3>1
  <2> QED BY <2>2, <2>3
<1>2. H = [t \in OcTurn |-> H[t]]
  BY DEF Hear
<1> HIDE DEF H
<1>3. H \in [OcTurn -> OcRecs]
  BY <1>1, <1>2
<1> QED BY <1>1, <1>3 DEF H

\* What the listeners of a server have heard after one more event.
LEMMA HearSays ==
    ASSUME OcTypeOK, NEW s \in OcTurn, NEW e \in {"idle", "error", "disposed"},
           ocTurn' = Hear(ocTurn, s, e)
    PROVE  \A t \in OcTurn :
               /\ ocTurn'[t].pc = ocTurn[t].pc /\ ocTurn'[t].server = ocTurn[t].server
               /\ ocTurn[t].pc \notin {"sent", "waits"} => ocTurn'[t].news = ocTurn[t].news
               /\ ocTurn[t].pc \in {"sent", "waits"} /\ ocTurn[t].server = s => ocTurn'[t].news # <<>>
               /\ ocTurn[t].news # <<>> => ocTurn'[t].news # <<>>
               /\ ocTurn[t].news # <<>> => Head(ocTurn'[t].news) = Head(ocTurn[t].news)
               /\ ocTurn[t].news = <<>> /\ ocTurn'[t].news # <<>> => Head(ocTurn'[t].news) = e
               /\ ocTurn[t].news = <<>> /\ ocTurn'[t].news # <<>> => ocTurn[t].pc \in {"sent", "waits"}
               /\ ocTurn[t].news = <<>> /\ ocTurn'[t].news # <<>> => ocTurn[t].server = s
<1> SUFFICES ASSUME NEW t \in OcTurn
             PROVE
               /\ ocTurn'[t].pc = ocTurn[t].pc /\ ocTurn'[t].server = ocTurn[t].server
               /\ ocTurn[t].pc \notin {"sent", "waits"} => ocTurn'[t].news = ocTurn[t].news
               /\ ocTurn[t].pc \in {"sent", "waits"} /\ ocTurn[t].server = s => ocTurn'[t].news # <<>>
               /\ ocTurn[t].news # <<>> => ocTurn'[t].news # <<>>
               /\ ocTurn[t].news # <<>> => Head(ocTurn'[t].news) = Head(ocTurn[t].news)
               /\ ocTurn[t].news = <<>> /\ ocTurn'[t].news # <<>> => Head(ocTurn'[t].news) = e
               /\ ocTurn[t].news = <<>> /\ ocTurn'[t].news # <<>> => ocTurn[t].pc \in {"sent", "waits"}
               /\ ocTurn[t].news = <<>> /\ ocTurn'[t].news # <<>> => ocTurn[t].server = s
  OBVIOUS
<1>1. /\ ocTurn'[t].pc = ocTurn[t].pc /\ ocTurn'[t].server = ocTurn[t].server
      /\ \/ /\ ocTurn[t].pc \in {"sent", "waits"} /\ ocTurn[t].server = s
            /\ ocTurn'[t].news = Append(ocTurn[t].news, e)
         \/ /\ ~(ocTurn[t].pc \in {"sent", "waits"} /\ ocTurn[t].server = s)
            /\ ocTurn'[t] = ocTurn[t]
  BY HearIs
<1>2. ocTurn[t].news \in Seq({"idle", "error", "disposed"})
  BY OcTurnsAre DEF OcRecs
<1>3. /\ Append(ocTurn[t].news, e) # <<>>
      /\ ocTurn[t].news = <<>> => Head(Append(ocTurn[t].news, e)) = e
      /\ ocTurn[t].news # <<>> => Head(Append(ocTurn[t].news, e)) = Head(ocTurn[t].news)
  BY <1>2, NewsGrow
<1>4. CASE ocTurn'[t].news = Append(ocTurn[t].news, e)
  BY <1>1, <1>3, <1>4, ZenonT(60)
<1>5. CASE ocTurn'[t] = ocTurn[t]
  BY <1>1, <1>5
<1> QED BY <1>1, <1>4, <1>5

\* The turns and the busy mark.
OcMarked == Prefix /\ Alone /\ BusyIsTrue

\* Nothing starts, ends or is abandoned.
LEMMA MarkedStays ==
    ASSUME OcMarked, ocRoot'.busy = ocRoot.busy, ocPast'.forced = ocPast.forced,
           ocPast.forced \subseteq OcTurn,
           \A t \in OcTurn : /\ ocTurn'[t].pc = "new" <=> ocTurn[t].pc = "new"
                             /\ OcRunning(t)' <=> OcRunning(t)
    PROVE  OcMarked'
<1>1. \A v \in OcTurn : Excused(v) => Excused(v)'
  BY DEF Excused
<1>2. Prefix' /\ Alone'
  BY <1>1 DEF OcMarked, Prefix, Alone
<1>3. BusyIsTrue'
  BY <1>1 DEF OcMarked, BusyIsTrue, Excused
<1> QED BY <1>2, <1>3 DEF OcMarked

\* A running turn ends and takes the mark with it.
LEMMA MarkedEnds ==
    ASSUME OcMarked, ocPast'.forced = ocPast.forced, ocPast.forced \subseteq OcTurn, ~ocRoot'.busy,
           NEW t \in OcTurn, OcRunning(t), ocTurn'[t].pc = "ended",
           \A v \in OcTurn : v # t => ocTurn'[v].pc = ocTurn[v].pc
    PROVE  OcMarked'
<1>0. ocTurn[t].pc # "new" /\ ~OcRunning(t)' /\ OcTurn \subseteq Int
  BY ZeroIsNone DEF OcRunning
<1>1. \A v \in OcTurn : /\ ocTurn'[v].pc = "new" <=> ocTurn[v].pc = "new"
                        /\ OcRunning(v)' => OcRunning(v) /\ v # t
  BY <1>0 DEF OcRunning
<1>2. \A v \in OcTurn : Excused(v) => Excused(v)'
  BY <1>1 DEF Excused
<1>3. Prefix' /\ Alone'
  BY <1>1, <1>2 DEF OcMarked, Prefix, Alone
<1>4. \A v \in OcTurn : OcRunning(v)' => Excused(v)'
  <2> SUFFICES ASSUME NEW v \in OcTurn, OcRunning(v)' PROVE Excused(v)'
    OBVIOUS
  <2>1. OcRunning(v) /\ v # t /\ ocTurn[v].pc # "new"
    BY <1>1 DEF OcRunning
  <2>2. CASE v < t
    BY <1>0, <1>2, <2>1, <2>2 DEF OcMarked, Alone
  <2>3. CASE t < v
    <3>1. Excused(t)
      BY <2>1, <2>3 DEF OcMarked, Alone
    <3>2. CASE t \in ocPast.forced
      BY <1>0, <2>3, <3>2 DEF Excused
    <3>3. CASE t \notin ocPast.forced
      <4>1. PICK u \in ocPast.forced : u < t /\ ~OcRunning(u)
        BY <3>1, <3>3 DEF Excused
      <4>0. u \in OcTurn
        BY <4>1
      <4>2. ~OcRunning(u)'
        BY <1>1, <4>0, <4>1
      <4>3. u < v
        BY <1>0, <2>3, <4>0, <4>1
      <4> QED BY <4>1, <4>2, <4>3 DEF Excused
    <3> QED BY <3>2, <3>3
  <2> QED BY <1>0, <2>1, <2>2, <2>3
<1> QED BY <1>3, <1>4 DEF OcMarked, BusyIsTrue, Excused

\* The next turn begins when the mark is clear.
LEMMA MarkedBegins ==
    ASSUME OcMarked, ocPast'.forced = ocPast.forced, ocPast.forced \subseteq OcTurn,
           ~ocRoot.busy, ocRoot'.busy,
           NEW t \in OcTurn, ocTurn[t].pc = "new", ocTurn'[t].pc \in {"boot", "have"},
           \A u \in 1 .. t - 1 : ocTurn[u].pc # "new",
           \A v \in OcTurn : v # t => ocTurn'[v].pc = ocTurn[v].pc
    PROVE  OcMarked'
<1>0. OcTurn \subseteq Int /\ \A u \in OcTurn : u < t => u \in 1 .. t - 1
  BY DEF OcTurn
<1>1. Prefix'
  BY <1>0 DEF OcMarked, Prefix
<1>2. \A v \in OcTurn : v # t => (OcRunning(v)' <=> OcRunning(v))
  BY DEF OcRunning
<1>3. \A u \in ocPast.forced : u # t
  BY DEF OcMarked, Prefix
<1>4. \A v \in OcTurn : v # t /\ Excused(v) => Excused(v)'
  BY <1>2, <1>3 DEF Excused
<1>5. \A v \in OcTurn : v # t /\ OcRunning(v) => Excused(v)
  BY DEF OcMarked, BusyIsTrue, Excused
<1>6. Alone'
  <2> SUFFICES ASSUME NEW v \in OcTurn, NEW w \in OcTurn, v < w, ocTurn'[w].pc # "new", OcRunning(v)'
               PROVE  Excused(v)'
    BY DEF Alone
  <2>1. v # t
    <3> SUFFICES ASSUME v = t PROVE FALSE
      OBVIOUS
    <3>1. ocTurn[w].pc # "new" /\ w # t
      BY <1>0
    <3> QED BY <3>1 DEF OcMarked, Prefix
  <2> QED BY <1>2, <1>4, <1>5, <2>1
<1> QED BY <1>1, <1>6 DEF OcMarked, BusyIsTrue

\* Every running turn is abandoned.
LEMMA MarkedForced ==
    ASSUME OcMarked, ocPast.forced \subseteq OcTurn, UNCHANGED ocTurn,
           ocPast'.forced = ocPast.forced \cup {t \in OcTurn : OcRunning(t)}
    PROVE  OcMarked'
<1>1. \A v \in OcTurn : OcRunning(v)' => v \in ocPast'.forced
  BY DEF OcRunning
<1>2. \A v \in OcTurn : OcRunning(v) => ocTurn[v].pc # "new"
  BY DEF OcRunning
<1> QED BY <1>1, <1>2 DEF OcMarked, Prefix, Alone, BusyIsTrue, Excused

\* The remembered server, its logger and the log channel.
Rooted == Boots /\ Channelled /\ ServersKnown /\ ServerHeard

\* The folder remembers what it did.
LEMMA RootedStays ==
    ASSUME Rooted, OcTypeOK, ocRoot'.server = ocRoot.server, ocRoot'.channel = ocRoot.channel,
           ocPast'.forced = ocPast.forced,
           \A t \in OcTurn : ocTurn'[t].pc = "boot" => ocTurn[t].pc = "boot",
           \A s \in OcTurn : /\ ServerUp(s)' => ServerUp(s)
                             /\ ocServer[s] # "no" => ocServer'[s] # "no"
                             /\ s \in ocLogger.on /\ s = ocRoot.server =>
                                    \/ s \in ocLogger'.on \/ ~ServerUp(s)'
                                    \/ ocLogger'.lost \/ ocPast.forced # {},
           ocLogger.lost => ocLogger'.lost
    PROVE  Rooted'
<1>1. ocRoot.server \in OcTurn \cup {0}
  BY DEF OcTypeOK
<1>2. Boots'
  BY <1>1 DEF Rooted, Boots
<1>3. Channelled'
  BY DEF Rooted, Channelled
<1>4. ServersKnown'
  BY DEF Rooted, ServersKnown
<1>5. ServerHeard'
  BY <1>1 DEF Rooted, ServerHeard
<1> QED BY <1>2, <1>3, <1>4, <1>5 DEF Rooted

\* The server is closed and forgotten.
LEMMA RootedEvicted ==
    ASSUME Rooted, OcTypeOK, NEW root, Evict(root), root.server = ocRoot.server,
           root.channel = ocRoot.channel, root \in [server : OcTurn \cup {0}, busy : BOOLEAN,
                                                    channel : BOOLEAN, extras : 0 .. MaxExtra],
           ocPast.forced \subseteq ocPast'.forced,
           \A t \in OcTurn : ocTurn'[t].pc = "boot" => ocTurn[t].pc = "boot"
    PROVE  Rooted'
<1>1. ocRoot'.server = 0 /\ (ocRoot'.channel <=> ocRoot.channel /\ ocRoot.server = 0)
  BY DEF Evict
<1>2. \A s \in OcTurn : ocServer'[s] = IF s = ocRoot.server THEN "down" ELSE ocServer[s]
  BY DEF Evict
<1>3. Boots' /\ ServerHeard'
  BY <1>1 DEF Boots, ServerHeard
<1>4. Channelled'
  BY <1>1 DEF Rooted, Channelled, Boots
<1>5. \A s \in OcTurn : /\ ServerUp(s)' => ServerUp(s) /\ ocRoot.server # s
                        /\ ocServer[s] # "no" => ocServer'[s] # "no"
  BY <1>2 DEF ServerUp
<1>6. ServersKnown'
  BY <1>5 DEF Rooted, ServersKnown
<1> QED BY <1>3, <1>4, <1>6 DEF Rooted

LEMMA RootedBegins ==
    ASSUME Rooted, OcTypeOK, NEW t \in OcTurn, OcDispatch(t)
    PROVE  Rooted'
<1>1. /\ ocRoot'.server = ocRoot.server /\ ocRoot'.channel = TRUE
      /\ UNCHANGED <<ocServer, ocLogger, ocPast>>
  BY DEF OcDispatch, OcTypeOK
<1>2. \A v \in OcTurn : ocTurn'[v].pc = "boot" => ocTurn[v].pc = "boot" \/ ocRoot.server = 0
  BY OcTurnsAre DEF OcDispatch, OcRecs
<1>3. Boots' /\ Channelled'
  BY <1>1, <1>2 DEF Rooted, Boots, Channelled
<1>4. ServersKnown' /\ ServerHeard'
  BY <1>1 DEF Rooted, ServersKnown, ServerHeard, ServerUp
<1> QED BY <1>3, <1>4 DEF Rooted

\* A server that comes up beside another one was asked for by a turn that ran beside
\* another one.
LEMMA RootedBooted ==
    ASSUME Rooted, OcMarked, OcTypeOK, NEW t \in OcTurn, Booted(t)
    PROVE  Rooted'
<1>0. OcTurn \subseteq Int /\ 0 \notin OcTurn /\ ocPast.forced \subseteq OcTurn
  BY ZeroIsNone DEF OcTypeOK
<1>1. /\ ocTurn[t].pc = "boot" /\ ocRoot'.server = t /\ ocRoot'.channel = ocRoot.channel
      /\ ocServer'[t] = "idle" /\ \A s \in OcTurn : s # t => ocServer'[s] = ocServer[s]
      /\ t \in ocLogger'.on /\ ocLogger'.lost = ocLogger.lost /\ UNCHANGED ocPast
  BY DEF Booted, OcTypeOK
<1>2. \A v \in OcTurn : ocTurn'[v].pc = "boot" => ocTurn[v].pc = "boot" /\ v # t
  BY OcTurnsAre DEF Booted, OcRecs
<1>3. Boots'
  <2>1. ASSUME NEW v \in OcTurn, ocTurn[v].pc = "boot", v # t
        PROVE  \E u \in ocPast.forced : u < v \/ u < t
    <3>1. OcRunning(v) /\ OcRunning(t) /\ ocTurn[v].pc # "new" /\ ocTurn[t].pc # "new"
      BY <1>1, <2>1 DEF OcRunning
    <3>2. CASE v < t
      <4>1. Excused(v)
        BY <3>1, <3>2 DEF OcMarked, Alone
      <4> QED BY <1>0, <3>2, <4>1 DEF Excused
    <3>3. CASE t < v
      <4>1. Excused(t)
        BY <3>1, <3>3 DEF OcMarked, Alone
      <4> QED BY <1>0, <3>3, <4>1 DEF Excused
    <3> QED BY <1>0, <2>1, <3>2, <3>3
  <2> QED BY <1>1, <1>2, <2>1 DEF Boots
<1>4. Channelled'
  BY <1>1 DEF Rooted, Channelled
<1>5. ServersKnown'
  <2> SUFFICES ASSUME NEW s \in OcTurn, ServerUp(s)', s # t
               PROVE  \E u \in ocPast.forced, v \in OcTurn : u < v /\ ocServer'[v] # "no"
    BY <1>1 DEF ServersKnown
  <2>0. ServerUp(s) /\ ocServer[s] # "no" /\ ocServer'[s] # "no" /\ ocServer'[t] # "no"
    BY <1>1 DEF ServerUp
  <2>1. CASE ocRoot.server # s
    <3>1. PICK u \in ocPast.forced, v \in OcTurn : u < v /\ ocServer[v] # "no"
      BY <2>0, <2>1 DEF Rooted, ServersKnown
    <3>2. ocServer'[v] # "no"
      BY <1>1, <3>1
    <3> QED BY <3>1, <3>2
  <2>2. CASE ocRoot.server = s
    <3>1. PICK u \in ocPast.forced : u < t \/ u < s
      BY <1>0, <1>1, <2>2 DEF Rooted, Boots
    <3> QED BY <2>0, <3>1
  <2> QED BY <2>1, <2>2
<1>6. ServerHeard'
  BY <1>1 DEF ServerHeard
<1> QED BY <1>3, <1>4, <1>5, <1>6 DEF Rooted

\* What a server owes, and what a listener hears of it.
OcOwing == Works /\ OwedTurns /\ News /\ OcHeard /\ Failed /\ EarlyEndComesFrom

\* While nothing was abandoned only the last turn runs.
LEMMA Sole ==
    ASSUME OcMarked, ocPast.forced = {}, NEW t \in OcTurn, OcRunning(t), NEW u \in OcTurn, u # t
    PROVE  ~OcRunning(u) /\ (ocTurn[u].pc # "new" => u < t)
<1>1. OcTurn \subseteq Int /\ ocTurn[t].pc # "new"
  BY ZeroIsNone DEF OcRunning
<1>2. \A v, w \in OcTurn : v < w /\ ocTurn[w].pc # "new" => ~OcRunning(v)
  BY DEF OcMarked, Alone, Excused
<1>3. u < t \/ t < u
  BY <1>1
<1>4. OcRunning(u) => ocTurn[u].pc # "new"
  BY DEF OcRunning
<1> QED BY <1>1, <1>2, <1>3, <1>4

\* Steps that answer nothing and end no wait.
LEMMA OwingStays ==
    ASSUME OcOwing, ocRoot'.extras = ocRoot.extras, ocPast.forced \subseteq ocPast'.forced,
           ocPast'.answered = ocPast.answered, ocPast'.early = ocPast.early,
           ocPast'.short = ocPast.short, ocPast.short \subseteq OcTurn, ocPast.early \subseteq OcTurn,
           UNCHANGED ocOwed,
           \A s \in OcTurn :
               /\ ocServer'[s] \in {"working", "asks"} => ocServer[s] \in {"working", "asks"}
               /\ ocServer'[s] = "erred" => ocServer[s] = "erred",
           \A t \in OcTurn :
               \/ ocTurn'[t] = ocTurn[t]
               \/ /\ ocTurn[t].pc \in {"new", "boot", "have"} /\ ocTurn'[t].news = <<>>
                  /\ ocTurn'[t].pc \in {"boot", "have", "sent", "ended"}
                  /\ ocTurn'[t].pc \in {"have", "sent"} => ocTurn'[t].server # 0
    PROVE  OcOwing'
<1>1. \A t \in OcTurn : ocTurn[t].pc \in {"sent", "waits", "ended"} => ocTurn'[t] = ocTurn[t]
  OBVIOUS
<1>2. \A t \in OcTurn : t \in ocPast.short \cup ocPast.early \cup ocPast.answered => ocTurn'[t] = ocTurn[t]
  BY <1>1 DEF OcOwing, News
<1>3. \A u, s \in OcTurn : Unanswered(u, s) => Unanswered(u, s)' /\ ocTurn'[u] = ocTurn[u]
  BY <1>1 DEF Unanswered
<1>4. Works'
  BY DEF OcOwing, Works
<1>5. OwedTurns'
  BY <1>3 DEF OcOwing, OwedTurns
<1>6. News'
  BY <1>2 DEF OcOwing, News
<1>7. Quiet' => Quiet
  BY DEF Quiet
<1>8. OcHeard'
  BY <1>2, <1>7 DEF OcOwing, OcHeard, News
<1>9. Failed'
  BY <1>3, <1>7 DEF OcOwing, Failed
<1>10. EarlyEndComesFrom'
  BY <1>2 DEF OcOwing, EarlyEndComesFrom
<1> QED BY <1>4, <1>5, <1>6, <1>8, <1>9, <1>10 DEF OcOwing

\* A wait ends.
LEMMA OwingEnds ==
    ASSUME OcOwing, OcTypeOK, ocRoot'.extras = ocRoot.extras, ocPast'.forced = ocPast.forced,
           NEW t \in OcTurn, ocTurn[t].pc = "waits", NEW c \in {"0", "1"}, ocTurn' = Ends(ocTurn, t, c),
           NEW byIdle \in BOOLEAN, ocPast' = Short(t, byIdle),
           byIdle => ocTurn[t].news # <<>> /\ Head(ocTurn[t].news) = "idle",
           UNCHANGED ocOwed,
           \A s \in OcTurn :
               /\ ocServer'[s] \in {"working", "asks"} => ocServer[s] \in {"working", "asks"}
               /\ ocServer'[s] = "erred" => ocServer[s] = "erred"
    PROVE  OcOwing'
<1>0. /\ ocPast.short \subseteq OcTurn /\ ocPast.early \subseteq OcTurn
      /\ ocRoot.extras \in Nat
  BY OcBounds DEF OcTypeOK
<1>1. /\ ocTurn'[t].pc = "ended" /\ ocTurn'[t].news = <<>> /\ ocTurn'[t].server = ocTurn[t].server
      /\ \A v \in OcTurn : v # t => ocTurn'[v] = ocTurn[v]
  BY OcTurnsAre DEF Ends, OcRecs
<1>2. /\ ocPast'.answered = ocPast.answered
      /\ ocPast'.short = ocPast.short \cup ({t} \ ocPast.answered)
      /\ ocPast'.early = IF byIdle THEN ocPast.early \cup ({t} \ ocPast.answered) ELSE ocPast.early
  BY DEF Short, OcTypeOK
<1>3. \A v \in OcTurn : ocTurn'[v].server = ocTurn[v].server /\ (ocTurn'[v].news # <<>> => v # t)
  BY <1>1
<1>4. \A u, s \in OcTurn : Unanswered(u, s) => Unanswered(u, s)'
  BY <1>1, <1>2 DEF Unanswered
<1>5. Works'
  BY DEF OcOwing, Works
<1>6. OwedTurns'
  BY <1>4 DEF OcOwing, OwedTurns
<1>7. News'
  BY <1>1, <1>2 DEF OcOwing, News
<1>8. Quiet' <=> Quiet
  BY DEF Quiet
<1>9. OcHeard'
  BY <1>0, <1>1, <1>2, <1>3, <1>8 DEF OcOwing, OcHeard
<1>10. Failed'
  BY <1>1, <1>4, <1>8 DEF OcOwing, Failed
<1>11. EarlyEndComesFrom'
  <2> SUFFICES ASSUME NEW v \in ocPast'.early, ocRoot.extras = 0, ocPast.forced = {}
               PROVE  \E u \in ocPast'.short : u < v /\ ocTurn'[u].server = ocTurn'[v].server
    BY <1>0 DEF EarlyEndComesFrom
  <2>1. CASE v \in ocPast.early
    BY <1>0, <1>2, <1>3, <2>1 DEF OcOwing, EarlyEndComesFrom
  <2>2. CASE v \notin ocPast.early
    <3>1. v = t /\ byIdle /\ t \notin ocPast.answered
      BY <1>2, <2>2
    <3>2. PICK u \in ocPast.short : u < t /\ ocTurn[u].server = ocTurn[t].server
      BY <3>1 DEF OcOwing, OcHeard, Quiet
    <3> QED BY <1>0, <1>2, <1>3, <3>1, <3>2
  <2> QED BY <2>1, <2>2
<1> QED BY <1>5, <1>6, <1>7, <1>9, <1>10, <1>11 DEF OcOwing

LEMMA OwingIdle ==
    ASSUME OcOwing, OcMarked, OcTypeOK, NEW s \in OcTurn, AgentIdle(s)
    PROVE  OcOwing'
<1>0. /\ ocPast.short \subseteq OcTurn /\ ocPast.early \subseteq OcTurn /\ OcTurn \subseteq Int
      /\ ocTurn \in [OcTurn -> OcRecs]
  BY ZeroIsNone, OcTurnsAre DEF OcTypeOK
<1>1. /\ ocServer[s] = "working" /\ ocServer'[s] = "idle" /\ ocOwed'[s] = {}
      /\ \A r \in OcTurn : r # s => ocServer'[r] = ocServer[r] /\ ocOwed'[r] = ocOwed[r]
      /\ ocPast'.answered = ocPast.answered \cup (ocOwed[s] \ {Extra})
      /\ ocPast'.forced = ocPast.forced /\ ocPast'.short = ocPast.short
      /\ ocPast'.early = ocPast.early /\ ocTurn' = Hear(ocTurn, s, "idle") /\ UNCHANGED ocRoot
  BY DEF AgentIdle, OcTypeOK
<1>2. \A t \in OcTurn :
          /\ ocTurn'[t].pc = ocTurn[t].pc /\ ocTurn'[t].server = ocTurn[t].server
          /\ ocTurn[t].pc \notin {"sent", "waits"} => ocTurn'[t].news = ocTurn[t].news
          /\ ocTurn[t].pc \in {"sent", "waits"} /\ ocTurn[t].server = s => ocTurn'[t].news # <<>>
          /\ ocTurn[t].news # <<>> => ocTurn'[t].news # <<>>
          /\ ocTurn[t].news # <<>> => Head(ocTurn'[t].news) = Head(ocTurn[t].news)
          /\ ocTurn[t].news = <<>> /\ ocTurn'[t].news # <<>> => Head(ocTurn'[t].news) = "idle"
          /\ ocTurn[t].news = <<>> /\ ocTurn'[t].news # <<>> => ocTurn[t].pc \in {"sent", "waits"}
          /\ ocTurn[t].news = <<>> /\ ocTurn'[t].news # <<>> => ocTurn[t].server = s
  BY <1>0, <1>1, HearSays
<1>3. \A u, r \in OcTurn : Unanswered(u, r) /\ u \notin ocOwed[s] => Unanswered(u, r)'
  BY <1>1, <1>2 DEF Unanswered
<1>4. \A u, r \in OcTurn : r # s /\ u \in ocOwed[r] => u \notin ocOwed[s]
  BY DEF OcOwing, OwedTurns, Unanswered
<1>5. Works'
  BY <1>1 DEF OcOwing, Works
<1>6. OwedTurns'
  BY <1>1, <1>3, <1>4 DEF OcOwing, OwedTurns
<1>7. News'
  BY <1>1, <1>2 DEF OcOwing, News, OwedTurns, Unanswered
<1>8. Quiet' <=> Quiet
  BY <1>1 DEF Quiet
<1>9. /\ ocPast'.short = ocPast.short /\ ocPast'.early = ocPast.early
      /\ \A u \in ocPast.short : ocTurn'[u].server = ocTurn[u].server
      /\ \A u \in ocPast.early : ocTurn'[u].server = ocTurn[u].server
      /\ \A u \in OcTurn : ocTurn'[u].server = ocTurn[u].server
  BY <1>0, <1>1, <1>2
<1>10. OcHeard'
  <2> SUFFICES ASSUME Quiet, NEW t \in OcTurn, ocTurn'[t].news # <<>>, t \notin ocPast'.answered,
                      Head(ocTurn'[t].news) = "idle"
               PROVE  \E u \in ocPast'.short : u < t /\ ocTurn'[u].server = ocTurn'[t].server
    BY <1>8 DEF OcHeard
  <2> SUFFICES \E u \in ocPast.short : u < t /\ ocTurn[u].server = ocTurn[t].server
    BY <1>9
  <2>1. CASE ocTurn[t].news # <<>>
    BY <1>1, <1>2, <2>1 DEF OcOwing, OcHeard
  <2>2. CASE ocTurn[t].news = <<>>
    <3>1. ocTurn[t].pc \in {"sent", "waits"} /\ ocTurn[t].server = s /\ OcRunning(t)
      BY <1>2, <2>2 DEF OcRunning
    <3>2. PICK u \in ocOwed[s] : u # t
      BY <1>1 DEF OcOwing, Works, Quiet, Extra
    <3>3. u \in OcTurn
      BY <1>1, <3>2 DEF OcOwing, Works, Quiet, OcTypeOK
    <3>4. Unanswered(u, s) /\ ocTurn[u].pc # "new"
      BY <3>2, <3>3 DEF OcOwing, OwedTurns, Unanswered
    <3>5. ~OcRunning(u) /\ u < t
      BY <3>1, <3>2, <3>3, <3>4, Sole DEF Quiet
    <3> QED BY <3>1, <3>4, <3>5 DEF Unanswered, OcRunning
  <2> QED BY <2>1, <2>2
<1>11. Failed'
  <2> SUFFICES ASSUME Quiet, NEW r \in OcTurn, ocServer'[r] = "erred"
               PROVE  \E u \in OcTurn : /\ Unanswered(u, r)' /\ u \notin ocOwed'[r]
                                        /\ ocTurn'[u].pc = "waits" => ocTurn'[u].news # <<>>
    BY <1>8 DEF Failed
  <2>1. r # s /\ ocServer[r] = "erred"
    BY <1>1
  <2>2. PICK u \in OcTurn : /\ Unanswered(u, r) /\ u \notin ocOwed[r]
                            /\ ocTurn[u].pc = "waits" => ocTurn[u].news # <<>>
    BY <2>1 DEF OcOwing, Failed
  <2>3. u \notin ocOwed[s]
    BY <2>1, <2>2 DEF OcOwing, OwedTurns, Unanswered
  <2> QED BY <1>1, <1>2, <1>3, <2>1, <2>2, <2>3
<1>12. EarlyEndComesFrom'
  BY <1>1, <1>9 DEF OcOwing, EarlyEndComesFrom
<1> QED BY <1>5, <1>6, <1>7, <1>10, <1>11, <1>12 DEF OcOwing

LEMMA OwingErrs ==
    ASSUME OcOwing, OcMarked, OcTypeOK, NEW s \in OcTurn, AgentErrs(s)
    PROVE  OcOwing'
<1>0. /\ ocPast.short \subseteq OcTurn /\ ocPast.early \subseteq OcTurn /\ OcTurn \subseteq Int
      /\ ocTurn \in [OcTurn -> OcRecs]
  BY ZeroIsNone, OcTurnsAre DEF OcTypeOK
<1>1. /\ ocServer[s] = "working" /\ ocServer'[s] = "erred" /\ ocOwed'[s] = {}
      /\ \A r \in OcTurn : r # s => ocServer'[r] = ocServer[r] /\ ocOwed'[r] = ocOwed[r]
      /\ ocTurn' = Hear(ocTurn, s, "error") /\ UNCHANGED <<ocRoot, ocPast>>
  BY DEF AgentErrs, OcTypeOK
<1>2. \A t \in OcTurn :
          /\ ocTurn'[t].pc = ocTurn[t].pc /\ ocTurn'[t].server = ocTurn[t].server
          /\ ocTurn[t].pc \notin {"sent", "waits"} => ocTurn'[t].news = ocTurn[t].news
          /\ ocTurn[t].pc \in {"sent", "waits"} /\ ocTurn[t].server = s => ocTurn'[t].news # <<>>
          /\ ocTurn[t].news # <<>> => ocTurn'[t].news # <<>>
          /\ ocTurn[t].news # <<>> => Head(ocTurn'[t].news) = Head(ocTurn[t].news)
          /\ ocTurn[t].news = <<>> /\ ocTurn'[t].news # <<>> => Head(ocTurn'[t].news) = "error"
          /\ ocTurn[t].news = <<>> /\ ocTurn'[t].news # <<>> => ocTurn[t].pc \in {"sent", "waits"}
          /\ ocTurn[t].news = <<>> /\ ocTurn'[t].news # <<>> => ocTurn[t].server = s
  BY <1>0, <1>1, HearSays
<1>3. \A u, r \in OcTurn : Unanswered(u, r) => Unanswered(u, r)'
  BY <1>1, <1>2 DEF Unanswered
<1>5. Works'
  BY <1>1 DEF OcOwing, Works
<1>6. OwedTurns'
  BY <1>1, <1>3 DEF OcOwing, OwedTurns
<1>7. News'
  BY <1>1, <1>2 DEF OcOwing, News
<1>8. Quiet' <=> Quiet
  BY <1>1 DEF Quiet
<1>9. /\ ocPast'.short = ocPast.short /\ ocPast'.early = ocPast.early
      /\ \A u \in ocPast.short : ocTurn'[u].server = ocTurn[u].server
      /\ \A u \in ocPast.early : ocTurn'[u].server = ocTurn[u].server
      /\ \A u \in OcTurn : ocTurn'[u].server = ocTurn[u].server
  BY <1>0, <1>1, <1>2
<1>10. OcHeard'
  <2> SUFFICES ASSUME Quiet, NEW t \in OcTurn, ocTurn'[t].news # <<>>, t \notin ocPast'.answered,
                      Head(ocTurn'[t].news) = "idle"
               PROVE  \E u \in ocPast'.short : u < t /\ ocTurn'[u].server = ocTurn'[t].server
    BY <1>8 DEF OcHeard
  <2>1. ocTurn[t].news # <<>> /\ Head(ocTurn[t].news) = "idle" /\ t \notin ocPast.answered
    BY <1>1, <1>2
  <2>2. \E u \in ocPast.short : u < t /\ ocTurn[u].server = ocTurn[t].server
    BY <2>1 DEF OcOwing, OcHeard
  <2> QED BY <1>9, <2>2
<1>11. Failed'
  <2> SUFFICES ASSUME Quiet, NEW r \in OcTurn, ocServer'[r] = "erred"
               PROVE  \E u \in OcTurn : /\ Unanswered(u, r)' /\ u \notin ocOwed'[r]
                                        /\ ocTurn'[u].pc = "waits" => ocTurn'[u].news # <<>>
    BY <1>8 DEF Failed
  <2>1. CASE r # s
    BY <1>1, <1>2, <1>3, <2>1 DEF OcOwing, Failed
  <2>2. CASE r = s
    <3>1. PICK u \in ocOwed[s] : u # Extra
      BY <1>1 DEF OcOwing, Works, Quiet
    <3>2. u \in OcTurn /\ Unanswered(u, s)
      BY <3>1 DEF OcOwing, OwedTurns, OcTypeOK
    <3> QED BY <1>1, <1>2, <1>3, <2>2, <3>2 DEF Unanswered
  <2> QED BY <2>1, <2>2
<1>12. EarlyEndComesFrom'
  BY <1>1, <1>9 DEF OcOwing, EarlyEndComesFrom
<1> QED BY <1>5, <1>6, <1>7, <1>10, <1>11, <1>12 DEF OcOwing

LEMMA OwingAfter ==
    ASSUME OcOwing, OcMarked, OcTypeOK, NEW s \in OcTurn, IdleAfterError(s)
    PROVE  OcOwing'
<1>0. /\ ocPast.short \subseteq OcTurn /\ ocPast.early \subseteq OcTurn /\ OcTurn \subseteq Int
      /\ ocTurn \in [OcTurn -> OcRecs]
  BY ZeroIsNone, OcTurnsAre DEF OcTypeOK
<1>1. /\ ocServer[s] = "erred" /\ ocServer'[s] \in {"idle", "working"}
      /\ ocServer'[s] = "working" => ocOwed[s] # {}
      /\ \A r \in OcTurn : r # s => ocServer'[r] = ocServer[r]
      /\ ocTurn' = Hear(ocTurn, s, "idle") /\ UNCHANGED <<ocRoot, ocPast, ocOwed>>
  BY DEF IdleAfterError, OcTypeOK
<1>2. \A t \in OcTurn :
          /\ ocTurn'[t].pc = ocTurn[t].pc /\ ocTurn'[t].server = ocTurn[t].server
          /\ ocTurn[t].pc \notin {"sent", "waits"} => ocTurn'[t].news = ocTurn[t].news
          /\ ocTurn[t].pc \in {"sent", "waits"} /\ ocTurn[t].server = s => ocTurn'[t].news # <<>>
          /\ ocTurn[t].news # <<>> => ocTurn'[t].news # <<>>
          /\ ocTurn[t].news # <<>> => Head(ocTurn'[t].news) = Head(ocTurn[t].news)
          /\ ocTurn[t].news = <<>> /\ ocTurn'[t].news # <<>> => Head(ocTurn'[t].news) = "idle"
          /\ ocTurn[t].news = <<>> /\ ocTurn'[t].news # <<>> => ocTurn[t].pc \in {"sent", "waits"}
          /\ ocTurn[t].news = <<>> /\ ocTurn'[t].news # <<>> => ocTurn[t].server = s
  BY <1>0, <1>1, HearSays
<1>3. \A u, r \in OcTurn : Unanswered(u, r) => Unanswered(u, r)'
  BY <1>1, <1>2 DEF Unanswered
<1>5. Works'
  BY <1>1 DEF OcOwing, Works
<1>6. OwedTurns'
  BY <1>1, <1>3 DEF OcOwing, OwedTurns
<1>7. News'
  BY <1>1, <1>2 DEF OcOwing, News
<1>8. Quiet' <=> Quiet
  BY <1>1 DEF Quiet
<1>9. /\ ocPast'.short = ocPast.short /\ ocPast'.early = ocPast.early
      /\ \A u \in ocPast.short : ocTurn'[u].server = ocTurn[u].server
      /\ \A u \in ocPast.early : ocTurn'[u].server = ocTurn[u].server
      /\ \A u \in OcTurn : ocTurn'[u].server = ocTurn[u].server
  BY <1>0, <1>1, <1>2
<1>10. OcHeard'
  <2> SUFFICES ASSUME Quiet, NEW t \in OcTurn, ocTurn'[t].news # <<>>, t \notin ocPast.answered,
                      Head(ocTurn'[t].news) = "idle"
               PROVE  \E u \in ocPast'.short : u < t /\ ocTurn'[u].server = ocTurn'[t].server
    BY <1>1, <1>8 DEF OcHeard
  <2> SUFFICES \E u \in ocPast.short : u < t /\ ocTurn[u].server = ocTurn[t].server
    BY <1>9
  <2>1. CASE ocTurn[t].news # <<>>
    BY <1>2, <2>1 DEF OcOwing, OcHeard
  <2>2. CASE ocTurn[t].news = <<>>
    <3>1. ocTurn[t].pc \in {"sent", "waits"} /\ ocTurn[t].server = s /\ OcRunning(t)
      BY <1>2, <2>2 DEF OcRunning
    <3>2. PICK u \in OcTurn : /\ Unanswered(u, s)
                              /\ ocTurn[u].pc = "waits" => ocTurn[u].news # <<>>
      BY <1>1 DEF OcOwing, Failed
    <3>3. u # t /\ ocTurn[u].pc # "new"
      BY <2>2, <3>1, <3>2 DEF Unanswered
    <3>5. ~OcRunning(u) /\ u < t
      BY <3>1, <3>3, Sole DEF Quiet
    <3> QED BY <3>1, <3>2, <3>5 DEF Unanswered, OcRunning
  <2> QED BY <2>1, <2>2
<1>11. Failed'
  BY <1>1, <1>2, <1>3, <1>8 DEF OcOwing, Failed
<1>12. EarlyEndComesFrom'
  BY <1>1, <1>9 DEF OcOwing, EarlyEndComesFrom
<1> QED BY <1>5, <1>6, <1>7, <1>10, <1>11, <1>12 DEF OcOwing

LEMMA OwingGoes ==
    ASSUME OcOwing, OcTypeOK, NEW s \in OcTurn, ServerGoes(s)
    PROVE  OcOwing'
<1>0. /\ ocPast.short \subseteq OcTurn /\ ocPast.early \subseteq OcTurn
      /\ ocTurn \in [OcTurn -> OcRecs]
  BY OcTurnsAre DEF OcTypeOK
<1>1. /\ ocServer'[s] = "down" /\ ocOwed'[s] = {}
      /\ \A r \in OcTurn : r # s => ocServer'[r] = ocServer[r] /\ ocOwed'[r] = ocOwed[r]
      /\ ocTurn' = ocTurn \/ ocTurn' = Hear(ocTurn, s, "disposed")
      /\ UNCHANGED <<ocRoot, ocPast>>
  BY DEF ServerGoes, OcTypeOK
<1>2. \A t \in OcTurn :
          /\ ocTurn'[t].pc = ocTurn[t].pc /\ ocTurn'[t].server = ocTurn[t].server
          /\ ocTurn[t].pc \notin {"sent", "waits"} => ocTurn'[t].news = ocTurn[t].news
          /\ ocTurn[t].news # <<>> => ocTurn'[t].news # <<>>
          /\ ocTurn[t].news # <<>> => Head(ocTurn'[t].news) = Head(ocTurn[t].news)
          /\ ocTurn[t].news = <<>> /\ ocTurn'[t].news # <<>> => Head(ocTurn'[t].news) = "disposed"
  <2>1. CASE ocTurn' = ocTurn
    BY <2>1
  <2>2. CASE ocTurn' = Hear(ocTurn, s, "disposed")
    BY <1>0, <2>2, HearSays, SMTT(60)
  <2> QED BY <1>1, <2>1, <2>2
<1>3. \A u, r \in OcTurn : Unanswered(u, r) => Unanswered(u, r)'
  BY <1>1, <1>2 DEF Unanswered
<1>5. Works' /\ OwedTurns'
  BY <1>1, <1>3 DEF OcOwing, Works, OwedTurns
<1>7. News'
  BY <1>1, <1>2 DEF OcOwing, News
<1>8. Quiet' <=> Quiet
  BY <1>1 DEF Quiet
<1>9. OcHeard'
  BY <1>0, <1>1, <1>2, <1>8 DEF OcOwing, OcHeard
<1>10. Failed'
  BY <1>1, <1>2, <1>3, <1>8 DEF OcOwing, Failed
<1>11. EarlyEndComesFrom'
  BY <1>0, <1>1, <1>2 DEF OcOwing, EarlyEndComesFrom
<1> QED BY <1>5, <1>7, <1>9, <1>10, <1>11 DEF OcOwing

LEMMA OwingPrompt ==
    ASSUME OcOwing, OcTypeOK, NEW t \in OcTurn, PromptArrives(t)
    PROVE  OcOwing'
<1> PICK s \in OcTurn : s = ocTurn[t].server
  BY DEF OcTypeOK, OcOwing, News, PromptArrives
<1>0. /\ ocPast.short \subseteq OcTurn /\ ocPast.early \subseteq OcTurn /\ s = ocTurn[t].server
      /\ ocTurn[t].pc = "sent" /\ t # Extra
  BY ZeroIsNone DEF OcTypeOK, PromptArrives, Extra
<1>1. /\ \A r \in OcTurn : r # s => ocServer'[r] = ocServer[r] /\ ocOwed'[r] = ocOwed[r]
      /\ ocOwed'[s] = IF ServerUp(s) THEN ocOwed[s] \cup {t} ELSE ocOwed[s]
      /\ ocServer'[s] = IF ocServer[s] = "idle" THEN "working" ELSE ocServer[s]
      /\ UNCHANGED <<ocRoot, ocPast>>
  BY <1>0 DEF PromptArrives, Accepts, OcTypeOK
<1>2. /\ ocTurn'[t].pc = "waits" /\ ocTurn'[t].server = s /\ ocTurn'[t].news = ocTurn[t].news
      /\ \A v \in OcTurn : v # t => ocTurn'[v] = ocTurn[v]
  BY OcTurnsAre DEF PromptArrives, OcRecs
<1>3. \A u, r \in OcTurn : Unanswered(u, r) => Unanswered(u, r)' /\ u # t
  BY <1>0, <1>1, <1>2 DEF Unanswered
<1>4. Unanswered(t, s)'
  <2>1. t \notin ocPast.answered
    BY <1>0 DEF OcOwing, News
  <2> QED BY <1>1, <1>2, <2>1 DEF Unanswered
<1>5. Works'
  BY <1>0, <1>1 DEF OcOwing, Works, ServerUp
<1>6. OwedTurns'
  <2> SUFFICES ASSUME NEW r \in OcTurn, NEW u \in OcTurn, u \in ocOwed'[r]
               PROVE  Unanswered(u, r)'
    BY DEF OwedTurns
  <2>1. CASE u \in ocOwed[r]
    BY <1>3, <2>1 DEF OcOwing, OwedTurns
  <2>2. CASE u \notin ocOwed[r]
    <3>1. u = t /\ r = s
      BY <1>1, <2>2
    <3> QED BY <1>4, <3>1 DEF Unanswered
  <2> QED BY <2>1, <2>2
<1>7. News'
  BY <1>0, <1>1, <1>2 DEF OcOwing, News
<1>8. Quiet' <=> Quiet
  BY <1>1 DEF Quiet
<1>9. OcHeard'
  BY <1>0, <1>1, <1>2, <1>8 DEF OcOwing, OcHeard
<1>10. Failed'
  BY <1>0, <1>1, <1>2, <1>3, <1>8 DEF OcOwing, Failed
<1>11. EarlyEndComesFrom'
  BY <1>0, <1>1, <1>2 DEF OcOwing, EarlyEndComesFrom
<1> QED BY <1>5, <1>6, <1>7, <1>9, <1>10, <1>11 DEF OcOwing

LEMMA OwingExtra ==
    ASSUME OcOwing, OcTypeOK, ExtraPrompt
    PROVE  OcOwing'
<1> DEFINE s == ocRoot.server
<1>0. s \in OcTurn /\ Extra \notin OcTurn /\ ocRoot.extras \in Nat
  BY ZeroIsNone, OcBounds DEF OcTypeOK, ExtraPrompt, Extra
<1>1. /\ \A r \in OcTurn : r # s => ocServer'[r] = ocServer[r] /\ ocOwed'[r] = ocOwed[r]
      /\ ocOwed'[s] = IF ServerUp(s) THEN ocOwed[s] \cup {Extra} ELSE ocOwed[s]
      /\ ocServer'[s] = IF ocServer[s] = "idle" THEN "working" ELSE ocServer[s]
      /\ UNCHANGED <<ocTurn, ocPast>> /\ ocRoot'.extras = ocRoot.extras + 1
  BY <1>0 DEF ExtraPrompt, Accepts, OcTypeOK
<1> HIDE DEF s
<1>2. ocRoot'.extras > 0 /\ ~Quiet'
  BY <1>0, <1>1 DEF Quiet
<1>3. \A u, r \in OcTurn : Unanswered(u, r) => Unanswered(u, r)'
  BY <1>1 DEF Unanswered
<1>5. Works'
  BY <1>0, <1>1, <1>2 DEF OcOwing, Works, ServerUp
<1>6. OwedTurns'
  BY <1>0, <1>1, <1>3 DEF OcOwing, OwedTurns
<1>7. News' /\ OcHeard' /\ Failed' /\ EarlyEndComesFrom'
  BY <1>1, <1>2 DEF OcOwing, News, OcHeard, Failed, EarlyEndComesFrom
<1> QED BY <1>5, <1>6, <1>7 DEF OcOwing

\* The types, one action after the other.
OcRoots == [server : OcTurn \cup {0}, busy : BOOLEAN, channel : BOOLEAN, extras : 0 .. MaxExtra]
OcLoggers == [on : SUBSET OcTurn, lost : BOOLEAN]
OcPasts == [forced : SUBSET OcTurn, answered : SUBSET OcTurn, early : SUBSET OcTurn,
            short : SUBSET OcTurn]
OcStates == {"no", "idle", "working", "asks", "erred", "down"}
OcOwes == SUBSET (OcTurn \cup {Extra})

LEMMA OcTyped ==
    OcTypeOK <=> /\ ocRoot \in OcRoots /\ ocServer \in [OcTurn -> OcStates] /\ ocLogger \in OcLoggers
                 /\ ocOwed \in [OcTurn -> OcOwes] /\ ocTurn \in [OcTurn -> OcRecs]
                 /\ ocPast \in OcPasts
  BY DEF OcTypeOK, OcRoots, OcLoggers, OcPasts, OcStates, OcOwes, OcRecs

LEMMA EvictTyped ==
    ASSUME OcTypeOK, NEW root \in OcRoots, Evict(root)
    PROVE  ocRoot' \in OcRoots /\ ocServer' \in [OcTurn -> OcStates] /\ ocLogger' \in OcLoggers
<1>1. ocServer \in [OcTurn -> OcStates] /\ ocLogger \in OcLoggers
  BY OcTyped
<1>2. ocRoot' \in OcRoots
  BY ZeroIsNone DEF Evict, OcRoots
<1>3. ocServer' \in [OcTurn -> OcStates]
  BY <1>1 DEF Evict, OcStates
<1>4. ocLogger' \in OcLoggers
  BY <1>1 DEF Evict, OcLoggers
<1> QED BY <1>2, <1>3, <1>4

LEMMA FreedTyped ==
    ASSUME OcTypeOK
    PROVE  /\ [ocRoot EXCEPT !.busy = FALSE] \in OcRoots
           /\ [ocRoot EXCEPT !.busy = FALSE].server = ocRoot.server
           /\ [ocRoot EXCEPT !.busy = FALSE].channel = ocRoot.channel
           /\ [ocRoot EXCEPT !.busy = FALSE].extras = ocRoot.extras
           /\ [ocRoot EXCEPT !.busy = FALSE].busy = FALSE
<1>1. ocRoot \in OcRoots
  BY OcTyped
<1> QED BY <1>1 DEF OcRoots

LEMMA EndsTyped ==
    ASSUME OcTypeOK, NEW t \in OcTurn, NEW c \in {"0", "1"}
    PROVE  /\ Ends(ocTurn, t, c) \in [OcTurn -> OcRecs]
           /\ Ends(ocTurn, t, c)[t].pc = "ended" /\ Ends(ocTurn, t, c)[t].news = <<>>
           /\ \A v \in OcTurn : v # t => Ends(ocTurn, t, c)[v] = ocTurn[v]
<1>1. ocTurn \in [OcTurn -> OcRecs]
  BY OcTyped
<1>2. <<>> \in Seq({"idle", "error", "disposed"})
  OBVIOUS
<1>3. [pc |-> "ended", server |-> ocTurn[t].server, news |-> <<>>, exit |-> c] \in OcRecs
  BY <1>1, <1>2 DEF OcRecs
<1> QED BY <1>1, <1>3 DEF Ends

LEMMA ShortTyped ==
    ASSUME OcTypeOK, NEW t \in OcTurn, NEW b \in BOOLEAN
    PROVE  /\ Short(t, b) \in OcPasts
           /\ Short(t, b).forced = ocPast.forced /\ Short(t, b).answered = ocPast.answered
<1>1. ocPast \in OcPasts
  BY OcTyped
<1> QED BY <1>1 DEF Short, OcPasts

LEMMA AcceptsTyped ==
    ASSUME OcTypeOK, NEW s \in OcTurn \cup {0}, NEW p \in OcTurn \cup {Extra}, Accepts(s, p)
    PROVE  ocServer' \in [OcTurn -> OcStates] /\ ocOwed' \in [OcTurn -> OcOwes]
<1>1. ocServer \in [OcTurn -> OcStates] /\ ocOwed \in [OcTurn -> OcOwes]
  BY OcTyped
<1> QED BY <1>1 DEF Accepts, OcStates, OcOwes

\* The server's steps.
LEMMA ServerTyped ==
    ASSUME OcTypeOK, NEW s \in OcTurn,
           \/ AgentIdle(s) \/ AgentAsks(s) \/ AgentErrs(s) \/ IdleAfterError(s)
           \/ ServerGoes(s) \/ LoggerHears(s) \/ LoggerFails(s)
    PROVE  OcTypeOK'
<1>0. /\ ocRoot \in OcRoots /\ ocServer \in [OcTurn -> OcStates] /\ ocLogger \in OcLoggers
      /\ ocOwed \in [OcTurn -> OcOwes] /\ ocTurn \in [OcTurn -> OcRecs] /\ ocPast \in OcPasts
  BY OcTyped
<1>1. \A e \in {"idle", "error", "disposed"} : Hear(ocTurn, s, e) \in [OcTurn -> OcRecs]
  BY HearIs
<1>2. ocTurn' \in [OcTurn -> OcRecs]
  BY <1>0, <1>1 DEF AgentIdle, AgentAsks, AgentErrs, IdleAfterError, ServerGoes, LoggerHears, LoggerFails
<1>3. ocServer' \in [OcTurn -> OcStates]
  BY <1>0 DEF AgentIdle, AgentAsks, AgentErrs, IdleAfterError, ServerGoes, LoggerHears, LoggerFails, OcStates
<1>4. ocOwed' \in [OcTurn -> OcOwes]
  BY <1>0 DEF AgentIdle, AgentAsks, AgentErrs, IdleAfterError, ServerGoes, LoggerHears, LoggerFails, OcOwes
<1>5. ocLogger' \in OcLoggers /\ ocRoot' \in OcRoots
  <2>1. /\ [ocLogger EXCEPT !.on = @ \ {s}] \in OcLoggers
        /\ [on |-> ocLogger.on \ {s}, lost |-> TRUE] \in OcLoggers
    BY <1>0 DEF OcLoggers
  <2> QED
    BY <1>0, <2>1 DEF AgentIdle, AgentAsks, AgentErrs, IdleAfterError, ServerGoes, LoggerHears, LoggerFails
<1>6. ocPast' \in OcPasts
  <2>1. ocOwed[s] \ {Extra} \subseteq OcTurn
    BY <1>0 DEF OcOwes
  <2> QED
    BY <1>0, <2>1 DEF AgentIdle, AgentAsks, AgentErrs, IdleAfterError, ServerGoes, LoggerHears, LoggerFails, OcPasts
<1> QED BY <1>2, <1>3, <1>4, <1>5, <1>6 DEF OcTypeOK, OcRoots, OcLoggers, OcPasts, OcStates, OcOwes, OcRecs

\* The turn's steps.
LEMMA TurnTyped ==
    ASSUME OcTypeOK, NEW t \in OcTurn,
           \/ OcDispatch(t) \/ Booted(t) \/ Subscribes(t) \/ PromptArrives(t)
           \/ Throws(t) \/ Reads(t) \/ GivesUp(t)
    PROVE  OcTypeOK'
<1>0. /\ ocRoot \in OcRoots /\ ocServer \in [OcTurn -> OcStates] /\ ocLogger \in OcLoggers
      /\ ocOwed \in [OcTurn -> OcOwes] /\ ocTurn \in [OcTurn -> OcRecs] /\ ocPast \in OcPasts
      /\ ocTurn[t].server \in OcTurn \cup {0} /\ ocTurn[t] \in OcRecs
  BY OcTyped DEF OcRecs
<1> SUFFICES /\ ocRoot' \in OcRoots /\ ocServer' \in [OcTurn -> OcStates]
             /\ ocLogger' \in OcLoggers /\ ocOwed' \in [OcTurn -> OcOwes]
             /\ ocTurn' \in [OcTurn -> OcRecs] /\ ocPast' \in OcPasts
  BY DEF OcTypeOK, OcRoots, OcLoggers, OcPasts, OcStates, OcOwes, OcRecs
<1>1. CASE OcDispatch(t)
  <2>1. ocRoot' \in OcRoots /\ ocRoot.server \in OcTurn \cup {0}
    BY <1>0, <1>1 DEF OcDispatch, OcRoots
  <2>2. ocTurn' \in [OcTurn -> OcRecs]
    BY <1>0, <1>1, <2>1 DEF OcDispatch, OcRecs
  <2> QED BY <1>0, <1>1, <2>1, <2>2 DEF OcDispatch
<1>2. CASE Booted(t)
  <2>1. ocRoot' \in OcRoots /\ ocLogger' \in OcLoggers
    BY <1>0, <1>2 DEF Booted, OcRoots, OcLoggers
  <2>2. ocTurn' \in [OcTurn -> OcRecs]
    BY <1>0, <1>2 DEF Booted, OcRecs
  <2>3. ocServer' \in [OcTurn -> OcStates]
    BY <1>0, <1>2 DEF Booted, OcStates
  <2> QED BY <1>0, <1>2, <2>1, <2>2, <2>3 DEF Booted
<1>3. CASE Subscribes(t)
  <2>2. ocTurn' \in [OcTurn -> OcRecs]
    BY <1>0, <1>3 DEF Subscribes, OcRecs
  <2> QED BY <1>0, <1>3, <2>2 DEF Subscribes
<1>4. CASE PromptArrives(t)
  <2>1. ocServer' \in [OcTurn -> OcStates] /\ ocOwed' \in [OcTurn -> OcOwes]
    BY <1>0, <1>4, AcceptsTyped DEF PromptArrives
  <2>2. ocTurn' \in [OcTurn -> OcRecs]
    BY <1>0, <1>4 DEF PromptArrives, OcRecs
  <2> QED BY <1>0, <1>4, <2>1, <2>2 DEF PromptArrives
<1>5. CASE Throws(t)
  <2>1. ocRoot' \in OcRoots /\ ocServer' \in [OcTurn -> OcStates] /\ ocLogger' \in OcLoggers
    BY <1>5, EvictTyped, FreedTyped DEF Throws
  <2> QED BY <1>0, <1>5, <2>1, EndsTyped DEF Throws
<1>6. CASE Reads(t)
  <2>1. ocRoot' \in OcRoots /\ ocServer' \in [OcTurn -> OcStates] /\ ocLogger' \in OcLoggers
    <3>1. CASE Head(ocTurn[t].news) = "disposed"
      BY <1>6, <3>1, EvictTyped, FreedTyped DEF Reads
    <3>2. CASE Head(ocTurn[t].news) # "disposed"
      BY <1>0, <1>6, <3>2, FreedTyped DEF Reads
    <3> QED BY <3>1, <3>2
  <2> QED BY <1>0, <1>6, <2>1, EndsTyped, ShortTyped DEF Reads
<1>7. CASE GivesUp(t)
  BY <1>0, <1>7, FreedTyped, EndsTyped, ShortTyped DEF GivesUp
<1> QED BY <1>1, <1>2, <1>3, <1>4, <1>5, <1>6, <1>7

\* The steps of the loop and the host.
LEMMA OutsideTyped ==
    ASSUME OcTypeOK, ExtraPrompt \/ ForceIdle \/ CloseClient
    PROVE  OcTypeOK'
<1>0. /\ ocRoot \in OcRoots /\ ocServer \in [OcTurn -> OcStates] /\ ocLogger \in OcLoggers
      /\ ocOwed \in [OcTurn -> OcOwes] /\ ocTurn \in [OcTurn -> OcRecs] /\ ocPast \in OcPasts
      /\ ocRoot.server \in OcTurn \cup {0}
  BY OcTyped DEF OcRoots
<1> SUFFICES /\ ocRoot' \in OcRoots /\ ocServer' \in [OcTurn -> OcStates]
             /\ ocLogger' \in OcLoggers /\ ocOwed' \in [OcTurn -> OcOwes]
             /\ ocTurn' \in [OcTurn -> OcRecs] /\ ocPast' \in OcPasts
  BY DEF OcTypeOK, OcRoots, OcLoggers, OcPasts, OcStates, OcOwes, OcRecs
<1>1. CASE ExtraPrompt
  <2>1. ocRoot' \in OcRoots
    BY <1>0, <1>1, OcBounds DEF ExtraPrompt, OcRoots
  <2>2. ocServer' \in [OcTurn -> OcStates] /\ ocOwed' \in [OcTurn -> OcOwes]
    BY <1>0, <1>1, AcceptsTyped DEF ExtraPrompt
  <2> QED BY <1>0, <1>1, <2>1, <2>2 DEF ExtraPrompt
<1>2. CASE ForceIdle
  <2>1. ocRoot' \in OcRoots /\ ocServer' \in [OcTurn -> OcStates] /\ ocLogger' \in OcLoggers
    BY <1>2, EvictTyped, FreedTyped DEF ForceIdle
  <2>2. ocPast' \in OcPasts
    BY <1>0, <1>2 DEF ForceIdle, Abandons, OcPasts
  <2> QED BY <1>0, <1>2, <2>1, <2>2 DEF ForceIdle
<1>3. CASE CloseClient
  <2>1. ocRoot' \in OcRoots /\ ocServer' \in [OcTurn -> OcStates] /\ ocLogger' \in OcLoggers
    BY <1>0, <1>3, EvictTyped DEF CloseClient
  <2> QED BY <1>0, <1>3, <2>1 DEF CloseClient
<1> QED BY <1>1, <1>2, <1>3

\* All of it.
OcCore == OcTypeOK /\ OcMarked /\ Rooted /\ OcOwing

LEMMA ServerStep ==
    ASSUME OcCore, NEW s \in OcTurn,
           \/ AgentIdle(s) \/ AgentAsks(s) \/ AgentErrs(s) \/ IdleAfterError(s)
           \/ ServerGoes(s) \/ LoggerHears(s) \/ LoggerFails(s)
    PROVE  OcCore'
<1>0. /\ ocRoot \in OcRoots /\ ocServer \in [OcTurn -> OcStates] /\ ocLogger \in OcLoggers
      /\ ocOwed \in [OcTurn -> OcOwes] /\ ocTurn \in [OcTurn -> OcRecs] /\ ocPast \in OcPasts
      /\ OcTypeOK /\ OcMarked /\ Rooted /\ OcOwing
  BY OcTyped DEF OcCore
<1>1. OcTypeOK'
  BY <1>0, ServerTyped
<1>2. /\ UNCHANGED ocRoot /\ ocPast'.forced = ocPast.forced /\ ocPast.forced \subseteq OcTurn
      /\ ocPast.short \subseteq OcTurn /\ ocPast.early \subseteq OcTurn
  BY <1>0 DEF AgentIdle, AgentAsks, AgentErrs, IdleAfterError, ServerGoes, LoggerHears, LoggerFails,
              OcPasts
<1>3. \A t \in OcTurn : ocTurn'[t].pc = ocTurn[t].pc
  <2>1. \A e \in {"idle", "error", "disposed"}, t \in OcTurn : Hear(ocTurn, s, e)[t].pc = ocTurn[t].pc
    BY <1>0, HearIs
  <2> QED
    BY <2>1 DEF AgentIdle, AgentAsks, AgentErrs, IdleAfterError, ServerGoes, LoggerHears, LoggerFails
<1>4. OcMarked'
  <2>1. \A t \in OcTurn : /\ ocTurn'[t].pc = "new" <=> ocTurn[t].pc = "new"
                          /\ OcRunning(t)' <=> OcRunning(t)
    BY <1>3 DEF OcRunning
  <2> QED BY <1>0, <1>2, <2>1, MarkedStays
<1>5. Rooted'
  <2>1. \A r \in OcTurn : /\ ServerUp(r)' => ServerUp(r)
                          /\ ocServer[r] # "no" => ocServer'[r] # "no"
    BY <1>0 DEF AgentIdle, AgentAsks, AgentErrs, IdleAfterError, ServerGoes, LoggerHears, LoggerFails,
                ServerUp
  <2>2. \A r \in OcTurn : r \in ocLogger.on /\ r = ocRoot.server =>
            \/ r \in ocLogger'.on \/ ~ServerUp(r)'
            \/ ocLogger'.lost \/ ocPast.forced # {}
    <3>1. CASE AgentIdle(s) \/ AgentAsks(s) \/ AgentErrs(s) \/ IdleAfterError(s)
      BY <3>1 DEF AgentIdle, AgentAsks, AgentErrs, IdleAfterError
    <3>2. CASE ServerGoes(s)
      BY <1>0, <3>2 DEF ServerGoes, ServerUp, OcLoggers
    <3>3. CASE LoggerHears(s)
      <4> SUFFICES ASSUME NEW r \in OcTurn, r \in ocLogger.on, r = ocRoot.server, ocPast.forced = {}
                   PROVE  r \in ocLogger'.on
        OBVIOUS
      <4>1. r # 0 /\ ocRoot.channel
        BY <1>0, ZeroIsNone DEF Rooted, Channelled
      <4> QED BY <1>0, <3>3, <4>1 DEF LoggerHears, OcLoggers
    <3>4. CASE LoggerFails(s)
      BY <3>4 DEF LoggerFails
    <3> QED BY <3>1, <3>2, <3>3, <3>4
  <2>3. ocLogger.lost => ocLogger'.lost
    BY <1>0 DEF AgentIdle, AgentAsks, AgentErrs, IdleAfterError, ServerGoes, LoggerHears, LoggerFails,
                OcLoggers
  <2> QED BY <1>0, <1>2, <1>3, <2>1, <2>2, <2>3, RootedStays
<1>6. OcOwing'
  <2>1. CASE AgentIdle(s)
    BY <1>0, <2>1, OwingIdle
  <2>2. CASE AgentErrs(s)
    BY <1>0, <2>2, OwingErrs
  <2>3. CASE IdleAfterError(s)
    BY <1>0, <2>3, OwingAfter
  <2>4. CASE ServerGoes(s)
    BY <1>0, <2>4, OwingGoes
  <2>5. CASE AgentAsks(s) \/ LoggerHears(s) \/ LoggerFails(s)
    <3>1. /\ UNCHANGED <<ocRoot, ocOwed, ocTurn, ocPast>>
          /\ \A r \in OcTurn :
               /\ ocServer'[r] \in {"working", "asks"} => ocServer[r] \in {"working", "asks"}
               /\ ocServer'[r] = "erred" => ocServer[r] = "erred"
      BY <1>0, <2>5 DEF AgentAsks, LoggerHears, LoggerFails
    <3> QED BY <1>0, <1>2, <3>1, OwingStays
  <2> QED BY <2>1, <2>2, <2>3, <2>4, <2>5
<1> QED BY <1>1, <1>4, <1>5, <1>6 DEF OcCore

LEMMA BeginStep ==
    ASSUME OcCore, NEW t \in OcTurn, OcDispatch(t) \/ Booted(t) \/ Subscribes(t) \/ PromptArrives(t)
    PROVE  OcCore'
<1>0. /\ ocRoot \in OcRoots /\ ocServer \in [OcTurn -> OcStates] /\ ocLogger \in OcLoggers
      /\ ocOwed \in [OcTurn -> OcOwes] /\ ocTurn \in [OcTurn -> OcRecs] /\ ocPast \in OcPasts
      /\ OcTypeOK /\ OcMarked /\ Rooted /\ OcOwing
  BY OcTyped DEF OcCore
<1>1. OcTypeOK'
  BY <1>0, TurnTyped
<1>2. /\ UNCHANGED ocPast /\ ocPast.forced \subseteq OcTurn
      /\ ocPast.short \subseteq OcTurn /\ ocPast.early \subseteq OcTurn
  BY <1>0 DEF OcDispatch, Booted, Subscribes, PromptArrives, OcPasts
<1>3. CASE OcDispatch(t)
  <2>1. /\ ocTurn[t].pc = "new" /\ ocTurn'[t].pc \in {"boot", "have"} /\ ~ocRoot.busy /\ ocRoot'.busy
        /\ ocTurn'[t].pc = "have" => ocTurn'[t].server # 0
        /\ ocTurn'[t].news = ocTurn[t].news /\ ocRoot'.extras = ocRoot.extras
        /\ \A v \in OcTurn : v # t => ocTurn'[v] = ocTurn[v]
        /\ \A u \in 1 .. t - 1 : ocTurn[u].pc # "new"
        /\ UNCHANGED <<ocServer, ocLogger, ocOwed>>
    BY <1>0, <1>3 DEF OcDispatch, OcRoots, OcRecs
  <2>2. OcMarked'
    BY <1>0, <1>2, <2>1, MarkedBegins
  <2>3. Rooted'
    BY <1>0, <1>3, RootedBegins
  <2>4. ocTurn'[t].news = <<>>
    BY <1>0, <2>1 DEF OcOwing, News
  <2>5. OcOwing'
    BY <1>0, <1>2, <2>1, <2>4, OwingStays
  <2> QED BY <1>1, <2>2, <2>3, <2>5 DEF OcCore
<1>4. CASE Booted(t)
  <2>1. /\ ocTurn[t].pc = "boot" /\ ocTurn'[t].pc = "have" /\ ocRoot'.busy = ocRoot.busy
        /\ ocTurn'[t].server = t /\ t # 0
        /\ ocTurn'[t].news = ocTurn[t].news /\ ocRoot'.extras = ocRoot.extras
        /\ \A v \in OcTurn : v # t => ocTurn'[v] = ocTurn[v]
        /\ ocServer'[t] = "idle" /\ \A r \in OcTurn : r # t => ocServer'[r] = ocServer[r]
        /\ UNCHANGED ocOwed
    BY <1>0, <1>4, ZeroIsNone DEF Booted, OcRoots, OcRecs
  <2>2. OcMarked'
    <3>1. \A v \in OcTurn : /\ ocTurn'[v].pc = "new" <=> ocTurn[v].pc = "new"
                            /\ OcRunning(v)' <=> OcRunning(v)
      BY <2>1 DEF OcRunning
    <3> QED BY <1>0, <1>2, <2>1, <3>1, MarkedStays
  <2>3. Rooted'
    BY <1>0, <1>4, RootedBooted
  <2>4. ocTurn'[t].news = <<>>
    BY <1>0, <2>1 DEF OcOwing, News
  <2>5. OcOwing'
    BY <1>0, <1>2, <2>1, <2>4, OwingStays
  <2> QED BY <1>1, <2>2, <2>3, <2>5 DEF OcCore
<1>5. CASE Subscribes(t)
  <2>1. /\ ocTurn[t].pc = "have" /\ ocTurn'[t].pc = "sent" /\ UNCHANGED <<ocRoot, ocServer, ocLogger, ocOwed>>
        /\ ocTurn'[t].server = ocTurn[t].server /\ ocTurn'[t].news = ocTurn[t].news
        /\ \A v \in OcTurn : v # t => ocTurn'[v] = ocTurn[v]
    BY <1>0, <1>5 DEF Subscribes, OcRecs
  <2>2. OcMarked'
    <3>1. \A v \in OcTurn : /\ ocTurn'[v].pc = "new" <=> ocTurn[v].pc = "new"
                            /\ OcRunning(v)' <=> OcRunning(v)
      BY <2>1 DEF OcRunning
    <3> QED BY <1>0, <1>2, <2>1, <3>1, MarkedStays
  <2>3. Rooted'
    <3>1. \A v \in OcTurn : ocTurn'[v].pc = "boot" => ocTurn[v].pc = "boot"
      BY <2>1
    <3>2. \A r \in OcTurn : ServerUp(r)' <=> ServerUp(r)
      BY <2>1 DEF ServerUp
    <3> QED BY <1>0, <1>2, <2>1, <3>1, <3>2, RootedStays
  <2>4. ocTurn'[t].news = <<>> /\ ocTurn'[t].server # 0
    BY <1>0, <2>1 DEF OcOwing, News
  <2>5. OcOwing'
    BY <1>0, <1>2, <2>1, <2>4, OwingStays
  <2> QED BY <1>1, <2>2, <2>3, <2>5 DEF OcCore
<1>6. CASE PromptArrives(t)
  <2>1. /\ ocTurn[t].pc = "sent" /\ ocTurn'[t].pc = "waits" /\ UNCHANGED <<ocRoot, ocLogger>>
        /\ \A v \in OcTurn : v # t => ocTurn'[v] = ocTurn[v]
    BY <1>0, <1>6 DEF PromptArrives, OcRecs
  <2>2. OcMarked'
    <3>1. \A v \in OcTurn : /\ ocTurn'[v].pc = "new" <=> ocTurn[v].pc = "new"
                            /\ OcRunning(v)' <=> OcRunning(v)
      BY <2>1 DEF OcRunning
    <3> QED BY <1>0, <1>2, <2>1, <3>1, MarkedStays
  <2>3. Rooted'
    <3>1. \A v \in OcTurn : ocTurn'[v].pc = "boot" => ocTurn[v].pc = "boot"
      BY <2>1
    <3>2. \A r \in OcTurn : /\ ServerUp(r)' => ServerUp(r)
                            /\ ocServer[r] # "no" => ocServer'[r] # "no"
      BY <1>0, <1>6 DEF ServerUp, PromptArrives, Accepts
    <3> QED BY <1>0, <1>2, <2>1, <3>1, <3>2, RootedStays
  <2>4. OcOwing'
    BY <1>0, <1>6, OwingPrompt
  <2> QED BY <1>1, <2>2, <2>3, <2>4 DEF OcCore
<1> QED BY <1>3, <1>4, <1>5, <1>6

\* What an eviction does to the server's states.
LEMMA EvictDowns ==
    ASSUME OcTypeOK, NEW root \in OcRoots, Evict(root)
    PROVE  /\ ocRoot'.busy = root.busy /\ ocRoot'.extras = root.extras
           /\ \A r \in OcTurn :
                /\ ocServer'[r] \in {"working", "asks"} => ocServer[r] \in {"working", "asks"}
                /\ ocServer'[r] = "erred" => ocServer[r] = "erred"
<1>1. ocRoot'.busy = root.busy /\ ocRoot'.extras = root.extras
  BY DEF Evict, OcRoots
<1>2. \A r \in OcTurn : ocServer'[r] = "down" \/ ocServer'[r] = ocServer[r]
  BY DEF Evict
<1> QED BY <1>1, <1>2

LEMMA EndStep ==
    ASSUME OcCore, NEW t \in OcTurn, Throws(t) \/ Reads(t) \/ GivesUp(t)
    PROVE  OcCore'
<1>0. /\ ocRoot \in OcRoots /\ ocServer \in [OcTurn -> OcStates] /\ ocLogger \in OcLoggers
      /\ ocOwed \in [OcTurn -> OcOwes] /\ ocTurn \in [OcTurn -> OcRecs] /\ ocPast \in OcPasts
      /\ OcTypeOK /\ OcMarked /\ Rooted /\ OcOwing
      /\ ocPast.short \subseteq OcTurn /\ ocPast.early \subseteq OcTurn /\ ocPast.forced \subseteq OcTurn
  BY OcTyped DEF OcCore, OcPasts
<1>1. OcTypeOK'
  BY <1>0, TurnTyped
<1> DEFINE root == [ocRoot EXCEPT !.busy = FALSE]
<1>2. /\ root \in OcRoots /\ root.server = ocRoot.server /\ root.channel = ocRoot.channel
      /\ root.extras = ocRoot.extras /\ ~root.busy
  BY <1>0, FreedTyped
<1>3. PICK c \in {"0", "1"} : ocTurn' = Ends(ocTurn, t, c) /\ OcRunning(t) /\ UNCHANGED ocOwed
  BY DEF Throws, Reads, GivesUp, OcRunning
<1>4. /\ ocTurn'[t].pc = "ended" /\ ocTurn'[t].news = <<>>
      /\ \A v \in OcTurn : v # t => ocTurn'[v] = ocTurn[v]
  BY <1>0, <1>3, EndsTyped
<1>5. ocPast'.forced = ocPast.forced
  BY <1>0, ShortTyped DEF Throws, Reads, GivesUp
<1>6. Evict(root) \/ (ocRoot' = root /\ UNCHANGED <<ocServer, ocLogger>>)
  BY DEF Throws, Reads, GivesUp
<1> HIDE DEF root
<1>7. ~ocRoot'.busy /\ ocRoot'.extras = ocRoot.extras
  BY <1>0, <1>2, <1>6, EvictDowns
<1>8. \A r \in OcTurn :
         /\ ocServer'[r] \in {"working", "asks"} => ocServer[r] \in {"working", "asks"}
         /\ ocServer'[r] = "erred" => ocServer[r] = "erred"
  BY <1>0, <1>2, <1>6, EvictDowns
<1>9. OcMarked'
  BY <1>0, <1>3, <1>4, <1>5, <1>7, MarkedEnds
<1>10. Rooted'
  <2>1. \A v \in OcTurn : ocTurn'[v].pc = "boot" => ocTurn[v].pc = "boot"
    BY <1>4
  <2>2. CASE Evict(root)
    BY <1>0, <1>2, <1>5, <2>1, <2>2, RootedEvicted DEF OcRoots
  <2>3. CASE ocRoot' = root /\ UNCHANGED <<ocServer, ocLogger>>
    <3>1. \A r \in OcTurn : ServerUp(r)' <=> ServerUp(r)
      BY <2>3 DEF ServerUp
    <3> QED BY <1>0, <1>2, <1>5, <2>1, <2>3, <3>1, RootedStays
  <2> QED BY <1>6, <2>2, <2>3
<1>11. OcOwing'
  <2>1. CASE Throws(t)
    <3>1. ocTurn[t].pc \in {"boot", "have"} /\ UNCHANGED ocPast
      BY <2>1 DEF Throws
    <3> QED BY <1>0, <1>3, <1>4, <1>7, <1>8, <3>1, OwingStays
  <2>2. CASE Reads(t)
    <3> DEFINE b == Head(ocTurn[t].news) = "idle"
    <3>1. /\ ocTurn[t].pc = "waits" /\ ocTurn[t].news # <<>> /\ b \in BOOLEAN
          /\ ocPast' = Short(t, b) /\ (b => Head(ocTurn[t].news) = "idle")
      BY <2>2 DEF Reads
    <3> HIDE DEF b
    <3> QED BY <1>0, <1>3, <1>5, <1>7, <1>8, <3>1, OwingEnds
  <2>3. CASE GivesUp(t)
    <3>1. ocTurn[t].pc = "waits" /\ ocPast' = Short(t, FALSE) /\ FALSE \in BOOLEAN
      BY <2>3 DEF GivesUp
    <3> QED BY <1>0, <1>3, <1>5, <1>7, <1>8, <3>1, OwingEnds
  <2> QED BY <2>1, <2>2, <2>3
<1> QED BY <1>1, <1>9, <1>10, <1>11 DEF OcCore

LEMMA OutsideStep ==
    ASSUME OcCore, ExtraPrompt \/ ForceIdle \/ CloseClient
    PROVE  OcCore'
<1>0. /\ ocRoot \in OcRoots /\ ocServer \in [OcTurn -> OcStates] /\ ocLogger \in OcLoggers
      /\ ocOwed \in [OcTurn -> OcOwes] /\ ocTurn \in [OcTurn -> OcRecs] /\ ocPast \in OcPasts
      /\ OcTypeOK /\ OcMarked /\ Rooted /\ OcOwing
      /\ ocPast.short \subseteq OcTurn /\ ocPast.early \subseteq OcTurn /\ ocPast.forced \subseteq OcTurn
  BY OcTyped DEF OcCore, OcPasts
<1>1. OcTypeOK' /\ UNCHANGED ocTurn
  BY <1>0, OutsideTyped DEF ExtraPrompt, ForceIdle, CloseClient
<1>2. CASE ExtraPrompt
  <2>1. /\ ocRoot'.busy = ocRoot.busy /\ ocRoot'.server = ocRoot.server
        /\ ocRoot'.channel = ocRoot.channel /\ UNCHANGED <<ocLogger, ocTurn, ocPast>>
    BY <1>0, <1>2 DEF ExtraPrompt, OcRoots
  <2>2. \A r \in OcTurn : /\ ServerUp(r)' => ServerUp(r)
                          /\ ocServer[r] # "no" => ocServer'[r] # "no"
    BY <1>0, <1>2 DEF ServerUp, ExtraPrompt, Accepts
  <2>3. \A v \in OcTurn : OcRunning(v)' <=> OcRunning(v)
    BY <2>1 DEF OcRunning
  <2>4. OcMarked'
    BY <1>0, <2>1, <2>3, MarkedStays
  <2>5. Rooted'
    BY <1>0, <2>1, <2>2, RootedStays
  <2> QED BY <1>0, <1>1, <1>2, <2>4, <2>5, OwingExtra DEF OcCore
<1>3. CASE ForceIdle
  <2> DEFINE root == [ocRoot EXCEPT !.busy = FALSE]
  <2>1. /\ root \in OcRoots /\ root.server = ocRoot.server /\ root.channel = ocRoot.channel
        /\ root.extras = ocRoot.extras
    BY <1>0, FreedTyped
  <2>2. Evict(root) /\ UNCHANGED <<ocOwed, ocTurn>> /\ ocPast' = Abandons(ocTurn)
    BY <1>3 DEF ForceIdle
  <2>3. /\ ocPast'.forced = ocPast.forced \cup {v \in OcTurn : OcRunning(v)}
        /\ ocPast'.answered = ocPast.answered /\ ocPast'.early = ocPast.early
        /\ ocPast'.short = ocPast.short
    BY <1>0, <2>2 DEF Abandons, OcPasts
  <2> HIDE DEF root
  <2>4. OcMarked'
    BY <1>0, <2>2, <2>3, MarkedForced
  <2>5. Rooted'
    BY <1>0, <2>1, <2>2, <2>3, RootedEvicted DEF OcRoots
  <2>6. OcOwing'
    BY <1>0, <2>1, <2>2, <2>3, EvictDowns, OwingStays
  <2> QED BY <1>1, <2>4, <2>5, <2>6 DEF OcCore
<1>4. CASE CloseClient
  <2>1. Evict(ocRoot) /\ UNCHANGED <<ocOwed, ocTurn, ocPast>>
    BY <1>4 DEF CloseClient
  <2>2. ocRoot'.busy = ocRoot.busy /\ ocRoot'.extras = ocRoot.extras
    BY <1>0, <2>1, EvictDowns
  <2>3. \A v \in OcTurn : OcRunning(v)' <=> OcRunning(v)
    BY <2>1 DEF OcRunning
  <2>4. OcMarked'
    BY <1>0, <2>1, <2>2, <2>3, MarkedStays
  <2>5. Rooted'
    BY <1>0, <2>1, RootedEvicted DEF OcRoots
  <2>6. OcOwing'
    BY <1>0, <2>1, <2>2, EvictDowns, OwingStays
  <2> QED BY <1>1, <2>4, <2>5, <2>6 DEF OcCore
<1> QED BY <1>2, <1>3, <1>4

LEMMA OcInitial == OcInit => OcCore
<1> SUFFICES ASSUME OcInit PROVE OcCore
  OBVIOUS
<1>1. OcTypeOK
  <2>1. <<>> \in Seq({"idle", "error", "disposed"}) /\ 0 \in 0 .. MaxExtra
    BY OcBounds
  <2> QED BY <2>1 DEF OcInit, OcTypeOK
<1>2. OcMarked
  BY DEF OcInit, OcMarked, Prefix, Alone, BusyIsTrue, OcRunning
<1>3. Rooted
  BY DEF OcInit, Rooted, Boots, Channelled, ServersKnown, ServerHeard, ServerUp
<1>4. OcOwing
  BY DEF OcInit, OcOwing, Works, OwedTurns, News, OcHeard, Failed, EarlyEndComesFrom
<1> QED BY <1>1, <1>2, <1>3, <1>4 DEF OcCore

LEMMA OcCoreIsKept == OcCore /\ [OcNext]_ocVars => OcCore'
<1> SUFFICES ASSUME OcCore, [OcNext]_ocVars PROVE OcCore'
  OBVIOUS
<1>1. CASE UNCHANGED ocVars
  BY <1>1 DEF ocVars, OcCore, OcTypeOK, OcMarked, Prefix, Alone, Excused, BusyIsTrue, OcRunning, Rooted,
              Boots, Channelled, ServersKnown, ServerHeard, ServerUp, OcOwing, Works, OwedTurns,
              Unanswered, News, Quiet, OcHeard, Failed, EarlyEndComesFrom
<1>2. CASE OcNext
  BY <1>2, ServerStep, BeginStep, EndStep, OutsideStep DEF OcNext
<1> QED BY <1>1, <1>2

LEMMA OcCoreHolds == OcCore => ServerHolds
  BY DEF OcCore, OcMarked, Rooted, OcOwing, OneTurnOneServer, ServerHolds

\* A folder's busy mark, its server and the answers of its turns belong to the turn
\* that runs, whatever the number of turns, unless one was given up before
\* (opencodeSdk provider: _sendOpencodeSdkServerPrompt, forceIdleOpencodeSdk).
THEOREM ServersCorrect == OcSpec => []ServerHolds
<1> QED BY OcInitial, OcCoreIsKept, OcCoreHolds, PTL DEF OcSpec

-----------------------------------------------------------------------------
(* The sessions of copilot: listeners, timers and exit files.                *)

CpRoots == [session : CpTurn \cup {0}, busy : BOOLEAN]
CpSessions == [agent : {"none", "idle", "working", "finishing", "disposed"},
               work : SUBSET CpTurn, errored : BOOLEAN, exitFile : CpTurn \cup {0}]
CpTurns == [pc : {"new", "loads", "sends", "sent", "rejected"}, session : CpTurn \cup {0},
            handlers : BOOLEAN, timer : BOOLEAN, exit : {"none", "0", "1"}]
CpPasts == [faults : 0 .. CpMaxFaults, stale : SUBSET CpTurn, hit : SUBSET CpTurn,
            answered : SUBSET CpTurn, early : SUBSET CpTurn, overlap : SUBSET CpTurn]
CpTyped ==
    /\ cpRoot \in CpRoots /\ cpSession \in [CpTurn -> CpSessions]
    /\ cpTurn \in [CpTurn -> CpTurns] /\ cpPast \in CpPasts

\* Where a turn's coroutine is, and what hangs on its session.
CpShape ==
    /\ \A u \in CpTurn : cpTurn[u].pc \in {"new", "loads"} =>
           /\ ~cpTurn[u].timer /\ ~cpTurn[u].handlers
           /\ cpTurn[u].session = 0 /\ cpTurn[u].exit = "none"
    /\ \A u \in CpTurn :
           /\ cpTurn[u].pc \notin {"new", "loads"} => \/ cpTurn[u].session # 0
                                                      \/ cpTurn[u].pc = "rejected"
           /\ cpTurn[u].timer \/ cpTurn[u].handlers => cpTurn[u].session # 0
           /\ cpTurn[u].pc = "rejected" => cpTurn[u].exit # "none"
    /\ \A s, f \in CpTurn : cpSession[s].exitFile = f => cpTurn[f].pc \notin {"new", "loads"}
    /\ \A u, w \in CpTurn : u < w /\ cpTurn[w].pc # "new" => cpTurn[u].pc # "new"
    /\ \A u, v \in CpTurn : /\ cpTurn[u].handlers /\ cpTurn[v].handlers
                            /\ cpTurn[u].session = cpTurn[v].session
                            => u = v

\* Until a timer outlives its turn, a turn that waits has its timer, its handlers and
\* its exit file, all on the session of the folder.
CpWatched ==
    cpPast.stale = {} =>
        /\ cpPast.hit = {}
        /\ \A u \in CpTurn :
             /\ cpTurn[u].timer <=> cpTurn[u].handlers
             /\ cpTurn[u].timer => cpTurn[u].session = cpRoot.session
             /\ \A s \in CpTurn : cpTurn[u].timer /\ cpTurn[u].session = s
                                      => cpSession[s].exitFile = u
             /\ cpTurn[u].pc \in {"sends", "sent"} /\ cpTurn[u].exit = "none" => cpTurn[u].timer

\* Until one is overtaken, only the last turn waits, and it is the one that listens.
CpTurned ==
    cpPast.overlap = {} =>
        /\ \A u, w \in CpTurn : u < w /\ cpTurn[w].pc # "new" => ~Pending(u)
        /\ \A t, u \in CpTurn : /\ cpTurn[t].handlers /\ cpTurn[u].session = cpTurn[t].session
                                => u <= t

\* What an agent works on was asked of it.
CpWorked ==
    \A s \in CpTurn :
        /\ \A u \in CpTurn : u \in cpSession[s].work => cpTurn[u].session = s
        /\ cpSession[s].agent = "working" => \E u \in CpTurn : u \in cpSession[s].work
        /\ cpSession[s].agent = "finishing" =>
               \E x \in CpTurn : x \in cpPast.answered /\ cpTurn[x].session = s

CpCore == CpTyped /\ CpShape /\ CpWatched /\ CpTurned /\ CpWorked /\ EarlyComesFrom

LEMMA CpTurnInt == CpTurn \subseteq Int /\ 0 \notin CpTurn
  BY DEF CpTurn

\* A completed turn loses its handlers and its timer; the exit file gets its code.
LEMMA CompleteIs ==
    ASSUME CpTyped, NEW s \in CpTurn, NEW code \in {"0", "1"}
    PROVE  /\ Complete(s, cpTurn, code) \in [CpTurn -> CpTurns]
           /\ \A u \in CpTurn :
                /\ Complete(s, cpTurn, code)[u].pc = cpTurn[u].pc
                /\ Complete(s, cpTurn, code)[u].session = cpTurn[u].session
                /\ Complete(s, cpTurn, code)[u].handlers <=> cpTurn[u].handlers /\ u \notin Attached(s)
                /\ Complete(s, cpTurn, code)[u].timer <=> cpTurn[u].timer /\ u \notin Attached(s)
                /\ Complete(s, cpTurn, code)[u].exit =
                       IF u = cpSession[s].exitFile /\ Attached(s) # {} THEN code ELSE cpTurn[u].exit
<1> DEFINE C == Complete(s, cpTurn, code)
<1>1. ASSUME NEW u \in CpTurn
      PROVE  /\ C[u] \in CpTurns
             /\ C[u].pc = cpTurn[u].pc /\ C[u].session = cpTurn[u].session
             /\ C[u].handlers <=> cpTurn[u].handlers /\ u \notin Attached(s)
             /\ C[u].timer <=> cpTurn[u].timer /\ u \notin Attached(s)
             /\ C[u].exit = IF u = cpSession[s].exitFile /\ Attached(s) # {} THEN code ELSE cpTurn[u].exit
  <2>1. cpTurn[u] \in CpTurns
    BY DEF CpTyped
  <2> DEFINE v == IF u \in Attached(s)
                  THEN [cpTurn[u] EXCEPT !.handlers = FALSE, !.timer = FALSE] ELSE cpTurn[u]
  <2>2. /\ v \in CpTurns /\ v.pc = cpTurn[u].pc /\ v.session = cpTurn[u].session
        /\ v.handlers <=> cpTurn[u].handlers /\ u \notin Attached(s)
        /\ v.timer <=> cpTurn[u].timer /\ u \notin Attached(s)
        /\ v.exit = cpTurn[u].exit
    BY <2>1 DEF CpTurns
  <2>3. C[u] = IF u = cpSession[s].exitFile /\ Attached(s) # {} THEN [v EXCEPT !.exit = code] ELSE v
    BY DEF Complete
  <2> HIDE DEF v, C
  <2>4. CASE u = cpSession[s].exitFile /\ Attached(s) # {}
    <3>1. C[u] = [v EXCEPT !.exit = code]
      BY <2>3, <2>4
    <3> QED BY <2>2, <2>4, <3>1 DEF CpTurns
  <2>5. CASE ~(u = cpSession[s].exitFile /\ Attached(s) # {})
    BY <2>2, <2>3, <2>5
  <2> QED BY <2>4, <2>5
<1>2. C = [u \in CpTurn |-> C[u]]
  BY DEF Complete
<1> HIDE DEF C
<1>3. C \in [CpTurn -> CpTurns]
  BY <1>1, <1>2
<1> QED BY <1>1, <1>3 DEF C

\* Nothing starts.
CpCalm ==
    /\ \A u \in CpTurn :
         /\ cpTurn'[u].pc = cpTurn[u].pc /\ cpTurn'[u].session = cpTurn[u].session
         /\ cpTurn'[u].handlers => cpTurn[u].handlers
         /\ cpTurn'[u].timer => cpTurn[u].timer
         /\ cpTurn'[u].exit = cpTurn[u].exit \/ (cpTurn[u].pc \notin {"new", "loads"} /\ cpTurn'[u].exit # "none")
    /\ \A s \in CpTurn : cpSession'[s].exitFile \in {cpSession[s].exitFile, 0}
    /\ cpPast'.overlap = cpPast.overlap

LEMMA CalmShape == CpShape /\ CpCalm => CpShape'
<1> SUFFICES ASSUME CpShape, CpCalm PROVE CpShape'
  OBVIOUS
<1>1. \A u \in CpTurn : cpTurn'[u].pc \in {"new", "loads"} =>
           /\ ~cpTurn'[u].timer /\ ~cpTurn'[u].handlers
           /\ cpTurn'[u].session = 0 /\ cpTurn'[u].exit = "none"
  BY DEF CpShape, CpCalm
<1>2. \A u \in CpTurn :
           /\ cpTurn'[u].pc \notin {"new", "loads"} => cpTurn'[u].session # 0 \/ cpTurn'[u].pc = "rejected"
           /\ cpTurn'[u].timer \/ cpTurn'[u].handlers => cpTurn'[u].session # 0
           /\ cpTurn'[u].pc = "rejected" => cpTurn'[u].exit # "none"
  BY DEF CpShape, CpCalm
<1>3. \A s, f \in CpTurn : cpSession'[s].exitFile = f => cpTurn'[f].pc \notin {"new", "loads"}
  BY CpTurnInt DEF CpShape, CpCalm
<1>4. \A u, w \in CpTurn : u < w /\ cpTurn'[w].pc # "new" => cpTurn'[u].pc # "new"
  BY DEF CpShape, CpCalm
<1>5. \A u, v \in CpTurn : /\ cpTurn'[u].handlers /\ cpTurn'[v].handlers
                           /\ cpTurn'[u].session = cpTurn'[v].session
                           => u = v
  BY DEF CpShape, CpCalm
<1> QED BY <1>1, <1>2, <1>3, <1>4, <1>5 DEF CpShape

LEMMA CalmTurned == CpTurned /\ CpCalm => CpTurned'
<1> SUFFICES ASSUME CpTurned, CpCalm PROVE CpTurned'
  OBVIOUS
<1>1. \A u \in CpTurn : Pending(u)' => Pending(u)
  BY DEF CpCalm, Pending
<1> QED BY <1>1 DEF CpTurned, CpCalm

\* No new early end, and nobody forgets an exit file.
LEMMA EarlyStays ==
    ASSUME CpTyped, EarlyComesFrom, cpPast'.early = cpPast.early,
           cpPast.overlap \subseteq cpPast'.overlap,
           \A u \in CpTurn : cpTurn[u].exit # "none" => cpTurn'[u].exit # "none"
    PROVE  EarlyComesFrom'
<1>1. cpPast.early \subseteq CpTurn
  BY DEF CpTyped, CpPasts
<1>2. \A x \in cpPast.early : \A u \in 1 .. x - 1 : u \in CpTurn
  BY <1>1, CpBounds DEF CpTurn
<1>3. \A x \in cpPast.early : cpPast.overlap # {} \/ \E u \in 1 .. x - 1 : cpTurn[u].exit # "none"
  BY DEF EarlyComesFrom
<1> QED BY <1>2, <1>3 DEF EarlyComesFrom

\* Nobody hangs up, takes down or answers anything.
LEMMA WatchedStays ==
    ASSUME CpWatched, cpPast'.stale = cpPast.stale, cpPast'.hit = cpPast.hit,
           cpRoot'.session = cpRoot.session,
           \A u \in CpTurn :
               /\ cpTurn'[u].timer = cpTurn[u].timer /\ cpTurn'[u].handlers = cpTurn[u].handlers
               /\ cpTurn'[u].session = cpTurn[u].session
               /\ cpTurn'[u].pc \in {"sends", "sent"} /\ cpTurn'[u].exit = "none" =>
                      cpTurn[u].pc \in {"sends", "sent"} /\ cpTurn[u].exit = "none",
           \A r \in CpTurn : cpSession'[r].exitFile = cpSession[r].exitFile
    PROVE  CpWatched'
<1> SUFFICES ASSUME cpPast.stale = {}
             PROVE  /\ cpPast'.hit = {}
                    /\ \A u \in CpTurn :
                         /\ cpTurn'[u].timer <=> cpTurn'[u].handlers
                         /\ cpTurn'[u].timer => cpTurn'[u].session = cpRoot'.session
                         /\ \A r \in CpTurn : cpTurn'[u].timer /\ cpTurn'[u].session = r
                                                  => cpSession'[r].exitFile = u
                         /\ cpTurn'[u].pc \in {"sends", "sent"} /\ cpTurn'[u].exit = "none"
                              => cpTurn'[u].timer
  BY DEF CpWatched
<1>1. /\ cpPast.hit = {}
      /\ \A u \in CpTurn :
           /\ cpTurn[u].timer <=> cpTurn[u].handlers
           /\ cpTurn[u].timer => cpTurn[u].session = cpRoot.session
           /\ \A r \in CpTurn : cpTurn[u].timer /\ cpTurn[u].session = r
                                    => cpSession[r].exitFile = u
           /\ cpTurn[u].pc \in {"sends", "sent"} /\ cpTurn[u].exit = "none" => cpTurn[u].timer
  BY DEF CpWatched
<1> QED BY <1>1

\* Whoever stops has nothing left to do.
LEMMA WorkedRests ==
    ASSUME CpWorked, \A u \in CpTurn : cpTurn'[u].session = cpTurn[u].session,
           cpPast.answered \subseteq cpPast'.answered,
           \A r \in CpTurn :
               \/ cpSession'[r].agent = cpSession[r].agent /\ cpSession'[r].work = cpSession[r].work
               \/ cpSession'[r].agent \notin {"working", "finishing"} /\ cpSession'[r].work = {}
    PROVE  CpWorked'
<1> SUFFICES ASSUME NEW r \in CpTurn
             PROVE  /\ \A u \in CpTurn : u \in cpSession'[r].work => cpTurn'[u].session = r
                    /\ cpSession'[r].agent = "working" => \E u \in CpTurn : u \in cpSession'[r].work
                    /\ cpSession'[r].agent = "finishing" =>
                         \E x \in CpTurn : x \in cpPast'.answered /\ cpTurn'[x].session = r
  BY DEF CpWorked
<1>1. /\ \A u \in CpTurn : u \in cpSession[r].work => cpTurn[u].session = r
      /\ cpSession[r].agent = "working" => \E u \in CpTurn : u \in cpSession[r].work
      /\ cpSession[r].agent = "finishing" =>
           \E x \in CpTurn : x \in cpPast.answered /\ cpTurn[x].session = r
  BY DEF CpWorked
<1>2. CASE cpSession'[r].agent = cpSession[r].agent /\ cpSession'[r].work = cpSession[r].work
  BY <1>1, <1>2
<1>3. CASE cpSession'[r].agent \notin {"working", "finishing"} /\ cpSession'[r].work = {}
  BY <1>3
<1> QED BY <1>2, <1>3

LEMMA CpDispatchStep ==
    ASSUME CpCore, NEW t \in CpTurn, CpDispatch(t)
    PROVE  CpCore'
<1>0. /\ cpRoot \in CpRoots /\ cpSession \in [CpTurn -> CpSessions] /\ cpTurn \in [CpTurn -> CpTurns]
      /\ cpPast \in CpPasts /\ CpTurn \subseteq Int /\ 0 \notin CpTurn
      /\ CpShape /\ CpWatched /\ CpTurned /\ CpWorked /\ EarlyComesFrom
  BY CpTurnInt DEF CpCore, CpTyped
<1>1. /\ cpTurn[t].pc = "new" /\ cpTurn'[t].pc = "loads" /\ cpTurn'[t].session = cpTurn[t].session
      /\ cpTurn'[t].handlers = cpTurn[t].handlers /\ cpTurn'[t].timer = cpTurn[t].timer
      /\ cpTurn'[t].exit = cpTurn[t].exit /\ \A u \in CpTurn : u # t => cpTurn'[u] = cpTurn[u]
      /\ cpRoot'.session = cpRoot.session /\ UNCHANGED cpSession
      /\ \A u \in CpTurn : u < t => cpTurn[u].pc # "new"
  <2>1. \A u \in CpTurn : u < t => u \in 1 .. t - 1
    BY DEF CpTurn
  <2> QED BY <1>0, <2>1 DEF CpDispatch, CpRoots, CpTurns
<1>2. /\ cpPast'.overlap = cpPast.overlap \cup {u \in CpTurn : Pending(u)}
      /\ cpPast'.stale = cpPast.stale /\ cpPast'.hit = cpPast.hit
      /\ cpPast'.answered = cpPast.answered /\ cpPast'.early = cpPast.early
      /\ cpPast' \in CpPasts
  BY <1>0 DEF CpDispatch, CpPasts
<1>3. CpTyped'
  <2>1. cpRoot' \in CpRoots /\ cpTurn' \in [CpTurn -> CpTurns]
    BY <1>0 DEF CpDispatch, CpRoots, CpTurns
  <2> QED BY <1>0, <1>1, <1>2, <2>1 DEF CpTyped
<1>4. CpShape'
  BY <1>0, <1>1 DEF CpShape
<1>5. CpWatched'
  <2>1. \A u \in CpTurn :
          /\ cpTurn'[u].timer = cpTurn[u].timer /\ cpTurn'[u].handlers = cpTurn[u].handlers
          /\ cpTurn'[u].session = cpTurn[u].session
          /\ cpTurn'[u].pc \in {"sends", "sent"} => cpTurn'[u] = cpTurn[u]
    BY <1>1
  <2> QED BY <1>0, <1>1, <1>2, <2>1, WatchedStays
<1>6. CpTurned'
  <2> SUFFICES ASSUME cpPast'.overlap = {}
               PROVE  /\ \A u, w \in CpTurn : u < w /\ cpTurn'[w].pc # "new" => ~Pending(u)'
                      /\ \A r, u \in CpTurn : /\ cpTurn'[r].handlers /\ cpTurn'[u].session = cpTurn'[r].session
                                              => u <= r
    BY DEF CpTurned
  <2>1. cpPast.overlap = {} /\ \A u \in CpTurn : ~Pending(u)
    BY <1>2
  <2>2. \A u \in CpTurn : u # t => ~Pending(u)'
    BY <1>1, <2>1 DEF Pending
  <2>3. \A w \in CpTurn : t < w => cpTurn'[w].pc = "new"
    BY <1>0, <1>1 DEF CpShape
  <2>4. \A r, u \in CpTurn : cpTurn'[r].handlers /\ cpTurn'[u].session = cpTurn'[r].session => u <= r
    BY <1>0, <1>1, <2>1 DEF CpTurned
  <2> QED BY <2>2, <2>3, <2>4
<1>7. CpWorked'
  <2>1. \A u \in CpTurn : cpTurn'[u].session = cpTurn[u].session
    BY <1>1
  <2> QED BY <1>0, <1>1, <1>2, <2>1, WorkedRests
<1>8. EarlyComesFrom'
  <2>1. \A u \in CpTurn : cpTurn'[u].exit = cpTurn[u].exit
    BY <1>1
  <2>2. CpTyped
    BY DEF CpCore
  <2> QED BY <1>0, <1>2, <2>1, <2>2, EarlyStays
<1> QED BY <1>3, <1>4, <1>5, <1>6, <1>7, <1>8 DEF CpCore

LEMMA CpLoadFailsStep ==
    ASSUME CpCore, NEW t \in CpTurn, CpLoadFails(t)
    PROVE  CpCore'
<1>0. /\ cpRoot \in CpRoots /\ cpSession \in [CpTurn -> CpSessions] /\ cpTurn \in [CpTurn -> CpTurns]
      /\ cpPast \in CpPasts /\ CpTurn \subseteq Int /\ 0 \notin CpTurn /\ CpTyped
      /\ CpShape /\ CpWatched /\ CpTurned /\ CpWorked /\ EarlyComesFrom
  BY CpTurnInt DEF CpCore, CpTyped
<1>1. /\ cpTurn[t].pc = "loads" /\ cpTurn'[t].pc = "rejected" /\ cpTurn'[t].session = cpTurn[t].session
      /\ cpTurn'[t].handlers = cpTurn[t].handlers /\ cpTurn'[t].timer = cpTurn[t].timer
      /\ cpTurn'[t].exit = "1" /\ \A u \in CpTurn : u # t => cpTurn'[u] = cpTurn[u]
      /\ cpRoot'.session = cpRoot.session /\ UNCHANGED <<cpSession, cpPast>>
  BY <1>0 DEF CpLoadFails, CpRoots, CpTurns
<1>3. CpTyped'
  <2>0. cpRoot' \in CpRoots
    BY <1>0 DEF CpLoadFails, CpRoots
  <2>1. cpTurn' \in [CpTurn -> CpTurns]
    <3>1. cpTurn[t] \in CpTurns
      BY <1>0
    <3>2. [[cpTurn[t] EXCEPT !.pc = "rejected"] EXCEPT !.exit = "1"] \in CpTurns
      BY <3>1 DEF CpTurns
    <3>3. cpTurn'[t] = [[cpTurn[t] EXCEPT !.pc = "rejected"] EXCEPT !.exit = "1"]
      BY <1>0 DEF CpLoadFails
    <3>4. cpTurn' = [u \in CpTurn |-> IF u = t THEN cpTurn'[t] ELSE cpTurn[u]]
      BY <1>0 DEF CpLoadFails
    <3> QED BY <1>0, <3>2, <3>3, <3>4
  <2> QED BY <1>0, <1>1, <2>0, <2>1 DEF CpTyped
<1>4. CpShape'
  BY <1>0, <1>1 DEF CpShape
<1>5. CpWatched'
  <2>1. \A u \in CpTurn :
          /\ cpTurn'[u].timer = cpTurn[u].timer /\ cpTurn'[u].handlers = cpTurn[u].handlers
          /\ cpTurn'[u].session = cpTurn[u].session
          /\ cpTurn'[u].pc \in {"sends", "sent"} => cpTurn'[u] = cpTurn[u]
    BY <1>1
  <2> QED BY <1>0, <1>1, <2>1, WatchedStays
<1>6. CpTurned'
  <2>1. \A u \in CpTurn : Pending(u)' => Pending(u)
    BY <1>1 DEF Pending
  <2> QED BY <1>0, <1>1, <2>1 DEF CpTurned
<1>7. CpWorked'
  <2>1. \A u \in CpTurn : cpTurn'[u].session = cpTurn[u].session
    BY <1>1
  <2> QED BY <1>0, <1>1, <2>1, WorkedRests
<1>8. EarlyComesFrom'
  BY <1>0, <1>1, EarlyStays
<1> QED BY <1>3, <1>4, <1>5, <1>6, <1>7, <1>8 DEF CpCore

LEMMA CpSentStep ==
    ASSUME CpCore, NEW t \in CpTurn, CpSent(t)
    PROVE  CpCore'
<1>0. /\ cpRoot \in CpRoots /\ cpSession \in [CpTurn -> CpSessions] /\ cpTurn \in [CpTurn -> CpTurns]
      /\ cpPast \in CpPasts /\ CpTurn \subseteq Int /\ 0 \notin CpTurn /\ CpTyped
      /\ CpShape /\ CpWatched /\ CpTurned /\ CpWorked /\ EarlyComesFrom
  BY CpTurnInt DEF CpCore, CpTyped
<1>1. /\ cpTurn[t].pc = "sends" /\ cpTurn'[t].pc = "sent" /\ cpTurn'[t].session = cpTurn[t].session
      /\ cpTurn'[t].handlers = cpTurn[t].handlers /\ cpTurn'[t].timer = cpTurn[t].timer
      /\ cpTurn'[t].exit = cpTurn[t].exit /\ \A u \in CpTurn : u # t => cpTurn'[u] = cpTurn[u]
      /\ UNCHANGED <<cpRoot, cpPast>>
  BY <1>0 DEF CpSent, CpTurns
<1>2. PICK s \in CpTurn : s = cpTurn[t].session
  <2>1. cpTurn[t].session \in CpTurn \cup {0} /\ cpTurn[t].session # 0
    BY <1>0, <1>1 DEF CpTurns, CpShape
  <2> QED BY <2>1
<1>9. /\ cpSession'[s].work = cpSession[s].work \cup {t}
      /\ cpSession'[s].agent = IF cpSession[s].agent = "idle" THEN "working" ELSE cpSession[s].agent
      /\ cpSession'[s].exitFile = cpSession[s].exitFile
      /\ \A r \in CpTurn : r # s => cpSession'[r] = cpSession[r]
      /\ cpSession' \in [CpTurn -> CpSessions]
  BY <1>0, <1>2 DEF CpSent, CpSessions
<1>3. CpTyped'
  <2>1. cpTurn' \in [CpTurn -> CpTurns]
    BY <1>0 DEF CpSent, CpTurns
  <2> QED BY <1>0, <1>1, <1>9, <2>1 DEF CpTyped
<1>10. \A r \in CpTurn : cpSession'[r].exitFile = cpSession[r].exitFile
  BY <1>9
<1>4. CpShape'
  BY <1>0, <1>1, <1>10 DEF CpShape
<1>5. CpWatched'
  <2>1. \A u \in CpTurn :
          /\ cpTurn'[u].timer = cpTurn[u].timer /\ cpTurn'[u].handlers = cpTurn[u].handlers
          /\ cpTurn'[u].session = cpTurn[u].session /\ cpTurn'[u].exit = cpTurn[u].exit
          /\ cpTurn'[u].pc \in {"sends", "sent"} => cpTurn[u].pc \in {"sends", "sent"}
    BY <1>1
  <2> QED BY <1>0, <1>1, <1>10, <2>1, WatchedStays
<1>6. CpTurned'
  <2>1. \A u \in CpTurn : Pending(u)' => Pending(u)
    BY <1>1 DEF Pending
  <2> QED BY <1>0, <1>1, <2>1 DEF CpTurned
<1>7. CpWorked'
  <2> SUFFICES ASSUME NEW r \in CpTurn
               PROVE  /\ \A u \in CpTurn : u \in cpSession'[r].work => cpTurn'[u].session = r
                      /\ cpSession'[r].agent = "working" => \E u \in CpTurn : u \in cpSession'[r].work
                      /\ cpSession'[r].agent = "finishing" =>
                           \E x \in CpTurn : x \in cpPast'.answered /\ cpTurn'[x].session = r
    BY DEF CpWorked
  <2>0. \A u \in CpTurn : cpTurn'[u].session = cpTurn[u].session
    BY <1>1
  <2>1. CASE r # s
    <3>1. cpSession'[r] = cpSession[r] /\ cpPast' = cpPast
      BY <1>1, <1>9, <2>1
    <3>2. /\ \A u \in CpTurn : u \in cpSession[r].work => cpTurn[u].session = r
          /\ cpSession[r].agent = "working" => \E u \in CpTurn : u \in cpSession[r].work
          /\ cpSession[r].agent = "finishing" =>
               \E x \in CpTurn : x \in cpPast.answered /\ cpTurn[x].session = r
      BY <1>0 DEF CpWorked
    <3> QED BY <2>0, <3>1, <3>2
  <2>2. CASE r = s
    BY <1>0, <1>1, <1>2, <1>9, <2>0, <2>2 DEF CpWorked
  <2> QED BY <2>1, <2>2
<1>8. EarlyComesFrom'
  <2>1. \A u \in CpTurn : cpTurn'[u].exit = cpTurn[u].exit
    BY <1>1
  <2> QED BY <1>0, <1>1, <2>1, EarlyStays
<1> QED BY <1>3, <1>4, <1>5, <1>6, <1>7, <1>8 DEF CpCore

LEMMA CpRejectsStep ==
    ASSUME CpCore, NEW t \in CpTurn, CpSendRejects(t)
    PROVE  CpCore'
<1>0. /\ cpRoot \in CpRoots /\ cpSession \in [CpTurn -> CpSessions] /\ cpTurn \in [CpTurn -> CpTurns]
      /\ cpPast \in CpPasts /\ CpTurn \subseteq Int /\ 0 \notin CpTurn /\ CpTyped
      /\ CpShape /\ CpWatched /\ CpTurned /\ CpWorked /\ EarlyComesFrom
  BY CpTurnInt DEF CpCore, CpTyped
<1>1. /\ cpTurn[t].pc = "sends" /\ cpTurn'[t].pc = "rejected" /\ cpTurn'[t].session = cpTurn[t].session
      /\ cpTurn'[t].handlers = cpTurn[t].handlers /\ cpTurn'[t].timer = cpTurn[t].timer
      /\ cpTurn'[t].exit = "1" /\ \A u \in CpTurn : u # t => cpTurn'[u] = cpTurn[u]
      /\ UNCHANGED cpSession
  BY <1>0 DEF CpSendRejects, CpTurns
<1>2. /\ cpPast'.stale = cpPast.stale \cup {t} /\ cpPast'.overlap = cpPast.overlap
      /\ cpPast'.answered = cpPast.answered /\ cpPast'.early = cpPast.early
      /\ cpPast' \in CpPasts
  <2>1. cpPast.faults \in 0 .. CpMaxFaults
    BY <1>0 DEF CpPasts
  <2>2. (IF Live(cpTurn[t].session) THEN cpPast.faults + 1 ELSE cpPast.faults) \in 0 .. CpMaxFaults
    BY <2>1, CpBounds DEF CpSendRejects
  <2> QED BY <1>0, <2>2 DEF CpSendRejects, CpPasts
<1>3. CpTyped'
  <2>0. cpRoot' \in CpRoots
    BY <1>0 DEF CpSendRejects, CpRoots
  <2>1. cpTurn' \in [CpTurn -> CpTurns]
    <3>1. cpTurn[t] \in CpTurns
      BY <1>0
    <3>2. [[cpTurn[t] EXCEPT !.pc = "rejected"] EXCEPT !.exit = "1"] \in CpTurns
      BY <3>1 DEF CpTurns
    <3>3. cpTurn'[t] = [[cpTurn[t] EXCEPT !.pc = "rejected"] EXCEPT !.exit = "1"]
      BY <1>0 DEF CpSendRejects
    <3>4. cpTurn' = [u \in CpTurn |-> IF u = t THEN cpTurn'[t] ELSE cpTurn[u]]
      BY <1>0 DEF CpSendRejects
    <3> QED BY <1>0, <3>2, <3>3, <3>4
  <2> QED BY <1>0, <1>1, <1>2, <2>0, <2>1 DEF CpTyped
<1>4. CpShape'
  <2>0. cpTurn[t].session # 0
    BY <1>0, <1>1 DEF CpShape
  <2>1. \A u \in CpTurn : cpTurn'[u].pc \in {"new", "loads"} =>
           /\ ~cpTurn'[u].timer /\ ~cpTurn'[u].handlers
           /\ cpTurn'[u].session = 0 /\ cpTurn'[u].exit = "none"
    BY <1>0, <1>1 DEF CpShape
  <2>2. \A u \in CpTurn :
           /\ cpTurn'[u].pc \notin {"new", "loads"} => cpTurn'[u].session # 0 \/ cpTurn'[u].pc = "rejected"
           /\ cpTurn'[u].timer \/ cpTurn'[u].handlers => cpTurn'[u].session # 0
           /\ cpTurn'[u].pc = "rejected" => cpTurn'[u].exit # "none"
    BY <1>0, <1>1, <2>0 DEF CpShape
  <2>3. \A r, f \in CpTurn : cpSession'[r].exitFile = f => cpTurn'[f].pc \notin {"new", "loads"}
    BY <1>0, <1>1 DEF CpShape
  <2>4. \A u, w \in CpTurn : u < w /\ cpTurn'[w].pc # "new" => cpTurn'[u].pc # "new"
    BY <1>0, <1>1 DEF CpShape
  <2>5. \A u, v \in CpTurn : /\ cpTurn'[u].handlers /\ cpTurn'[v].handlers
                             /\ cpTurn'[u].session = cpTurn'[v].session
                             => u = v
    <3>1. \A u \in CpTurn : /\ cpTurn'[u].handlers = cpTurn[u].handlers
                            /\ cpTurn'[u].session = cpTurn[u].session
      BY <1>1
    <3> QED BY <1>0, <3>1 DEF CpShape
  <2> QED BY <2>1, <2>2, <2>3, <2>4, <2>5 DEF CpShape
<1>5. CpWatched'
  BY <1>2 DEF CpWatched
<1>6. CpTurned'
  <2>1. \A u \in CpTurn : Pending(u)' => Pending(u)
    BY <1>1 DEF Pending
  <2> QED BY <1>0, <1>1, <1>2, <2>1 DEF CpTurned
<1>7. CpWorked'
  <2>1. \A u \in CpTurn : cpTurn'[u].session = cpTurn[u].session
    BY <1>1
  <2> QED BY <1>0, <1>1, <1>2, <2>1, WorkedRests
<1>8. EarlyComesFrom'
  BY <1>0, <1>1, <1>2, EarlyStays
<1> QED BY <1>3, <1>4, <1>5, <1>6, <1>7, <1>8 DEF CpCore

\* A turn hangs itself up on the session and takes the last one's handlers down.
LEMMA CpAttachesStep ==
    ASSUME CpCore, NEW t \in CpTurn, CpAttaches(t)
    PROVE  CpCore'
<1>0. /\ cpRoot \in CpRoots /\ cpSession \in [CpTurn -> CpSessions] /\ cpTurn \in [CpTurn -> CpTurns]
      /\ cpPast \in CpPasts /\ CpTurn \subseteq Int /\ 0 \notin CpTurn /\ CpTyped
      /\ CpShape /\ CpWatched /\ CpTurned /\ CpWorked /\ EarlyComesFrom
  BY CpTurnInt DEF CpCore, CpTyped
<1>1. PICK s \in CpTurn : s = (IF cpRoot.session = 0 THEN t ELSE cpRoot.session)
  BY <1>0 DEF CpRoots
<1>2. /\ cpTurn[t].pc = "loads" /\ cpRoot' = [cpRoot EXCEPT !.session = s]
      /\ cpSession' = [cpSession EXCEPT ![s] =
             [agent |-> IF @.agent = "none" THEN "idle" ELSE @.agent, work |-> @.work,
              errored |-> FALSE, exitFile |-> t]]
      /\ cpTurn' = [u \in CpTurn |->
             IF u = t THEN [pc |-> "sends", session |-> s, handlers |-> TRUE,
                            timer |-> TRUE, exit |-> "none"]
             ELSE IF u \in Attached(s) THEN [cpTurn[u] EXCEPT !.handlers = FALSE] ELSE cpTurn[u]]
      /\ cpPast' = [cpPast EXCEPT !.stale = @ \cup {u \in Attached(s) : cpTurn[u].timer}]
  BY <1>1 DEF CpAttaches
<1>3. /\ cpTurn'[t].pc = "sends" /\ cpTurn'[t].session = s /\ cpTurn'[t].handlers
      /\ cpTurn'[t].timer /\ cpTurn'[t].exit = "none" /\ cpTurn'[t] \in CpTurns
  BY <1>2 DEF CpTurns
<1>4. \A u \in CpTurn : u # t =>
         /\ cpTurn'[u].pc = cpTurn[u].pc /\ cpTurn'[u].session = cpTurn[u].session
         /\ cpTurn'[u].handlers <=> cpTurn[u].handlers /\ cpTurn[u].session # s
         /\ cpTurn'[u].timer = cpTurn[u].timer /\ cpTurn'[u].exit = cpTurn[u].exit
         /\ cpTurn'[u] \in CpTurns
  <2> SUFFICES ASSUME NEW u \in CpTurn, u # t
               PROVE  /\ cpTurn'[u].pc = cpTurn[u].pc /\ cpTurn'[u].session = cpTurn[u].session
                      /\ cpTurn'[u].handlers <=> cpTurn[u].handlers /\ cpTurn[u].session # s
                      /\ cpTurn'[u].timer = cpTurn[u].timer /\ cpTurn'[u].exit = cpTurn[u].exit
                      /\ cpTurn'[u] \in CpTurns
    OBVIOUS
  <2>0. cpTurn[u] \in CpTurns
    BY <1>0
  <2>1. CASE u \in Attached(s)
    <3>1. cpTurn'[u] = [cpTurn[u] EXCEPT !.handlers = FALSE]
      BY <1>2, <2>1
    <3> QED BY <2>0, <2>1, <3>1 DEF Attached, CpTurns
  <2>2. CASE u \notin Attached(s)
    <3>1. cpTurn'[u] = cpTurn[u]
      BY <1>2, <2>2
    <3> QED BY <2>0, <2>2, <3>1 DEF Attached
  <2> QED BY <2>1, <2>2
<1>5. /\ cpSession' \in [CpTurn -> CpSessions] /\ cpSession'[s].work = cpSession[s].work
      /\ cpSession'[s].agent = IF cpSession[s].agent = "none" THEN "idle" ELSE cpSession[s].agent
      /\ cpSession'[s].exitFile = t /\ \A r \in CpTurn : r # s => cpSession'[r] = cpSession[r]
  BY <1>0, <1>2 DEF CpSessions
<1>6. /\ cpPast'.stale = cpPast.stale \cup {u \in Attached(s) : cpTurn[u].timer}
      /\ cpPast'.overlap = cpPast.overlap /\ cpPast'.hit = cpPast.hit
      /\ cpPast'.answered = cpPast.answered /\ cpPast'.early = cpPast.early
      /\ cpPast' \in CpPasts /\ cpRoot' \in CpRoots /\ cpRoot'.session = s
  BY <1>0, <1>2 DEF CpPasts, CpRoots, Attached
<1>7. CpTyped'
  <2>1. cpTurn' = [u \in CpTurn |-> cpTurn'[u]]
    BY <1>2
  <2>2. cpTurn' \in [CpTurn -> CpTurns]
    BY <1>3, <1>4, <2>1
  <2> QED BY <1>5, <1>6, <2>2 DEF CpTyped
<1>8. CpShape'
  <2>0. s # 0 /\ cpTurn[t].session = 0 /\ cpTurn[t].exit = "none" /\ ~cpTurn[t].handlers /\ ~cpTurn[t].timer
    BY <1>0, <1>2 DEF CpShape
  <2>1. \A u \in CpTurn : cpTurn'[u].pc \in {"new", "loads"} =>
           /\ ~cpTurn'[u].timer /\ ~cpTurn'[u].handlers
           /\ cpTurn'[u].session = 0 /\ cpTurn'[u].exit = "none"
    BY <1>0, <1>3, <1>4 DEF CpShape
  <2>2. \A u \in CpTurn :
           /\ cpTurn'[u].pc \notin {"new", "loads"} => cpTurn'[u].session # 0 \/ cpTurn'[u].pc = "rejected"
           /\ cpTurn'[u].timer \/ cpTurn'[u].handlers => cpTurn'[u].session # 0
           /\ cpTurn'[u].pc = "rejected" => cpTurn'[u].exit # "none"
    BY <1>0, <1>3, <1>4, <2>0 DEF CpShape
  <2>3. \A r, f \in CpTurn : cpSession'[r].exitFile = f => cpTurn'[f].pc \notin {"new", "loads"}
    BY <1>0, <1>3, <1>4, <1>5 DEF CpShape
  <2>4. \A u, w \in CpTurn : u < w /\ cpTurn'[w].pc # "new" => cpTurn'[u].pc # "new"
    BY <1>0, <1>2, <1>3, <1>4 DEF CpShape
  <2>5. \A u, v \in CpTurn : /\ cpTurn'[u].handlers /\ cpTurn'[v].handlers
                             /\ cpTurn'[u].session = cpTurn'[v].session
                             => u = v
    BY <1>0, <1>3, <1>4 DEF CpShape
  <2> QED BY <2>1, <2>2, <2>3, <2>4, <2>5 DEF CpShape
<1>9. CpWatched'
  <2> SUFFICES ASSUME cpPast'.stale = {}
               PROVE  /\ cpPast'.hit = {}
                      /\ \A u \in CpTurn :
                           /\ cpTurn'[u].timer <=> cpTurn'[u].handlers
                           /\ cpTurn'[u].timer => cpTurn'[u].session = cpRoot'.session
                           /\ \A r \in CpTurn : cpTurn'[u].timer /\ cpTurn'[u].session = r
                                                    => cpSession'[r].exitFile = u
                           /\ cpTurn'[u].pc \in {"sends", "sent"} /\ cpTurn'[u].exit = "none"
                                => cpTurn'[u].timer
    BY DEF CpWatched
  <2>1. cpPast.stale = {} /\ \A u \in CpTurn : ~(cpTurn[u].handlers /\ cpTurn[u].session = s /\ cpTurn[u].timer)
    BY <1>6 DEF Attached
  <2>2. \A u \in CpTurn : ~cpTurn[u].timer /\ ~cpTurn[u].handlers
    <3> SUFFICES ASSUME NEW u \in CpTurn, cpTurn[u].timer PROVE FALSE
      BY <1>0, <2>1 DEF CpWatched
    <3>1. cpTurn[u].handlers /\ cpTurn[u].session = cpRoot.session /\ cpTurn[u].session # 0
      BY <1>0, <2>1 DEF CpWatched, CpShape
    <3> QED BY <1>1, <2>1, <3>1
  <2>3. \A u \in CpTurn : u # t => ~cpTurn'[u].timer /\ ~cpTurn'[u].handlers
    BY <1>4, <2>2
  <2>4. \A u \in CpTurn : u # t =>
            ~(cpTurn'[u].pc \in {"sends", "sent"} /\ cpTurn'[u].exit = "none")
    BY <1>0, <1>4, <2>1, <2>2 DEF CpWatched
  <2>5. cpPast'.hit = {}
    BY <1>0, <1>6, <2>1 DEF CpWatched
  <2> QED BY <1>3, <1>5, <1>6, <2>3, <2>4, <2>5
<1>10. CpTurned'
  <2> SUFFICES ASSUME cpPast'.overlap = {}
               PROVE  /\ \A u, w \in CpTurn : u < w /\ cpTurn'[w].pc # "new" => ~Pending(u)'
                      /\ \A r, u \in CpTurn : /\ cpTurn'[r].handlers /\ cpTurn'[u].session = cpTurn'[r].session
                                              => u <= r
    BY DEF CpTurned
  <2>1. /\ \A u, w \in CpTurn : u < w /\ cpTurn[w].pc # "new" => ~Pending(u)
        /\ \A r, u \in CpTurn : cpTurn[r].handlers /\ cpTurn[u].session = cpTurn[r].session => u <= r
    BY <1>0, <1>6 DEF CpTurned
  <2>2. \A u \in CpTurn : (Pending(u)' => Pending(u)) /\ (cpTurn'[u].pc = "new" <=> cpTurn[u].pc = "new")
    <3>1. Pending(t)
      BY <1>0, <1>2 DEF Pending, CpShape
    <3> QED BY <1>2, <1>3, <1>4, <3>1 DEF Pending
  <2>3. \A w \in CpTurn : t < w => cpTurn[w].pc = "new"
    <3>1. Pending(t)
      BY <1>0, <1>2 DEF Pending, CpShape
    <3> QED BY <2>1, <3>1
  <2>4. \A u \in CpTurn : cpTurn'[u].session = s => u <= t
    <3>1. \A u \in CpTurn : u # t /\ cpTurn[u].session = s => cpTurn[u].pc # "new"
      BY <1>0 DEF CpShape
    <3> QED BY <1>0, <1>4, <2>3, <3>1
  <2>5. \A r, u \in CpTurn : cpTurn'[r].handlers /\ cpTurn'[u].session = cpTurn'[r].session => u <= r
    <3> SUFFICES ASSUME NEW r \in CpTurn, NEW u \in CpTurn, cpTurn'[r].handlers,
                        cpTurn'[u].session = cpTurn'[r].session
                 PROVE  u <= r
      OBVIOUS
    <3>1. CASE r = t
      BY <1>3, <2>4, <3>1
    <3>2. CASE r # t
      <4>1. cpTurn[r].handlers /\ cpTurn'[r].session = cpTurn[r].session /\ cpTurn[r].session # s
        BY <1>4, <3>2
      <4>2. u # t
        BY <1>3, <4>1
      <4> QED BY <1>4, <2>1, <4>1, <4>2
    <3> QED BY <3>1, <3>2
  <2> QED BY <2>1, <2>2, <2>5
<1>11. CpWorked'
  <2>0. \A u \in CpTurn : \A r \in CpTurn : cpTurn[u].session = r => cpTurn'[u].session = r
    <3>1. cpTurn[t].session = 0
      BY <1>0, <1>2 DEF CpShape
    <3> QED BY <1>0, <1>4, <3>1
  <2>1. \A r \in CpTurn : /\ cpSession'[r].work = cpSession[r].work
                          /\ cpSession'[r].agent \in {"working", "finishing"} =>
                                 cpSession'[r].agent = cpSession[r].agent
    BY <1>5
  <2> QED BY <1>0, <1>6, <2>0, <2>1 DEF CpWorked
<1>12. EarlyComesFrom'
  <2>1. \A u \in CpTurn : cpTurn[u].exit # "none" => cpTurn'[u].exit # "none"
    BY <1>0, <1>2, <1>4 DEF CpShape
  <2> QED BY <1>0, <1>6, <2>1, EarlyStays
<1> QED BY <1>7, <1>8, <1>9, <1>10, <1>11, <1>12 DEF CpCore

\* A session that is disposed of does nothing any more.
LEMMA DisposeIs ==
    ASSUME NEW S \in [CpTurn -> CpSessions], NEW s \in CpTurn \cup {0}
    PROVE  /\ Dispose(S, s) \in [CpTurn -> CpSessions]
           /\ \A r \in CpTurn :
                /\ Dispose(S, s)[r].exitFile = S[r].exitFile
                /\ \/ Dispose(S, s)[r].agent = S[r].agent /\ Dispose(S, s)[r].work = S[r].work
                   \/ Dispose(S, s)[r].agent = "disposed" /\ Dispose(S, s)[r].work = {}
<1>1. CASE s = 0
  BY <1>1 DEF Dispose
<1>2. CASE s \in CpTurn
  <2> DEFINE d == [[S[s] EXCEPT !.agent = "disposed"] EXCEPT !.work = {}]
  <2>0. S[s] \in CpSessions /\ s # 0
    BY <1>2, CpTurnInt
  <2>1. d \in CpSessions /\ d.exitFile = S[s].exitFile /\ d.agent = "disposed" /\ d.work = {}
    BY <2>0 DEF CpSessions
  <2>2. /\ Dispose(S, s)[s] = d /\ \A r \in CpTurn : r # s => Dispose(S, s)[r] = S[r]
        /\ Dispose(S, s) = [r \in CpTurn |-> IF r = s THEN d ELSE S[r]]
    BY <1>2, <2>0 DEF Dispose
  <2> HIDE DEF d
  <2>3. Dispose(S, s) \in [CpTurn -> CpSessions]
    BY <2>1, <2>2
  <2>4. ASSUME NEW r \in CpTurn
        PROVE  /\ Dispose(S, s)[r].exitFile = S[r].exitFile
               /\ \/ Dispose(S, s)[r].agent = S[r].agent /\ Dispose(S, s)[r].work = S[r].work
                  \/ Dispose(S, s)[r].agent = "disposed" /\ Dispose(S, s)[r].work = {}
    BY <2>1, <2>2
  <2> QED BY <2>3, <2>4
<1> QED BY <1>1, <1>2

\* A completion takes the one turn that waits, with its timer.
LEMMA WatchedCompletes ==
    ASSUME CpTyped, CpWatched, NEW s \in CpTurn, NEW code \in {"0", "1"},
           cpTurn' = Complete(s, cpTurn, code),
           cpPast'.stale = cpPast.stale, cpPast'.hit = cpPast.hit,
           \/ cpRoot'.session = cpRoot.session
           \/ Attached(s) # {},
           \A r \in CpTurn : r # s => cpSession'[r].exitFile = cpSession[r].exitFile
    PROVE  CpWatched'
<1> SUFFICES ASSUME cpPast.stale = {}
             PROVE  /\ cpPast.hit = {}
                    /\ \A u \in CpTurn :
                         /\ cpTurn'[u].timer <=> cpTurn'[u].handlers
                         /\ cpTurn'[u].timer => cpTurn'[u].session = cpRoot'.session
                         /\ \A r \in CpTurn : cpTurn'[u].timer /\ cpTurn'[u].session = r
                                                  => cpSession'[r].exitFile = u
                         /\ cpTurn'[u].pc \in {"sends", "sent"} /\ cpTurn'[u].exit = "none"
                              => cpTurn'[u].timer
  BY DEF CpWatched
<1>1. /\ cpPast.hit = {}
      /\ \A u \in CpTurn :
           /\ cpTurn[u].timer <=> cpTurn[u].handlers
           /\ cpTurn[u].timer => cpTurn[u].session = cpRoot.session
           /\ \A r \in CpTurn : cpTurn[u].timer /\ cpTurn[u].session = r
                                    => cpSession[r].exitFile = u
           /\ cpTurn[u].pc \in {"sends", "sent"} /\ cpTurn[u].exit = "none" => cpTurn[u].timer
  BY DEF CpWatched
<1>2. \A u \in CpTurn :
        /\ cpTurn'[u].pc = cpTurn[u].pc /\ cpTurn'[u].session = cpTurn[u].session
        /\ cpTurn'[u].handlers <=> cpTurn[u].handlers /\ u \notin Attached(s)
        /\ cpTurn'[u].timer <=> cpTurn[u].timer /\ u \notin Attached(s)
        /\ cpTurn'[u].exit = IF u = cpSession[s].exitFile /\ Attached(s) # {} THEN code ELSE cpTurn[u].exit
  BY CompleteIs
<1>3. \A u \in CpTurn : u \in Attached(s) <=> cpTurn[u].handlers /\ cpTurn[u].session = s
  BY DEF Attached
<1>4. \A u \in CpTurn : cpTurn'[u].timer => cpTurn'[u].session = cpRoot'.session
  <2>1. CASE cpRoot'.session = cpRoot.session
    BY <1>1, <1>2, <2>1
  <2>2. CASE Attached(s) # {}
    <3>1. PICK x \in CpTurn : x \in Attached(s)
      BY <2>2 DEF Attached
    <3>2. cpRoot.session = s
      BY <1>1, <1>3, <3>1
    <3> QED BY <1>1, <1>2, <1>3, <3>2
  <2> QED BY <2>1, <2>2
<1>5. \A u, r \in CpTurn : cpTurn'[u].timer /\ cpTurn'[u].session = r => cpSession'[r].exitFile = u
  BY <1>1, <1>2, <1>3
<1>6. \A u \in CpTurn : cpTurn'[u].pc \in {"sends", "sent"} /\ cpTurn'[u].exit = "none" => cpTurn'[u].timer
  <2> SUFFICES ASSUME NEW u \in CpTurn, cpTurn'[u].pc \in {"sends", "sent"}, cpTurn'[u].exit = "none"
               PROVE  cpTurn'[u].timer
    OBVIOUS
  <2>1. ~(u = cpSession[s].exitFile /\ Attached(s) # {}) /\ cpTurn[u].exit = "none"
    BY <1>2
  <2>2. cpTurn[u].timer
    BY <1>1, <1>2, <2>1
  <2>3. u \notin Attached(s)
    BY <1>1, <1>3, <2>1, <2>2
  <2> QED BY <1>2, <2>2, <2>3
<1> QED BY <1>1, <1>2, <1>4, <1>5, <1>6

\* What a completion leaves as it was.
LEMMA CompleteCalm ==
    ASSUME CpTyped, CpShape, NEW s \in CpTurn, NEW code \in {"0", "1"},
           cpTurn' = Complete(s, cpTurn, code), cpPast'.overlap = cpPast.overlap,
           \A r \in CpTurn : cpSession'[r].exitFile \in {cpSession[r].exitFile, 0}
    PROVE  CpCalm /\ \A u \in CpTurn : cpTurn[u].exit # "none" => cpTurn'[u].exit # "none"
<1>1. \A u \in CpTurn :
        /\ cpTurn'[u].pc = cpTurn[u].pc /\ cpTurn'[u].session = cpTurn[u].session
        /\ cpTurn'[u].handlers <=> cpTurn[u].handlers /\ u \notin Attached(s)
        /\ cpTurn'[u].timer <=> cpTurn[u].timer /\ u \notin Attached(s)
        /\ cpTurn'[u].exit = IF u = cpSession[s].exitFile /\ Attached(s) # {} THEN code ELSE cpTurn[u].exit
  BY CompleteIs
<1>2. \A u \in CpTurn : cpTurn'[u].exit = cpTurn[u].exit
                        \/ (cpTurn[u].pc \notin {"new", "loads"} /\ cpTurn'[u].exit # "none")
  BY <1>1 DEF CpShape
<1> QED BY <1>1, <1>2 DEF CpCalm

LEMMA CpTaskCompleteStep ==
    ASSUME CpCore, NEW s \in CpTurn, CpTaskComplete(s)
    PROVE  CpCore'
<1>0. /\ cpRoot \in CpRoots /\ cpSession \in [CpTurn -> CpSessions] /\ cpTurn \in [CpTurn -> CpTurns]
      /\ cpPast \in CpPasts /\ CpTurn \subseteq Int /\ 0 \notin CpTurn /\ CpTyped
      /\ CpShape /\ CpWatched /\ CpTurned /\ CpWorked /\ EarlyComesFrom
  BY CpTurnInt DEF CpCore, CpTyped
<1>1. /\ cpSession' \in [CpTurn -> CpSessions] /\ cpSession[s].work \subseteq CpTurn
      /\ cpSession'[s].work = {} /\ cpSession'[s].agent = "finishing"
      /\ cpSession'[s].exitFile \in {cpSession[s].exitFile, 0}
      /\ \A r \in CpTurn : r # s => cpSession'[r] = cpSession[r]
  <2>1. cpSession[s] \in CpSessions /\ 0 \in CpTurn \cup {0}
    BY <1>0
  <2> QED BY <1>0, <2>1 DEF CpTaskComplete, CpSessions
<1>2. /\ cpPast'.answered = cpPast.answered \cup cpSession[s].work /\ cpSession[s].work # {}
      /\ cpPast'.overlap = cpPast.overlap /\ cpPast'.stale = cpPast.stale
      /\ cpPast'.hit = cpPast.hit /\ cpPast'.early = cpPast.early /\ cpPast' \in CpPasts
      /\ cpRoot' \in CpRoots /\ cpRoot'.session = cpRoot.session
  BY <1>0, <1>1 DEF CpTaskComplete, CpPasts, CpRoots
<1>3. cpTurn' = Complete(s, cpTurn, "0") /\ "0" \in {"0", "1"}
  BY DEF CpTaskComplete
<1>4. CpTyped'
  BY <1>0, <1>1, <1>2, <1>3, CompleteIs DEF CpTyped
<1>5. CpCalm /\ \A u \in CpTurn : cpTurn[u].exit # "none" => cpTurn'[u].exit # "none"
  <2>1. \A r \in CpTurn : cpSession'[r].exitFile \in {cpSession[r].exitFile, 0}
    BY <1>1
  <2> QED BY <1>0, <1>2, <1>3, <2>1, CompleteCalm
<1>6. CpShape' /\ CpTurned' /\ EarlyComesFrom'
  BY <1>0, <1>2, <1>5, CalmShape, CalmTurned, EarlyStays
<1>7. CpWatched'
  <2>1. \A r \in CpTurn : r # s => cpSession'[r].exitFile = cpSession[r].exitFile
    BY <1>1
  <2> QED BY <1>0, <1>2, <1>3, <2>1, WatchedCompletes
<1>8. CpWorked'
  <2> SUFFICES ASSUME NEW r \in CpTurn
               PROVE  /\ \A u \in CpTurn : u \in cpSession'[r].work => cpTurn'[u].session = r
                      /\ cpSession'[r].agent = "working" => \E u \in CpTurn : u \in cpSession'[r].work
                      /\ cpSession'[r].agent = "finishing" =>
                           \E x \in CpTurn : x \in cpPast'.answered /\ cpTurn'[x].session = r
    BY DEF CpWorked
  <2>1. /\ \A u \in CpTurn : u \in cpSession[r].work => cpTurn[u].session = r
        /\ cpSession[r].agent = "working" => \E u \in CpTurn : u \in cpSession[r].work
        /\ cpSession[r].agent = "finishing" =>
             \E x \in CpTurn : x \in cpPast.answered /\ cpTurn[x].session = r
    BY <1>0 DEF CpWorked
  <2>2. \A u \in CpTurn : cpTurn'[u].session = cpTurn[u].session
    BY <1>5 DEF CpCalm
  <2>3. CASE r # s
    <3>1. cpSession'[r] = cpSession[r] /\ cpPast.answered \subseteq cpPast'.answered
      BY <1>1, <1>2, <2>3
    <3> QED BY <2>1, <2>2, <3>1
  <2>4. CASE r = s
    BY <1>1, <1>2, <2>1, <2>2, <2>4
  <2> QED BY <2>3, <2>4
<1> QED BY <1>4, <1>6, <1>7, <1>8 DEF CpCore

LEMMA CpIdleStep ==
    ASSUME CpCore, NEW s \in CpTurn, CpIdle(s)
    PROVE  CpCore'
<1>0. /\ cpRoot \in CpRoots /\ cpSession \in [CpTurn -> CpSessions] /\ cpTurn \in [CpTurn -> CpTurns]
      /\ cpPast \in CpPasts /\ CpTurn \subseteq Int /\ 0 \notin CpTurn /\ CpTyped
      /\ CpShape /\ CpWatched /\ CpTurned /\ CpWorked /\ EarlyComesFrom
  BY CpTurnInt DEF CpCore, CpTyped
<1> DEFINE done == IF cpSession[s].agent = "working" THEN cpSession[s].work ELSE {}
           left == cpSession[s].work \ done
<1>d. /\ cpSession[s].agent \in {"working", "finishing"} /\ done \subseteq cpSession[s].work
      /\ cpSession[s].work \subseteq CpTurn
      /\ left \subseteq cpSession[s].work /\ (cpSession[s].agent = "working" => done = cpSession[s].work)
      /\ cpTurn' = Complete(s, cpTurn, "0") /\ "0" \in {"0", "1"}
      /\ cpRoot' = [cpRoot EXCEPT !.busy = @ /\ Attached(s) = {}]
      /\ cpSession' = [cpSession EXCEPT ![s].agent = IF left = {} THEN "idle" ELSE "working",
             ![s].work = left, ![s].exitFile = IF Attached(s) = {} THEN @ ELSE 0]
      /\ cpPast' = [cpPast EXCEPT !.answered = @ \cup done, !.early = @ \cup (Early(s) \ done)]
  BY <1>0 DEF CpIdle, CpSessions
<1> HIDE DEF done, left
<1>1. /\ cpSession' \in [CpTurn -> CpSessions]
      /\ cpSession'[s].work = left
      /\ cpSession'[s].agent = (IF left = {} THEN "idle" ELSE "working")
      /\ cpSession'[s].exitFile \in {cpSession[s].exitFile, 0}
      /\ \A r \in CpTurn : r # s => cpSession'[r] = cpSession[r]
  <2>1. cpSession[s] \in CpSessions /\ 0 \in CpTurn \cup {0} /\ left \in SUBSET CpTurn
    BY <1>0, <1>d
  <2>2. (IF left = {} THEN "idle" ELSE "working") \in {"idle", "working"}
    OBVIOUS
  <2> QED BY <1>0, <1>d, <2>1, <2>2 DEF CpSessions
<1>2. /\ cpPast'.answered = cpPast.answered \cup done
      /\ cpPast'.early = cpPast.early \cup (Early(s) \ done)
      /\ cpPast'.overlap = cpPast.overlap /\ cpPast'.stale = cpPast.stale
      /\ cpPast'.hit = cpPast.hit /\ cpPast' \in CpPasts
      /\ cpRoot' \in CpRoots /\ cpRoot'.session = cpRoot.session
  <2>1. Early(s) \subseteq CpTurn /\ done \subseteq CpTurn
    BY <1>d DEF Early, Attached
  <2>2. cpPast' \in CpPasts
    BY <1>0, <1>d, <2>1 DEF CpPasts
  <2> QED BY <1>0, <1>d, <2>2 DEF CpPasts, CpRoots
<1>4. CpTyped'
  BY <1>0, <1>1, <1>2, <1>d, CompleteIs DEF CpTyped
<1>5. CpCalm /\ \A u \in CpTurn : cpTurn[u].exit # "none" => cpTurn'[u].exit # "none"
  <2>1. \A r \in CpTurn : cpSession'[r].exitFile \in {cpSession[r].exitFile, 0}
    BY <1>1
  <2> QED BY <1>0, <1>2, <1>d, <2>1, CompleteCalm
<1>6. CpShape' /\ CpTurned'
  BY <1>0, <1>2, <1>5, CalmShape, CalmTurned
<1>7. CpWatched'
  <2>1. \A r \in CpTurn : r # s => cpSession'[r].exitFile = cpSession[r].exitFile
    BY <1>1
  <2> QED BY <1>0, <1>2, <1>d, <2>1, WatchedCompletes
<1>8. CpWorked'
  <2> SUFFICES ASSUME NEW r \in CpTurn
               PROVE  /\ \A u \in CpTurn : u \in cpSession'[r].work => cpTurn'[u].session = r
                      /\ cpSession'[r].agent = "working" => \E u \in CpTurn : u \in cpSession'[r].work
                      /\ cpSession'[r].agent = "finishing" =>
                           \E x \in CpTurn : x \in cpPast'.answered /\ cpTurn'[x].session = r
    BY DEF CpWorked
  <2>1. /\ \A u \in CpTurn : u \in cpSession[r].work => cpTurn[u].session = r
        /\ cpSession[r].agent = "working" => \E u \in CpTurn : u \in cpSession[r].work
        /\ cpSession[r].agent = "finishing" =>
             \E x \in CpTurn : x \in cpPast.answered /\ cpTurn[x].session = r
    BY <1>0 DEF CpWorked
  <2>2. \A u \in CpTurn : cpTurn'[u].session = cpTurn[u].session
    BY <1>5 DEF CpCalm
  <2>3. CASE r # s
    <3>1. cpSession'[r] = cpSession[r] /\ cpPast.answered \subseteq cpPast'.answered
      BY <1>1, <1>2, <2>3
    <3> QED BY <2>1, <2>2, <3>1
  <2>4. CASE r = s
    BY <1>1, <1>2, <1>d, <2>1, <2>2, <2>4
  <2> QED BY <2>3, <2>4
<1>9. EarlyComesFrom'
  <2> SUFFICES ASSUME NEW x \in cpPast'.early, cpPast'.overlap = {}
               PROVE  \E u \in 1 .. x - 1 : cpTurn'[u].exit # "none"
    BY DEF EarlyComesFrom
  <2>0. /\ cpPast.overlap = {} /\ x \in CpTurn /\ \A u \in CpTurn : u < x => u \in 1 .. x - 1
        /\ \A u \in 1 .. x - 1 : u \in CpTurn
    BY <1>2, CpBounds DEF CpPasts, CpTurn
  <2>1. CASE x \in cpPast.early
    <3>1. PICK u \in 1 .. x - 1 : cpTurn[u].exit # "none"
      BY <1>0, <2>0, <2>1 DEF EarlyComesFrom
    <3> QED BY <1>5, <2>0, <3>1
  <2>2. CASE x \in Early(s) \ done
    <3>1. x \in Attached(s) /\ x \notin cpPast.answered /\ x \notin done
      BY <2>2 DEF Early
    <3>2. cpTurn[x].handlers /\ cpTurn[x].session = s /\ cpTurn[x].pc # "new"
      BY <1>0, <2>0, <3>1 DEF Attached, CpShape
    <3>3. PICK u \in CpTurn : u # x /\ cpTurn[u].session = s
      <4>1. CASE cpSession[s].agent = "working"
        BY <1>0, <1>d, <3>1, <4>1 DEF CpWorked
      <4>2. CASE cpSession[s].agent = "finishing"
        BY <1>0, <3>1, <4>2 DEF CpWorked
      <4> QED BY <1>d, <4>1, <4>2
    <3>4. u <= x
      BY <1>0, <2>0, <3>2, <3>3 DEF CpTurned
    <3>5. u < x /\ u \in 1 .. x - 1
      BY <1>0, <2>0, <3>3, <3>4
    <3>6. ~Pending(u) /\ cpTurn[u].pc \notin {"new", "loads"}
      BY <1>0, <2>0, <3>2, <3>3, <3>5 DEF CpTurned, CpShape
    <3>7. cpTurn[u].exit # "none"
      <4>1. cpTurn[u].pc \in {"new", "loads", "sends", "sent", "rejected"}
        BY <1>0 DEF CpTurns
      <4> QED BY <1>0, <3>6, <4>1 DEF Pending, CpShape
    <3> QED BY <1>5, <3>5, <3>7
  <2> QED BY <1>2, <2>1, <2>2
<1> QED BY <1>4, <1>6, <1>7, <1>8, <1>9 DEF CpCore

LEMMA CpErrorStep ==
    ASSUME CpCore, NEW s \in CpTurn, CpError(s)
    PROVE  CpCore'
<1>0. /\ cpRoot \in CpRoots /\ cpSession \in [CpTurn -> CpSessions] /\ cpTurn \in [CpTurn -> CpTurns]
      /\ cpPast \in CpPasts /\ CpTurn \subseteq Int /\ 0 \notin CpTurn /\ CpTyped
      /\ CpShape /\ CpWatched /\ CpTurned /\ CpWorked /\ EarlyComesFrom
  BY CpTurnInt DEF CpCore, CpTyped
<1>1. /\ cpSession' \in [CpTurn -> CpSessions] /\ UNCHANGED <<cpRoot, cpTurn>>
      /\ \A r \in CpTurn : /\ cpSession'[r].work = cpSession[r].work
                           /\ cpSession'[r].agent = cpSession[r].agent
                           /\ cpSession'[r].exitFile = cpSession[r].exitFile
  BY <1>0 DEF CpError, CpSessions
<1>2. /\ cpPast'.overlap = cpPast.overlap /\ cpPast'.stale = cpPast.stale
      /\ cpPast'.hit = cpPast.hit /\ cpPast'.early = cpPast.early
      /\ cpPast'.answered = cpPast.answered /\ cpPast' \in CpPasts
  <2>1. cpPast.faults + 1 \in 0 .. CpMaxFaults
    BY <1>0, CpBounds DEF CpError, CpPasts
  <2> QED BY <1>0, <2>1 DEF CpError, CpPasts
<1>3. CpTyped'
  BY <1>0, <1>1, <1>2 DEF CpTyped
<1>4. CpCalm
  BY <1>1, <1>2 DEF CpCalm
<1>5. CpShape' /\ CpTurned'
  BY <1>0, <1>4, CalmShape, CalmTurned
<1>6. CpWatched'
  BY <1>0, <1>1, <1>2, WatchedStays
<1>7. CpWorked'
  BY <1>0, <1>1, <1>2, WorkedRests
<1>8. EarlyComesFrom'
  BY <1>0, <1>1, <1>2, EarlyStays
<1> QED BY <1>3, <1>5, <1>6, <1>7, <1>8 DEF CpCore

LEMMA CpIdleErroredStep ==
    ASSUME CpCore, NEW s \in CpTurn, CpIdleErrored(s)
    PROVE  CpCore'
<1>0. /\ cpRoot \in CpRoots /\ cpSession \in [CpTurn -> CpSessions] /\ cpTurn \in [CpTurn -> CpTurns]
      /\ cpPast \in CpPasts /\ CpTurn \subseteq Int /\ 0 \notin CpTurn /\ CpTyped
      /\ CpShape /\ CpWatched /\ CpTurned /\ CpWorked /\ EarlyComesFrom
      /\ cpRoot.session \in CpTurn \cup {0}
  BY CpTurnInt DEF CpCore, CpTyped, CpRoots
<1>1. CASE Attached(s) = {}
  <2>1. /\ cpSession' \in [CpTurn -> CpSessions] /\ UNCHANGED <<cpRoot, cpTurn, cpPast>>
        /\ cpSession'[s].agent = "idle" /\ cpSession'[s].work = {}
        /\ cpSession'[s].exitFile = cpSession[s].exitFile
        /\ \A r \in CpTurn : r # s => cpSession'[r] = cpSession[r]
    BY <1>0, <1>1 DEF CpIdleErrored, CpSessions
  <2>2. \A r \in CpTurn : cpSession'[r].exitFile = cpSession[r].exitFile
    BY <2>1
  <2>3. CpTyped'
    BY <1>0, <2>1 DEF CpTyped
  <2>4. CpCalm
    BY <2>1, <2>2 DEF CpCalm
  <2>5. CpShape' /\ CpTurned'
    BY <1>0, <2>4, CalmShape, CalmTurned
  <2>6. CpWatched'
    BY <1>0, <2>1, <2>2, WatchedStays
  <2>7. CpWorked'
    <3>1. \A r \in CpTurn :
               \/ cpSession'[r].agent = cpSession[r].agent /\ cpSession'[r].work = cpSession[r].work
               \/ cpSession'[r].agent \notin {"working", "finishing"} /\ cpSession'[r].work = {}
      BY <2>1
    <3> QED BY <1>0, <2>1, <3>1, WorkedRests
  <2>8. EarlyComesFrom'
    BY <1>0, <2>1, EarlyStays
  <2> QED BY <2>3, <2>5, <2>6, <2>7, <2>8 DEF CpCore
<1>2. CASE Attached(s) # {}
  <2> DEFINE S == [[[cpSession EXCEPT ![s].exitFile = 0] EXCEPT ![s].agent = "idle"] EXCEPT ![s].work = {}]
  <2>1. /\ cpSession' = Dispose(S, cpRoot.session) /\ cpTurn' = Complete(s, cpTurn, "1")
        /\ "1" \in {"0", "1"} /\ cpRoot' = [session |-> 0, busy |-> FALSE] /\ UNCHANGED cpPast
    BY <1>2 DEF CpIdleErrored
  <2>2. /\ S \in [CpTurn -> CpSessions] /\ S[s].agent = "idle" /\ S[s].work = {} /\ S[s].exitFile = 0
        /\ \A r \in CpTurn : r # s => S[r] = cpSession[r]
    <3>1. cpSession[s] \in CpSessions
      BY <1>0
    <3> QED BY <1>0, <3>1 DEF CpSessions
  <2> HIDE DEF S
  <2>3. /\ cpSession' \in [CpTurn -> CpSessions]
        /\ \A r \in CpTurn :
             /\ cpSession'[r].exitFile = S[r].exitFile
             /\ \/ cpSession'[r].agent = S[r].agent /\ cpSession'[r].work = S[r].work
                \/ cpSession'[r].agent = "disposed" /\ cpSession'[r].work = {}
    <3>1. /\ Dispose(S, cpRoot.session) \in [CpTurn -> CpSessions]
          /\ \A r \in CpTurn :
               /\ Dispose(S, cpRoot.session)[r].exitFile = S[r].exitFile
               /\ \/ /\ Dispose(S, cpRoot.session)[r].agent = S[r].agent
                     /\ Dispose(S, cpRoot.session)[r].work = S[r].work
                  \/ /\ Dispose(S, cpRoot.session)[r].agent = "disposed"
                     /\ Dispose(S, cpRoot.session)[r].work = {}
      BY <1>0, <2>2, DisposeIs
    <3> QED BY <2>1, <3>1
  <2>4. \A r \in CpTurn :
          /\ cpSession'[r].exitFile \in {cpSession[r].exitFile, 0}
          /\ r # s => cpSession'[r].exitFile = cpSession[r].exitFile
    BY <2>2, <2>3
  <2>5. CpTyped'
    <3>1. cpRoot' \in CpRoots
      BY <2>1 DEF CpRoots
    <3> QED BY <1>0, <2>1, <2>3, <3>1, CompleteIs DEF CpTyped
  <2>6. CpCalm /\ \A u \in CpTurn : cpTurn[u].exit # "none" => cpTurn'[u].exit # "none"
    BY <1>0, <2>1, <2>4, CompleteCalm
  <2>7. CpShape' /\ CpTurned' /\ EarlyComesFrom'
    BY <1>0, <2>1, <2>6, CalmShape, CalmTurned, EarlyStays
  <2>8. CpWatched'
    BY <1>0, <1>2, <2>1, <2>4, WatchedCompletes
  <2>9. CpWorked'
    <3>1. \A r \in CpTurn :
               \/ cpSession'[r].agent = cpSession[r].agent /\ cpSession'[r].work = cpSession[r].work
               \/ cpSession'[r].agent \notin {"working", "finishing"} /\ cpSession'[r].work = {}
      BY <2>2, <2>3
    <3>2. \A u \in CpTurn : cpTurn'[u].session = cpTurn[u].session
      BY <2>6 DEF CpCalm
    <3> QED BY <1>0, <2>1, <3>1, <3>2, WorkedRests
  <2> QED BY <2>5, <2>7, <2>8, <2>9 DEF CpCore
<1> QED BY <1>1, <1>2

LEMMA CpTimeoutStep ==
    ASSUME CpCore, NEW t \in CpTurn, CpTimeout(t)
    PROVE  CpCore'
<1>0. /\ cpRoot \in CpRoots /\ cpSession \in [CpTurn -> CpSessions] /\ cpTurn \in [CpTurn -> CpTurns]
      /\ cpPast \in CpPasts /\ CpTurn \subseteq Int /\ 0 \notin CpTurn /\ CpTyped
      /\ CpShape /\ CpWatched /\ CpTurned /\ CpWorked /\ EarlyComesFrom
      /\ cpRoot.session \in CpTurn \cup {0} /\ cpTurn[t].timer
  BY CpTurnInt DEF CpCore, CpTyped, CpRoots, CpTimeout
<1>1. PICK own \in CpTurn : own = cpTurn[t].session
  <2>1. cpTurn[t].session \in CpTurn \cup {0} /\ cpTurn[t].session # 0
    BY <1>0 DEF CpTurns, CpShape
  <2> QED BY <2>1
<1> DEFINE file == cpSession[own].exitFile
           S == [cpSession EXCEPT ![own].exitFile = 0]
<1>2. /\ cpSession' = Dispose(S, cpRoot.session) /\ cpRoot' = [session |-> 0, busy |-> FALSE]
      /\ cpTurn' = [u \in CpTurn |->
             LET v == IF u = t THEN [cpTurn[u] EXCEPT !.timer = FALSE, !.handlers = FALSE]
                      ELSE cpTurn[u]
             IN  IF u = file THEN [v EXCEPT !.exit = "1"] ELSE v]
      /\ cpPast' = [cpPast EXCEPT !.hit = @ \cup
             {u \in CpTurn \ {t} : Pending(u) /\ cpTurn[u].pc # "loads"
                                   /\ (u = file \/ cpTurn[u].session = cpRoot.session)}]
  BY <1>1 DEF CpTimeout
<1>3. S \in [CpTurn -> CpSessions]
  BY <1>0 DEF CpSessions
<1>4. \A r \in CpTurn :
        /\ S[r].exitFile \in {cpSession[r].exitFile, 0}
        /\ S[r].agent = cpSession[r].agent /\ S[r].work = cpSession[r].work
  BY <1>0 DEF CpSessions
<1> HIDE DEF S
<1>5. ASSUME NEW u \in CpTurn
      PROVE  /\ cpTurn'[u] \in CpTurns
             /\ cpTurn'[u].pc = cpTurn[u].pc /\ cpTurn'[u].session = cpTurn[u].session
             /\ cpTurn'[u].handlers <=> cpTurn[u].handlers /\ u # t
             /\ cpTurn'[u].timer <=> cpTurn[u].timer /\ u # t
             /\ cpTurn'[u].exit = IF u = file THEN "1" ELSE cpTurn[u].exit
  <2>1. cpTurn[u] \in CpTurns
    BY <1>0
  <2> DEFINE v == IF u = t THEN [cpTurn[u] EXCEPT !.timer = FALSE, !.handlers = FALSE] ELSE cpTurn[u]
  <2>2. /\ v \in CpTurns /\ v.pc = cpTurn[u].pc /\ v.session = cpTurn[u].session
        /\ v.handlers <=> cpTurn[u].handlers /\ u # t
        /\ v.timer <=> cpTurn[u].timer /\ u # t
        /\ v.exit = cpTurn[u].exit
    BY <2>1 DEF CpTurns
  <2>3. cpTurn'[u] = IF u = file THEN [v EXCEPT !.exit = "1"] ELSE v
    BY <1>2
  <2> HIDE DEF v, file
  <2>4. CASE u = file
    <3>1. cpTurn'[u] = [v EXCEPT !.exit = "1"]
      BY <2>3, <2>4
    <3> QED BY <2>2, <2>4, <3>1 DEF CpTurns
  <2>5. CASE u # file
    BY <2>2, <2>3, <2>5
  <2> QED BY <2>4, <2>5
<1>6. /\ cpSession' \in [CpTurn -> CpSessions]
      /\ \A r \in CpTurn :
           /\ cpSession'[r].exitFile = S[r].exitFile
           /\ \/ cpSession'[r].agent = S[r].agent /\ cpSession'[r].work = S[r].work
              \/ cpSession'[r].agent = "disposed" /\ cpSession'[r].work = {}
  <2>1. /\ Dispose(S, cpRoot.session) \in [CpTurn -> CpSessions]
        /\ \A r \in CpTurn :
             /\ Dispose(S, cpRoot.session)[r].exitFile = S[r].exitFile
             /\ \/ /\ Dispose(S, cpRoot.session)[r].agent = S[r].agent
                   /\ Dispose(S, cpRoot.session)[r].work = S[r].work
                \/ /\ Dispose(S, cpRoot.session)[r].agent = "disposed"
                   /\ Dispose(S, cpRoot.session)[r].work = {}
    BY <1>0, <1>3, DisposeIs
  <2> QED BY <1>2, <2>1
<1> DEFINE H == {u \in CpTurn \ {t} : Pending(u) /\ cpTurn[u].pc # "loads"
                                   /\ (u = file \/ cpTurn[u].session = cpRoot.session)}
<1>7. /\ cpPast'.overlap = cpPast.overlap /\ cpPast'.stale = cpPast.stale
      /\ cpPast'.hit = cpPast.hit \cup H /\ cpPast'.early = cpPast.early
      /\ cpPast'.answered = cpPast.answered /\ cpPast' \in CpPasts /\ cpRoot' \in CpRoots
  BY <1>0, <1>2 DEF CpPasts, CpRoots
<1>8. CpTyped'
  <2>1. cpTurn' = [u \in CpTurn |-> cpTurn'[u]]
    BY <1>2
  <2>2. cpTurn' \in [CpTurn -> CpTurns]
    BY <1>5, <2>1
  <2> QED BY <1>6, <1>7, <2>2 DEF CpTyped
<1>9. /\ \A u \in CpTurn : cpTurn[u].exit # "none" => cpTurn'[u].exit # "none"
      /\ \A u \in CpTurn : cpTurn'[u].session = cpTurn[u].session
  BY <1>5
<1>10. CpCalm
  <2>1. \A u \in CpTurn : cpTurn'[u].exit = cpTurn[u].exit
                          \/ (cpTurn[u].pc \notin {"new", "loads"} /\ cpTurn'[u].exit # "none")
    BY <1>0, <1>5 DEF CpShape
  <2>2. \A r \in CpTurn : cpSession'[r].exitFile \in {cpSession[r].exitFile, 0}
    BY <1>4, <1>6
  <2> QED BY <1>5, <1>7, <2>1, <2>2 DEF CpCalm
<1>11. CpShape' /\ CpTurned' /\ EarlyComesFrom'
  BY <1>0, <1>7, <1>9, <1>10, CalmShape, CalmTurned, EarlyStays
<1>12. CpWatched'
  <2> SUFFICES ASSUME cpPast.stale = {}
               PROVE  /\ cpPast'.hit = {}
                      /\ \A u \in CpTurn : /\ ~cpTurn'[u].timer /\ ~cpTurn'[u].handlers
                                           /\ ~(cpTurn'[u].pc \in {"sends", "sent"} /\ cpTurn'[u].exit = "none")
    BY <1>7 DEF CpWatched
  <2>1. /\ cpPast.hit = {}
        /\ \A u \in CpTurn :
             /\ cpTurn[u].timer <=> cpTurn[u].handlers
             /\ cpTurn[u].timer => cpTurn[u].session = cpRoot.session
             /\ \A r \in CpTurn : cpTurn[u].timer /\ cpTurn[u].session = r
                                      => cpSession[r].exitFile = u
             /\ cpTurn[u].pc \in {"sends", "sent"} /\ cpTurn[u].exit = "none" => cpTurn[u].timer
    BY <1>0 DEF CpWatched
  <2>2. file = t /\ cpRoot.session = own
    BY <1>0, <1>1, <2>1
  <2>3. \A u \in CpTurn : cpTurn[u].timer => u = t
    BY <1>1, <2>1, <2>2
  <2>4. H = {}
    BY <2>1, <2>3 DEF Pending
  <2>5. \A u \in CpTurn : ~cpTurn'[u].timer /\ ~cpTurn'[u].handlers
    BY <1>5, <2>1, <2>3
  <2>6. \A u \in CpTurn : ~(cpTurn'[u].pc \in {"sends", "sent"} /\ cpTurn'[u].exit = "none")
    BY <1>5, <2>1, <2>2, <2>3
  <2> QED BY <1>7, <2>1, <2>4, <2>5, <2>6
<1>13. CpWorked'
  <2>1. \A r \in CpTurn :
             \/ cpSession'[r].agent = cpSession[r].agent /\ cpSession'[r].work = cpSession[r].work
             \/ cpSession'[r].agent \notin {"working", "finishing"} /\ cpSession'[r].work = {}
    BY <1>4, <1>6
  <2> QED BY <1>0, <1>7, <1>9, <2>1, WorkedRests
<1> QED BY <1>8, <1>11, <1>12, <1>13 DEF CpCore

LEMMA CpCloseStep ==
    ASSUME CpCore, CpClose
    PROVE  CpCore'
<1>0. /\ cpRoot \in CpRoots /\ cpSession \in [CpTurn -> CpSessions] /\ cpTurn \in [CpTurn -> CpTurns]
      /\ cpPast \in CpPasts /\ CpTurn \subseteq Int /\ 0 \notin CpTurn /\ CpTyped
      /\ CpShape /\ CpWatched /\ CpTurned /\ CpWorked /\ EarlyComesFrom
  BY CpTurnInt DEF CpCore, CpTyped
<1>1. PICK s \in CpTurn : s = cpRoot.session
  BY <1>0 DEF CpClose, CpRoots
<1>2. /\ cpSession' = Dispose(cpSession, s) /\ cpRoot' = [session |-> 0, busy |-> FALSE]
      /\ cpTurn' = [u \in CpTurn |-> IF u \in Attached(s)
                        THEN [cpTurn[u] EXCEPT !.handlers = FALSE] ELSE cpTurn[u]]
      /\ cpPast' = [cpPast EXCEPT !.faults = @ + 1,
             !.stale = @ \cup {u \in CpTurn : cpTurn[u].timer /\ cpTurn[u].session = s}]
      /\ cpPast.faults < CpMaxFaults
  BY <1>1 DEF CpClose
<1>3. ASSUME NEW u \in CpTurn
      PROVE  /\ cpTurn'[u] \in CpTurns
             /\ cpTurn'[u].pc = cpTurn[u].pc /\ cpTurn'[u].session = cpTurn[u].session
             /\ cpTurn'[u].handlers <=> cpTurn[u].handlers /\ cpTurn[u].session # s
             /\ cpTurn'[u].timer = cpTurn[u].timer /\ cpTurn'[u].exit = cpTurn[u].exit
  <2>0. cpTurn[u] \in CpTurns
    BY <1>0
  <2>1. CASE u \in Attached(s)
    <3>1. cpTurn'[u] = [cpTurn[u] EXCEPT !.handlers = FALSE]
      BY <1>2, <2>1
    <3> QED BY <2>0, <2>1, <3>1 DEF Attached, CpTurns
  <2>2. CASE u \notin Attached(s)
    <3>1. cpTurn'[u] = cpTurn[u]
      BY <1>2, <2>2
    <3> QED BY <2>0, <2>2, <3>1 DEF Attached
  <2> QED BY <2>1, <2>2
<1>4. /\ cpSession' \in [CpTurn -> CpSessions]
      /\ \A r \in CpTurn :
           /\ cpSession'[r].exitFile = cpSession[r].exitFile
           /\ \/ cpSession'[r].agent = cpSession[r].agent /\ cpSession'[r].work = cpSession[r].work
              \/ cpSession'[r].agent = "disposed" /\ cpSession'[r].work = {}
  BY <1>0, <1>2, DisposeIs
<1>5. /\ cpPast'.overlap = cpPast.overlap
      /\ cpPast'.stale = cpPast.stale \cup {u \in CpTurn : cpTurn[u].timer /\ cpTurn[u].session = s}
      /\ cpPast'.hit = cpPast.hit /\ cpPast'.early = cpPast.early
      /\ cpPast'.answered = cpPast.answered /\ cpPast' \in CpPasts /\ cpRoot' \in CpRoots
  <2>1. cpPast.faults + 1 \in 0 .. CpMaxFaults
    BY <1>0, <1>2, CpBounds DEF CpPasts
  <2> QED BY <1>0, <1>2, <2>1 DEF CpPasts, CpRoots
<1>6. CpTyped'
  <2>1. cpTurn' = [u \in CpTurn |-> cpTurn'[u]]
    BY <1>2
  <2>2. cpTurn' \in [CpTurn -> CpTurns]
    BY <1>3, <2>1
  <2> QED BY <1>4, <1>5, <2>2 DEF CpTyped
<1>7. CpCalm
  BY <1>3, <1>4, <1>5 DEF CpCalm
<1>8. CpShape' /\ CpTurned'
  BY <1>0, <1>7, CalmShape, CalmTurned
<1>9. CpWatched'
  <2> SUFFICES ASSUME cpPast'.stale = {}
               PROVE  /\ cpPast.hit = {}
                      /\ \A u \in CpTurn : /\ ~cpTurn'[u].timer /\ ~cpTurn'[u].handlers
                                           /\ ~(cpTurn'[u].pc \in {"sends", "sent"} /\ cpTurn'[u].exit = "none")
    BY <1>5 DEF CpWatched
  <2>1. /\ cpPast.hit = {}
        /\ \A u \in CpTurn :
             /\ cpTurn[u].timer <=> cpTurn[u].handlers
             /\ cpTurn[u].timer => cpTurn[u].session = cpRoot.session
             /\ cpTurn[u].pc \in {"sends", "sent"} /\ cpTurn[u].exit = "none" => cpTurn[u].timer
    BY <1>0, <1>5 DEF CpWatched
  <2>2. \A u \in CpTurn : ~(cpTurn[u].timer /\ cpTurn[u].session = s)
    BY <1>5
  <2>3. \A u \in CpTurn : ~cpTurn[u].timer
    BY <1>1, <2>1, <2>2
  <2> QED BY <1>3, <2>1, <2>3
<1>10. CpWorked'
  <2>1. /\ \A u \in CpTurn : cpTurn'[u].session = cpTurn[u].session
        /\ \A r \in CpTurn :
             \/ cpSession'[r].agent = cpSession[r].agent /\ cpSession'[r].work = cpSession[r].work
             \/ cpSession'[r].agent \notin {"working", "finishing"} /\ cpSession'[r].work = {}
    BY <1>3, <1>4
  <2> QED BY <1>0, <1>5, <2>1, WorkedRests
<1>11. EarlyComesFrom'
  <2>1. \A u \in CpTurn : cpTurn[u].exit # "none" => cpTurn'[u].exit # "none"
    BY <1>3
  <2> QED BY <1>0, <1>5, <2>1, EarlyStays
<1> QED BY <1>6, <1>8, <1>9, <1>10, <1>11 DEF CpCore

LEMMA CpInitial == CpInit => CpCore
<1> SUFFICES ASSUME CpInit PROVE CpCore
  OBVIOUS
<1>1. CpTyped
  <2>1. 0 \in 0 .. CpMaxFaults
    BY CpBounds
  <2> QED BY <2>1 DEF CpInit, CpTyped, CpRoots, CpSessions, CpTurns, CpPasts
<1>2. CpShape /\ CpWatched
  BY CpTurnInt DEF CpInit, CpShape, CpWatched
<1>3. CpTurned /\ CpWorked
  BY DEF CpInit, CpTurned, CpWorked, Pending
<1>4. EarlyComesFrom
  BY DEF CpInit, EarlyComesFrom
<1> QED BY <1>1, <1>2, <1>3, <1>4 DEF CpCore

LEMMA CpCoreIsKept == CpCore /\ [CpNext]_cpVars => CpCore'
<1> SUFFICES ASSUME CpCore, [CpNext]_cpVars PROVE CpCore'
  OBVIOUS
<1>1. CASE UNCHANGED cpVars
  BY <1>1 DEF cpVars, CpCore, CpTyped, CpShape, CpWatched, CpTurned, Pending, CpWorked, EarlyComesFrom
<1>2. CASE CpNext
  BY <1>2, CpDispatchStep, CpLoadFailsStep, CpAttachesStep, CpSentStep, CpRejectsStep, CpTimeoutStep,
     CpTaskCompleteStep, CpIdleStep, CpErrorStep, CpIdleErroredStep, CpCloseStep DEF CpNext
<1> QED BY <1>1, <1>2

LEMMA CpCoreHolds == CpCore => CopilotHolds
<1> SUFFICES ASSUME CpCore PROVE CopilotHolds
  OBVIOUS
<1>1. CpTypeOK
  BY DEF CpCore, CpTyped, CpTypeOK, CpRoots, CpSessions, CpTurns, CpPasts
<1>2. HitComesFrom /\ EarlyComesFrom
  BY DEF CpCore, CpWatched, HitComesFrom
<1>3. OneListener
  <2> SUFFICES ASSUME NEW s \in CpTurn PROVE Cardinality(Attached(s)) <= 1
    BY DEF OneListener
  <2>1. CASE Attached(s) = {}
    BY <2>1, FS_EmptySet
  <2>2. CASE Attached(s) # {}
    <3>1. PICK u \in CpTurn : u \in Attached(s)
      BY <2>2 DEF Attached
    <3>2. Attached(s) = {u}
      BY <3>1 DEF Attached, CpCore, CpShape
    <3>3. Cardinality({u}) = 1
      BY FS_Singleton
    <3> QED BY <3>2, <3>3
  <2> QED BY <2>1, <2>2
<1> QED BY <1>1, <1>2, <1>3 DEF TimersAreOwn, CopilotHolds

\* A turn of copilot has its own listener, timer and answer, whatever the number of
\* turns, unless a timer outlived its turn or a turn was overtaken (copilotSdk provider:
\* _sendAsync, _complete, closeCopilotSdkSession).
THEOREM CopilotCorrect == CpSpec => []CopilotHolds
<1> QED BY CpInitial, CpCoreIsKept, CpCoreHolds, PTL DEF CpSpec

-----------------------------------------------------------------------------
(* The back-ends beside each other, as a run of all of them looks at them.  *)

\* A behaviour of one part keeps what is proved of the others' first states.
THEOREM BackendsCorrect == MCSpec => []BackendsHold
<1>1. MCInit => OcCore /\ CpCore
  BY OcInitial, CpInitial DEF MCInit
<1>2. [MCNext]_<<part, ahVars, ocVars, cpVars>> => [OcNext]_ocVars /\ [CpNext]_cpVars
  BY DEF MCNext
<1>3. OcCore /\ CpCore /\ [MCNext]_<<part, ahVars, ocVars, cpVars>> => OcCore' /\ CpCore'
  BY <1>2, OcCoreIsKept, CpCoreIsKept
<1>4. OcCore /\ CpCore => BackendsHold
  BY OcCoreHolds, CpCoreHolds DEF BackendsHold
<1> QED BY <1>1, <1>3, <1>4, PTL DEF MCSpec
=============================================================================
