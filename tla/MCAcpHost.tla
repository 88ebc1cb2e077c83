------------------------------ MODULE MCAcpHost ------------------------------
(***************************************************************************)
(* For TLC: the hosts of agents that live on from turn to turn.  The        *)
(* persistent agent of opencode (AcpHost), its server (OpencodeServer) and  *)
(* copilot's sessions (CopilotSession).  The parts share no state: a        *)
(* behaviour is one of one part, and the others stay where they started.    *)
(***************************************************************************)
EXTENDS AcpHost, OpencodeServer, CopilotSession

VARIABLE part

MCInit ==
    /\ part \in {"agent", "server", "copilot"}
    /\ AhInit /\ OcInit /\ CpInit

MCNext ==
    \/ part = "agent" /\ AhNext /\ UNCHANGED <<part, ocVars, cpVars>>
    \/ part = "server" /\ OcNext /\ UNCHANGED <<part, ahVars, cpVars>>
    \/ part = "copilot" /\ CpNext /\ UNCHANGED <<part, ahVars, ocVars>>

\* The fairness each part states, for the part that is looked at.
MCFairness ==
    /\ WF_ahVars(part = "agent" /\ AhResumes)
    /\ WF_ahVars(part = "agent" /\ AhStarted)
    /\ WF_ahVars(part = "agent" /\ AhTurnSeen)
    /\ \A t \in AhTurn : WF_ahVars(part = "agent" /\ (AhTurnEnds(t) \/ AhGraceEnds(t) \/ AhServed(t)))
    /\ WF_ocVars(part = "server" /\ ForceIdle)
    /\ \A t \in 1..CpMaxTurn :
        /\ WF_cpVars(part = "copilot" /\ CpTimeout(t))
        /\ WF_cpVars(part = "copilot" /\ (CpLoadFails(t) \/ CpAttaches(t)))

MCSpec == MCInit /\ [][MCNext]_<<part, ahVars, ocVars, cpVars>> /\ MCFairness

-----------------------------------------------------------------------------
(* Properties: those of the parts, stated and explained where they are      *)
(* defined.                                                                 *)

\* The busy mark of a server, the server itself and the end of a turn belong to
\* the turn that runs, but for turns given up before (opencodeSdk provider).
ServerHolds == OcTypeOK /\ OneTurnOneServer

\* A turn of copilot has its own listener, timer and answer, but for turns
\* overtaken before (copilotSdk provider).
CopilotHolds == CpTypeOK /\ TimersAreOwn

\* The other back-ends that live on, in the parts above.
BackendsHold == ServerHolds /\ CopilotHolds

Owed(i) ==
    CASE part = "agent" -> Owing(i)
      [] part = "server" -> i = 1 /\ ocRoot.busy
      [] part = "copilot" -> Pending(i)

Paid(i) ==
    CASE part = "agent" -> ~Owing(i)
      [] part = "server" -> ~ocRoot.busy
      [] part = "copilot" -> ~Pending(i) \/ cpPast.overlap # {}

\* Every turn comes to its end and the loop is freed of it: HostTurnEnds,
\* LoopFreed and ExitComes.
AllEnds == \A i \in AhTurn : Owed(i) ~> Paid(i)
=============================================================================
