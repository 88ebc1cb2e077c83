----------------------------- MODULE MCTaskLoop -----------------------------
(***************************************************************************)
(* The task loop for TLC, with a provider that holds a busy flag ("sdk",    *)
(* with the faults of TODO.md and its other writers) or with one whose      *)
(* process exits are judged ("cli", with the faults of a provider).  The    *)
(* faults come in groups rather than all at once.  The bounds of the sdk     *)
(* loop are the larger ones, so its invariants are asked of all.            *)
(***************************************************************************)
EXTENDS TaskLoop

CONSTANTS CliStrand, CliNoProgress,
          SdkPeriodic, CliThrottle, CliContext      \* groups of faults

VARIABLE part

S == INSTANCE TaskLoop WITH Faults <- SdkPeriodic

T == INSTANCE TaskLoop
     WITH Kind <- "cli", MaxStrand <- CliStrand, MaxNoProgress <- CliNoProgress,
          Faults <- CliThrottle

C == INSTANCE TaskLoop
     WITH Kind <- "cli", MaxStrand <- CliStrand, MaxNoProgress <- CliNoProgress,
          Faults <- CliContext

MCInit ==
    \/ part = "sdk" /\ Init
    \/ part = "sdk periodic" /\ S!Init
    \/ part \in {"cli throttle", "cli context"} /\ C!Init

MCNext ==
    /\ UNCHANGED part
    /\ \/ part = "sdk" /\ Next
       \/ part = "sdk periodic" /\ S!Next
       \/ part = "cli throttle" /\ T!Next
       \/ part = "cli context" /\ C!Next

MCSpec == MCInit /\ [][MCNext]_<<part, vars>>

-----------------------------------------------------------------------------
OfCli == part \in {"cli throttle", "cli context"}

(* Where exits are judged, no task is reported failed with its box ticked,   *)
(* and none is reported done while it is open but in the ways that are named *)
(* (the budgets and the guards after the wait of taskLoop.ts).               *)
CliReports == [][OfCli => C!FailsOpen /\ C!Accounts]_vars

(* With an sdk provider a blocked task stays out of the rotation until it is *)
(* reopened or the loop is restarted (_blockedTasks).                        *)
SdkKeepsOut == [][~OfCli => KeepsOut]_vars
=============================================================================
