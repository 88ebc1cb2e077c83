------------------------------ MODULE MCCliExit ------------------------------
(***************************************************************************)
(* The decision at a process's end (CliExit) for TLC, and four parts of     *)
(* the agent that keep what a conversation is about: the cadence of the     *)
(* profile, which session a turn goes to, the feed of grok's tool calls and *)
(* the MCP servers the providers are given.  They share no state: a         *)
(* behaviour is one of one part, and the others stay where they started.    *)
(***************************************************************************)
EXTENDS CliExit

CONSTANTS
    CdEvery, CdReset, CdAct, CdMaxFaults,
    CvMaxSess, CvMaxTurn, CvMaxUser, CvMaxFaults,
    StMaxRec, StMaxTurn, StMaxFaults,
    McProc, McMaxCmd, McMaxFaults

VARIABLES
    part,
    mode, phase, ctx, file, force, include, count, resets, autos, bare, since, blame,
    loose, faults,
    cvKind, cvSaved, cvCleared, cvStore, cvNext, cvClient, cvLatest, cvTurn, cvLookup,
    cvClear, cvBound, cvRestore, cvUser, cvFaults, cvFresh, cvWhy, cvLeaks,
    stLog, stHalf, stNewest, stMade, stLoop, stTurn, stGrok, stSeen, stPending, stBridge,
    stFed, stTwice, stMissed, stFaults,
    mcJson, mcOffice, mcFile, mcForeign, mcOpaque, mcProc, mcLeft, mcFaults, mcAsked,
    mcRisk, mcGone, mcTaken, mcLoose, mcSpoilt

D == INSTANCE Cadence
C == INSTANCE Conversations
T == INSTANCE SessionTail
M == INSTANCE McpConfig

dv == <<mode, phase, ctx, file, force, include, count, resets, autos, bare, since, blame,
        loose, faults>>
cv == <<cvKind, cvSaved, cvCleared, cvStore, cvNext, cvClient, cvLatest, cvTurn, cvLookup,
        cvClear, cvBound, cvRestore, cvUser, cvFaults, cvFresh, cvWhy, cvLeaks>>
tv == <<stLog, stHalf, stNewest, stMade, stLoop, stTurn, stGrok, stSeen, stPending,
        stBridge, stFed, stTwice, stMissed, stFaults>>
mv == <<mcJson, mcOffice, mcFile, mcForeign, mcOpaque, mcProc, mcLeft, mcFaults, mcAsked,
        mcRisk, mcGone, mcTaken, mcLoose, mcSpoilt>>

\* A part that is not looked at starts in one way only.
MCInit ==
    /\ part \in {"exit", "cadence", "sessions", "feed", "servers"}
    /\ Init /\ D!CdInit /\ C!CvInit /\ T!StInit /\ M!McInit
    /\ part # "exit" => mark = "wip" /\ ~othersOpen /\ log = <<>>
    /\ part # "cadence" => mode.loop /\ mode.host /\ ~mode.old
    /\ part # "sessions" => cvKind = "live"

\* Bound: all commands and no mishap, or a mishap and a command less.
Affordable == mcLeft' + mcFaults' > 0

MCNext ==
    \/ part = "exit" /\ Next /\ UNCHANGED <<part, dv, cv, tv, mv>>
    \/ part = "cadence" /\ D!CdNext /\ UNCHANGED <<part, vars, cv, tv, mv>>
    \/ part = "sessions" /\ C!CvNext /\ UNCHANGED <<part, vars, dv, tv, mv>>
    \/ part = "feed" /\ T!StNext /\ UNCHANGED <<part, vars, dv, cv, mv>>
    \/ part = "servers" /\ M!McNext /\ Affordable /\ UNCHANGED <<part, vars, dv, cv, tv>>

MCSpec == MCInit /\ [][MCNext]_<<part, vars, dv, cv, tv, mv>>

-----------------------------------------------------------------------------
(* Properties: those of the parts, stated and explained where they are      *)
(* defined.                                                                 *)

\* No task is put to a context without the profile but after a named accident,
\* and then not for long (profileCadence.ts, taskLoop.ts:2247-2262).
ProfileKept == D!CdTypeOK /\ D!NeverPlainlyBare /\ D!BareIsBounded

\* A session that persists and holds the profile is not sent it again before
\* the interval is over.
NoRedump == D!NoRedump

\* What was cleared does not come back into a turn, and a restored agent does
\* not talk on in another agent's session, but in the ways that are named.
OwnSession == C!CvTypeOK /\ C!FreshStaysFresh /\ C!OwnConversation

\* A call of grok's is told to the office once, and before the end of its turn;
\* a turn of the pane is ended by its own record (sessionTail.ts, tui.ts).
FeedHolds == T!StTypeOK /\ T!EndedByItself /\ T!NoCallMissed /\ T!ToldOnce

\* The provider files list what .mcp.json has switched on, which is what the user
\* asked for last, and nobody else's entries are lost, but where commands met
\* (configManager.ts).
ServersHold == M!McTypeOK /\ M!FilesHold /\ M!EntriesKept

\* What an agent keeps from turn to turn is still what it was when it is used: the
\* profile, the session, the feed and the servers, in the parts above.
SessionsHold ==
    /\ part = "cadence" => ProfileKept
    /\ part = "sessions" => OwnSession
    /\ part = "feed" => FeedHolds
    /\ part = "servers" => ServersHold
=============================================================================
