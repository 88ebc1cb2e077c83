------------------------------ MODULE Cadence ------------------------------
(***************************************************************************)
(* What the task loop does every so many turns: it sends the agent's       *)
(* profile again, compacts the session, starts a fresh one, and dispatches *)
(* the periodic actions.  What is at stake is whether the context the      *)
(* model answers from holds the profile it is told to work by.             *)
(*                                                                         *)
(* Two parts of the program decide whether a turn continues a context: the *)
(* loop, which throttles the profile by it, and the dispatcher, which      *)
(* resumes the session by it.                                              *)
(*                                                                         *)
(* Code modelled: core/profileCadence.ts; periodicActions.ts 200-310;      *)
(* taskLoop.ts 529-578, 630-645, 2246-2293, 2734-2739, 2803-2931,          *)
(* 3138-3199; dispatcher.ts 145-235.                                       *)
(***************************************************************************)
EXTENDS Integers, FiniteSets

CONSTANTS CdEvery,      \* profileEveryNTasks
          CdReset,      \* resetSessionEveryNTurns
          CdAct,        \* the interval of every periodic action, and autoCompactInterval
          CdMaxFaults   \* bound: failed dispatches and turns, refused writes, restarts, lost sessions

VARIABLES mode,         \* the settings: loop and host resume or not; the old auto-compact or the periodic one
          phase,        \* where the loop is
          ctx,          \* the context of the provider's session: with the profile, without it, no session
          file,         \* .autodev/.profile-turns; -1: never delivered
          force,        \* _forceProfileNextTurn
          include,      \* whether the turn in hand carries the profile
          count,        \* the counter of each periodic action
          resets, autos, \* _resetSessionCounter, _autoCompactCounter
          bare,         \* turns answered from a context without the profile
          since,        \* dispatches since the profile was last sent
          blame,        \* why the context is without it
          loose,        \* a write was refused; a compact or reset asked for the profile
          faults
cdVars == <<mode, phase, ctx, file, force, include, count, resets, autos,
            bare, since, blame, loose, faults>>

Action == {"compact", "prompt"}
Modes == {[loop |-> TRUE,  host |-> TRUE,  old |-> FALSE],
          [loop |-> TRUE,  host |-> TRUE,  old |-> TRUE],
          [loop |-> FALSE, host |-> FALSE, old |-> FALSE],
          \* grok-acp without resumeSession
          [loop |-> FALSE, host |-> TRUE,  old |-> FALSE]}
\* Bound: a context is never more turns than this without the profile.
BareBound == (CdEvery - 1) * (CdMaxFaults + 1)

CdTypeOK ==
  /\ mode \in Modes
  /\ phase \in {"pick", "send", "turn", "auto", "reset", "due", "compacting", "off"}
  /\ ctx \in {"full", "bare", "none"}
  /\ file \in -1..CdEvery
  /\ force \in BOOLEAN /\ include \in BOOLEAN
  /\ count \in [Action -> 0..CdAct]
  /\ resets \in 0..CdReset /\ autos \in 0..CdAct
  /\ bare \in 0..BareBound + 1 /\ since \in 0..CdEvery
  /\ blame \subseteq {"compacted", "dispatch", "lost", "killed"}
  /\ loose \subseteq {"unwritten", "asked"}
  /\ faults \in 0..CdMaxFaults

CdInit ==
  /\ mode \in Modes
  /\ phase = "pick" /\ ctx = "none" /\ file = -1 /\ force = FALSE /\ include = FALSE
  /\ count = [a \in Action |-> 0] /\ resets = 0 /\ autos = 0
  /\ bare = 0 /\ since = 0 /\ blame = {} /\ loose = {} /\ faults = 0

Upset == faults < CdMaxFaults /\ faults' = faults + 1
Calm == UNCHANGED faults
\* A counter is only compared with its limit from below.
Bump(n, limit) == IF n < limit THEN n + 1 ELSE n

(***************************************************************************)
(* The profile.  The counter is written before the turn is dispatched, and *)
(* a write that fails is passed over.                                      *)
(***************************************************************************)
Included ==
  \/ force
  \/ ~mode.loop
  \/ file < 0
  \/ file >= CdEvery
NextTurns(inc) == IF inc THEN 1 ELSE (IF file < 0 THEN 0 ELSE file) + 1

Saved(n, l) ==
  \/ file' = n /\ loose' = l /\ Calm
  \/ file # n /\ loose' = l \cup {"unwritten"} /\ Upset /\ UNCHANGED file

Dispatch ==
  /\ phase = "pick" /\ phase' = "send"
  /\ include' = Included /\ force' = FALSE
  /\ Saved(NextTurns(Included), IF Included THEN loose \ {"asked"} ELSE loose)
  /\ since' = IF Included THEN 1 ELSE Bump(since, CdEvery)
  /\ UNCHANGED <<mode, ctx, count, resets, autos, bare, blame>>

\* The prompt reaches the model: in the context that goes on, or in a fresh one.
Continues == mode.host /\ ctx # "none"
Delivered ==
  /\ phase = "send" /\ phase' = "turn"
  /\ ctx' = IF include THEN "full" ELSE IF Continues THEN ctx ELSE "bare"
  /\ bare' = IF ctx' = "full" THEN 0 ELSE Bump(bare, BareBound + 1)
  /\ blame' = IF include THEN {} ELSE blame
  /\ Calm
  /\ UNCHANGED <<mode, file, force, include, count, resets, autos, since, loose>>

\* The dispatch throws, or the provider never starts on it.
DispatchFails ==
  /\ phase = "send" /\ Upset /\ phase' = "pick"
  /\ blame' = IF include /\ ctx # "full" THEN blame \cup {"dispatch"} ELSE blame
  /\ UNCHANGED <<mode, ctx, file, force, include, count, resets, autos, bare, since, loose>>

(***************************************************************************)
(* The end of a turn.                                                      *)
(***************************************************************************)
Increments ==
  /\ phase = "turn" /\ phase' = "auto"
  /\ count' = [a \in Action |-> Bump(count[a], CdAct)]
  /\ resets' = Bump(resets, CdReset) /\ autos' = Bump(autos, CdAct)
  /\ ctx' = IF mode.host THEN ctx ELSE "none"
  /\ Calm
  /\ UNCHANGED <<mode, file, force, include, bare, since, blame, loose>>

TurnFails ==
  /\ phase = "turn" /\ Upset /\ phase' = "pick"
  /\ ctx' = IF mode.host THEN ctx ELSE "none"
  /\ UNCHANGED <<mode, file, force, include, count, resets, autos, bare, since, blame, loose>>

\* The context is full: it is compacted, or for a prompt that is too long
\* cleared, and the task tried again.
ContextFull ==
  /\ phase = "turn" /\ Upset /\ phase' = "pick"
  /\ ctx' \in (IF mode.host THEN {"bare", "none"} ELSE {"none"})
  /\ blame' = blame \cup {"compacted"}
  /\ UNCHANGED <<mode, file, force, include, count, resets, autos, bare, since, loose>>

AutoCompact ==
  /\ phase = "auto" /\ phase' = "reset"
  /\ IF mode.old /\ autos >= CdAct
     THEN /\ autos' = 0
          /\ ctx' = IF ctx = "full" THEN "bare" ELSE ctx
          /\ blame' = blame \cup {"compacted"}
     ELSE UNCHANGED <<autos, ctx, blame>>
  /\ Calm
  /\ UNCHANGED <<mode, file, force, include, count, resets, bare, since, loose>>

\* Whatever was put into the context is gone: the next turn carries the profile.
Reanchor == force' = TRUE /\ Saved(-1, loose \cup {"asked"})

SessionReset ==
  /\ phase = "reset" /\ phase' = "due"
  /\ IF mode.loop /\ resets >= CdReset
     THEN resets' = 0 /\ ctx' = "none" /\ Reanchor
     ELSE UNCHANGED <<resets, ctx, force, file, loose>> /\ Calm
  /\ UNCHANGED <<mode, include, count, autos, bare, since, blame>>

(***************************************************************************)
(* The periodic actions that are due, one after the other.  An action      *)
(* counts as handled before it runs.                                       *)
(***************************************************************************)
\* The old auto-compact is used only when the periodic one is off.
DueNow == {a \in Action : count[a] >= CdAct /\ (a = "compact" => ~mode.old)}
Handled(a) == count' = [count EXCEPT ![a] = 0]

\* A prompt goes out without the profile, and the loop does not wait for it.
PromptAction ==
  /\ phase = "due" /\ "prompt" \in DueNow /\ "compact" \notin DueNow
  /\ Handled("prompt")
  /\ \/ ctx' = (IF mode.host /\ ctx = "none" THEN "bare" ELSE ctx) /\ Calm
     \/ UNCHANGED ctx /\ Upset
  /\ UNCHANGED <<mode, phase, file, force, include, resets, autos, bare, since, blame, loose>>

\* Two minutes have passed since the last compact, or not.
CompactAction ==
  /\ phase = "due" /\ "compact" \in DueNow
  /\ Handled("compact")
  /\ phase' \in {"compacting", "due"}
  /\ Calm
  /\ UNCHANGED <<mode, ctx, file, force, include, resets, autos, bare, since, blame, loose>>

\* compact() ends: done, or failed for want of a session or a provider that can.
CompactEnds ==
  /\ phase = "compacting" /\ phase' = "due"
  /\ ctx' \in {ctx, IF ctx = "full" THEN "bare" ELSE ctx}
  /\ Reanchor
  /\ UNCHANGED <<mode, include, count, resets, autos, bare, since, blame>>

NothingDue ==
  /\ phase = "due" /\ DueNow = {} /\ phase' = "pick"
  /\ Calm
  /\ UNCHANGED <<mode, ctx, file, force, include, count, resets, autos, bare, since, blame, loose>>

(***************************************************************************)
(* The loop stops or dies anywhere, also while a compact is under way; the *)
(* provider may lose the session.                                          *)
(***************************************************************************)
Halts ==
  /\ phase # "off" /\ Upset /\ phase' = "off"
  /\ \/ /\ phase = "compacting" /\ ctx' = IF ctx = "full" THEN "bare" ELSE ctx
        /\ blame' = blame \cup {"killed"}
     \/ /\ ctx' = IF mode.host THEN ctx ELSE "none"
        \* The profile this turn was to bring, or what forced it, is forgotten.
        /\ blame' = IF phase = "send" \/ force THEN blame \cup {"killed"} ELSE blame
  /\ UNCHANGED <<mode, file, force, include, count, resets, autos, bare, since, loose>>
\* Mistake: a start forgets what was delivered.
KeptAtStartNot == -1
KeptAtStart == file
Starts ==
  /\ phase = "off" /\ phase' = "pick"
  /\ count' = [a \in Action |-> 0] /\ resets' = 0 /\ autos' = 0 /\ force' = FALSE
  /\ file' = KeptAtStart
  /\ Calm
  /\ UNCHANGED <<mode, ctx, include, bare, since, blame, loose>>
SessionLost ==
  /\ phase \in {"pick", "off"} /\ mode.host /\ ctx # "none" /\ Upset
  /\ ctx' = "none" /\ blame' = blame \cup {"lost"}
  /\ UNCHANGED <<mode, phase, file, force, include, count, resets, autos, bare, since, loose>>

CdNext == Dispatch \/ Delivered \/ DispatchFails \/ Increments \/ TurnFails
          \/ ContextFull \/ AutoCompact \/ SessionReset \/ PromptAction
          \/ CompactAction \/ CompactEnds \/ NothingDue \/ Halts \/ Starts
          \/ SessionLost
CdSpec == CdInit /\ [][CdNext]_cdVars

(***************************************************************************)
(* Properties.                                                             *)
(***************************************************************************)
\* A task is never put to a context without the profile unless one of these
\* happened to it: a compact the cadence is not told of, a dispatch that failed
\* after it was counted, a lost session, a loop killed at the wrong moment.
NeverPlainlyBare == phase = "turn" /\ ctx = "bare" => blame # {}

\* Even then it lasts no longer than one interval for each of those accidents:
\* the profile comes again by the count alone.
BareIsBounded == bare <= BareBound

\* Into a session that goes on, and that holds the profile, it is sent again
\* only when a compact or a reset may have dropped it or the interval is over,
\* also across restarts of the loop.  (grok-acp without resumeSession apart.)
NoRedump ==
  [][phase = "pick" /\ phase' = "send" /\ include' /\ mode.host /\ mode.loop
       /\ ctx = "full" /\ loose = {} => since >= CdEvery]_cdVars

=============================================================================
