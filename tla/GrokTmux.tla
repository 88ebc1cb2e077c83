------------------------------ MODULE GrokTmux ------------------------------
(***************************************************************************)
(* The turns of grok in a terminal (runGrokTmuxTurn of grok/tui.ts).  One    *)
(* grok lives in a pane of tmux over many turns; a turn types "read the      *)
(* file ..." into it and polls the screen, and grok's own log, for the end.  *)
(* What an earlier turn left on the screen is there for the next to see, and *)
(* a turn the loop gave up (forceIdleGrokTui) polls on beside the next.      *)
(*                                                                         *)
(* The screen is reduced to its signs: the footer of a running turn, the     *)
(* "Worked for" line, an error or login banner, and how long nothing has     *)
(* moved (0; 5 s; 45 s).  Launching takes the slot of LaunchSlot.  Pickers   *)
(* and trust gates are answered within the grace, which is one step.  The    *)
(* session is one throughout; the text and the tool events that are read     *)
(* along the way are not shown.                                            *)
(***************************************************************************)
EXTENDS Naturals

CONSTANTS
    TmMaxTurn,      \* bound: turns
    TmMaxExtras     \* bound: steers, deaths of the pane, errors, lost and found logins

TmTurn == 1..TmMaxTurn

VARIABLES
    tmPane,         \* the pane under the agent's name, and its screen
    tmAsked,        \* typed in, not yet begun; 0 is a steer
    tmDoing,        \* what grok is working on
    tmServed,       \* history: turns whose work grok finished, or failed
    tmHandle,       \* _tmuxSessions
    tmLogin,        \* auth.json
    tmBusy,         \* _busyRoots
    tmLatest,       \* the turn dispatched last
    tmHost,         \* the loop: idle, or waiting for the exit file
    tmTurn,         \* the coroutines, with what they know
    tmExtras

tmVars == <<tmPane, tmAsked, tmDoing, tmServed, tmHandle, tmLogin, tmBusy, tmLatest, tmHost,
            tmTurn, tmExtras>>

NoPane == [life |-> "none", runs |-> "no", done |-> "no", banner |-> "no", quiet |-> 0]

(***************************************************************************)
(* phase   "grace": startup; "poll"; "esc": interrupted, settling           *)
(* tries   startups so far; clean: sawCleanTurnEnd; end: the exit code      *)
(* why     what ended it; met: history: old signs on the screen when the    *)
(*         prompt was typed, earlier work of grok, other coroutines         *)
(***************************************************************************)
NoTurn == [phase |-> "none", tries |-> 0, clean |-> "no", end |-> "", why |-> "", met |-> {}]

TmTypeOK ==
    /\ tmPane \in [life : {"none", "up"}, runs : {"no", "yes"}, done : {"no", "yes"},
                   banner : {"no", "failed", "login"}, quiet : 0..2]
    /\ tmAsked \subseteq 0..TmMaxTurn /\ tmDoing \subseteq 0..TmMaxTurn
    /\ tmServed \subseteq TmTurn
    /\ tmHandle \in {"no", "yes"} /\ tmLogin \in {"no", "yes"} /\ tmBusy \in {"no", "yes"}
    /\ tmLatest \in 0..TmMaxTurn /\ tmHost \in {"idle", "waiting"}
    /\ tmTurn \in [TmTurn -> [phase : {"none", "grace", "poll", "esc", "over"}, tries : 0..3,
                              clean : {"no", "yes"}, end : {"", "0", "1", "124"},
                              why : {"", "mark", "log", "quiet", "failed", "login", "gone",
                                     "startup", "watchdog"},
                              met : SUBSET {"mark", "failed", "login", "work", "other"}]]
    /\ tmExtras \in 0..TmMaxExtras

TmInit ==
    /\ tmPane = NoPane /\ tmAsked = {} /\ tmDoing = {} /\ tmServed = {}
    /\ tmHandle = "no" /\ tmLogin = "yes" /\ tmBusy = "no"
    /\ tmLatest = 0 /\ tmHost = "idle"
    /\ tmTurn = [t \in TmTurn |-> NoTurn] /\ tmExtras = 0

Alive(t) == tmTurn[t].phase \in {"grace", "poll", "esc"}

\* The coroutines once turn t is dispatched: those still about meet each other.  How an
\* earlier turn ended was looked at when it did.
Joined(t) == [u \in TmTurn |->
    IF u = t THEN [NoTurn EXCEPT !.met = IF \E v \in TmTurn : Alive(v) THEN {"other"} ELSE {}]
    ELSE IF Alive(u) THEN [tmTurn[u] EXCEPT !.met = @ \cup {"other"}]
    ELSE [NoTurn EXCEPT !.phase = tmTurn[u].phase, !.end = tmTurn[u].end]]

\* What a turn that types its prompt now finds.
Found ==
    (IF tmPane.done = "yes" THEN {"mark"} ELSE {})
    \cup (IF tmPane.banner = "no" THEN {} ELSE {tmPane.banner})
    \cup (IF tmAsked \cup tmDoing = {} THEN {} ELSE {"work"})

(***************************************************************************)
(* Startup                                                                 *)
(***************************************************************************)

\* launchSession: a pane of that name is killed, a new one started.
TmLaunch(t, tries, turns) ==
    /\ tmPane' = [NoPane EXCEPT !.life = "up"]
    /\ tmAsked' = {} /\ tmDoing' = {} /\ tmHandle' = "yes"
    /\ tmTurn' = [turns EXCEPT ![t].phase = "grace", ![t].tries = tries]

\* Mistake: grok's log is read from its start.
TmTypeUnseeded(t, turns) ==
    /\ tmPane' = [tmPane EXCEPT !.quiet = 0]
    /\ tmAsked' = tmAsked \cup {t}
    /\ tmTurn' = [turns EXCEPT ![t].phase = "poll", ![t].tries = 0, ![t].met = @ \cup Found,
                               ![t].clean = tmPane.done]
    /\ UNCHANGED <<tmDoing, tmHandle>>

\* The prompt is typed; the offsets into grok's log start here, so that a turn sees no
\* end from before.
TmType(t, turns) ==
    /\ tmPane' = [tmPane EXCEPT !.quiet = 0]
    /\ tmAsked' = tmAsked \cup {t}
    /\ tmTurn' = [turns EXCEPT ![t].phase = "poll", ![t].tries = 0, ![t].met = @ \cup Found]
    /\ UNCHANGED <<tmDoing, tmHandle>>

\* A dispatch of the loop, up to its first await: a live pane is used again without a
\* grace.
TmDispatch ==
    /\ tmHost = "idle" /\ tmBusy = "no" /\ tmLatest < TmMaxTurn
    /\ tmLatest' = tmLatest + 1 /\ tmHost' = "waiting" /\ tmBusy' = "yes"
    /\ IF tmHandle = "yes" /\ tmPane.life = "up"
       THEN TmType(tmLatest + 1, Joined(tmLatest + 1))
       ELSE TmLaunch(tmLatest + 1, 1, Joined(tmLatest + 1))
    /\ tmServed' = {t \in tmServed : Alive(t)}
    /\ UNCHANGED << tmLogin, tmExtras>>

\* finish and finishReauth: the root is idle, whichever turn it was, and the exit file
\* of the turn is written.
TmFinish(t, code, why) ==
    /\ tmTurn' = [tmTurn EXCEPT ![t] = [NoTurn EXCEPT !.phase = "over", !.end = code,
                       !.why = why, !.met = IF t \in tmServed THEN {} ELSE tmTurn[t].met]]
    /\ tmBusy' = "no"

\* The grace of a new pane is over.  A login gate ends the turn; a grok that died is
\* started afresh, with a session of its own, up to three times.
TmGrace(t) ==
    /\ tmTurn[t].phase = "grace"
    /\ \/ /\ tmPane.life = "up" /\ tmPane.banner = "login"
          /\ TmFinish(t, "1", "login")
          /\ UNCHANGED <<tmPane, tmAsked, tmDoing, tmHandle>>
       \/ /\ tmPane.life = "up" /\ tmPane.banner # "login"
          /\ TmType(t, tmTurn)
          /\ UNCHANGED tmBusy
       \/ /\ tmPane.life = "none" /\ tmTurn[t].tries < 3
          /\ TmLaunch(t, tmTurn[t].tries + 1, tmTurn)
          /\ UNCHANGED tmBusy
       \/ /\ tmPane.life = "none" /\ tmTurn[t].tries = 3
          /\ TmFinish(t, "1", IF tmLogin = "yes" THEN "startup" ELSE "login")
          /\ tmHandle' = "no"
          /\ UNCHANGED <<tmPane, tmAsked, tmDoing>>
    /\ UNCHANGED <<tmServed, tmLogin, tmLatest, tmHost, tmExtras>>

(***************************************************************************)
(* One poll, and the watchdog                                              *)
(***************************************************************************)

\* Which sign of an end the screen and the log show, "no" for none.
TmSign(t) ==
    IF tmTurn[t].clean = "yes" /\ tmPane.quiet >= 1 THEN "log"
    ELSE IF tmPane.runs = "yes" THEN "no"
    ELSE IF tmPane.done = "yes" /\ tmPane.quiet >= 1 THEN "mark"
    ELSE IF tmPane.quiet = 2 THEN "quiet" ELSE "no"

\* A poll that ends the turn: the pane is gone, the screen shows a login gate or an
\* error (a clean end in grok's log overrules the error), or the turn is done.
TmPoll(t) ==
    /\ tmTurn[t].phase = "poll"
    /\ \/ /\ tmPane.life = "none"
          /\ tmHandle' = "no"
          /\ TmFinish(t, "1", IF tmLogin = "yes" THEN "gone" ELSE "login")
       \/ /\ tmPane.life = "up"
          /\ tmPane.banner = "login" \/ (tmPane.banner = "failed" /\ tmLogin = "no")
          /\ TmFinish(t, "1", "login")
          /\ UNCHANGED tmHandle
       \/ /\ tmPane.life = "up"
          /\ tmPane.banner = "failed" /\ tmLogin = "yes" /\ tmTurn[t].clean = "no"
          /\ TmFinish(t, "1", "failed")
          /\ UNCHANGED tmHandle
       \/ /\ tmPane.life = "up" /\ TmSign(t) # "no"
          /\ tmPane.banner = "no" \/ (tmPane.banner = "failed" /\ tmLogin = "yes"
                                      /\ tmTurn[t].clean = "yes")
          /\ TmFinish(t, "0", TmSign(t))
          /\ UNCHANGED tmHandle
    /\ UNCHANGED <<tmPane, tmAsked, tmDoing, tmServed, tmLogin, tmLatest, tmHost, tmExtras>>

\* 20 minutes are over: grok is interrupted with Escape, which it may heed.
TmWatchdog(t) ==
    /\ tmTurn[t].phase = "poll" /\ tmPane.life = "up"
    /\ tmTurn' = [tmTurn EXCEPT ![t].phase = "esc"]
    /\ \/ tmDoing' = {} /\ tmPane' = [tmPane EXCEPT !.runs = "no"]
       \/ UNCHANGED <<tmDoing, tmPane>>
    /\ UNCHANGED <<tmAsked, tmServed, tmHandle, tmLogin, tmBusy, tmLatest, tmHost, tmExtras>>

\* 4 s later: a pane that still runs is killed.
TmSettle(t) ==
    /\ tmTurn[t].phase = "esc"
    /\ IF tmPane.life = "up" /\ tmPane.runs = "yes"
       THEN tmPane' = NoPane /\ tmAsked' = {} /\ tmDoing' = {} /\ tmHandle' = "no"
       ELSE UNCHANGED <<tmPane, tmAsked, tmDoing, tmHandle>>
    /\ TmFinish(t, "124", "watchdog")
    /\ UNCHANGED <<tmServed, tmLogin, tmLatest, tmHost, tmExtras>>

(***************************************************************************)
(* The loop                                                                *)
(***************************************************************************)

TmSeesExit ==
    /\ tmHost = "waiting" /\ tmTurn[tmLatest].end # ""
    /\ tmHost' = "idle"
    /\ UNCHANGED <<tmPane, tmAsked, tmDoing, tmServed, tmHandle, tmLogin, tmBusy, tmLatest,
                   tmTurn, tmExtras>>

\* The task was marked done in the list, and 30 s later there is no exit code yet.
TmForceIdle ==
    /\ tmHost = "waiting" /\ tmTurn[tmLatest].end = ""
    /\ tmLatest \in tmDoing \cup tmServed
    /\ tmHost' = "idle" /\ tmBusy' = "no"
    /\ UNCHANGED <<tmPane, tmAsked, tmDoing, tmServed, tmHandle, tmLogin, tmLatest, tmTurn,
                   tmExtras>>

\* steerGrokTui: typed into the pane of a turn in flight.
TmSteer ==
    /\ tmBusy = "yes" /\ tmHandle = "yes" /\ tmPane.life = "up"
    /\ tmExtras < TmMaxExtras /\ tmExtras' = tmExtras + 1
    /\ tmAsked' = tmAsked \cup {0} /\ tmPane' = [tmPane EXCEPT !.quiet = 0]
    /\ UNCHANGED <<tmDoing, tmServed, tmHandle, tmLogin, tmBusy, tmLatest, tmHost, tmTurn>>

\* closeGrokTuiSession, between turns or in the midst of one that is given up.
TmClose ==
    /\ tmPane.life = "up"
    /\ tmPane' = NoPane /\ tmAsked' = {} /\ tmDoing' = {}
    /\ tmHandle' = "no" /\ tmBusy' = "no" /\ tmHost' = "idle"
    /\ UNCHANGED <<tmServed, tmLogin, tmLatest, tmTurn, tmExtras>>

(***************************************************************************)
(* grok                                                                    *)
(***************************************************************************)

\* grok takes up what was typed; what comes while it works is folded in.
AgentTakes ==
    /\ tmPane.life = "up" /\ tmAsked # {}
    /\ tmDoing' = tmDoing \cup tmAsked /\ tmAsked' = {}
    /\ tmPane' = [tmPane EXCEPT !.runs = "yes", !.quiet = 0]
    /\ UNCHANGED <<tmServed, tmHandle, tmLogin, tmBusy, tmLatest, tmHost, tmTurn, tmExtras>>

\* It is done: the line on the screen, and an end in its log for all who read along.
\* The footer of a running turn may stay.
AgentEnds ==
    /\ tmPane.life = "up" /\ tmDoing # {}
    /\ tmServed' = tmServed \cup (tmDoing \ {0}) /\ tmDoing' = {}
    /\ \E r \in {"no", "yes"} :
          tmPane' = [tmPane EXCEPT !.runs = r, !.done = "yes", !.quiet = 0]
    /\ tmTurn' = [t \in TmTurn |-> IF tmTurn[t].phase = "poll"
                                   THEN [tmTurn[t] EXCEPT !.clean = "yes"] ELSE tmTurn[t]]
    /\ UNCHANGED <<tmAsked, tmHandle, tmLogin, tmBusy, tmLatest, tmHost, tmExtras>>

\* Its turn fails, or it asks for a login; the banner stays on the screen.
AgentFails ==
    /\ tmPane.life = "up" /\ tmDoing # {} /\ tmExtras < TmMaxExtras
    /\ tmExtras' = tmExtras + 1
    /\ tmServed' = tmServed \cup (tmDoing \ {0}) /\ tmDoing' = {}
    /\ \E b \in {"failed", "login"} :
          tmPane' = [tmPane EXCEPT !.runs = "no", !.banner = b, !.quiet = 0]
    /\ UNCHANGED <<tmAsked, tmHandle, tmLogin, tmBusy, tmLatest, tmHost, tmTurn>>

PaneDies ==
    /\ tmPane.life = "up" /\ tmExtras < TmMaxExtras
    /\ tmExtras' = tmExtras + 1
    /\ tmPane' = NoPane /\ tmAsked' = {} /\ tmDoing' = {}
    /\ UNCHANGED <<tmServed, tmHandle, tmLogin, tmBusy, tmLatest, tmHost, tmTurn>>

\* auth.json goes missing, or comes back.
LoginChanges ==
    /\ tmExtras < TmMaxExtras /\ tmExtras' = tmExtras + 1
    /\ tmLogin' = IF tmLogin = "yes" THEN "no" ELSE "yes"
    /\ UNCHANGED <<tmPane, tmAsked, tmDoing, tmServed, tmHandle, tmBusy, tmLatest, tmHost, tmTurn>>

\* Nothing has moved for 5 s, then for 45 s.
ScreenRests ==
    /\ tmPane.life = "up" /\ tmPane.quiet < 2
    /\ tmPane' = [tmPane EXCEPT !.quiet = @ + 1]
    /\ UNCHANGED <<tmAsked, tmDoing, tmServed, tmHandle, tmLogin, tmBusy, tmLatest, tmHost,
                   tmTurn, tmExtras>>

TmNext ==
    \/ TmDispatch \/ TmSeesExit \/ TmForceIdle \/ TmSteer \/ TmClose
    \/ AgentTakes \/ AgentEnds \/ AgentFails \/ PaneDies \/ LoginChanges \/ ScreenRests
    \/ \E t \in TmTurn : TmGrace(t) \/ TmPoll(t) \/ TmWatchdog(t) \/ TmSettle(t)

\* The timers of a turn go on until it ends.
TmFairness ==
    \A t \in TmTurn : /\ WF_tmVars(TmGrace(t)) /\ WF_tmVars(TmSettle(t))
                      /\ WF_tmVars(TmPoll(t) \/ TmWatchdog(t))

TmSpec == TmInit /\ [][TmNext]_tmVars /\ TmFairness

(***************************************************************************)
(* Properties                                                              *)
(***************************************************************************)

Over(t) == tmTurn[t].phase = "over"

\* A turn reported as done although grok had not finished its work: an old "Worked for"
\* line was on the screen of a pane used again, the end in the log was of earlier work,
\* another turn's coroutine was about, or grok was quiet for 45 s (tui.ts:1207-1232).
DoneComesFrom == \A t \in TmTurn : 
    Over(t) /\ tmTurn[t].end = "0" /\ tmTurn[t].why # "" /\ t \notin tmServed =>
    \/ tmTurn[t].why = "quiet"
    \/ tmTurn[t].why = "mark" /\ tmTurn[t].met \cap {"mark", "work", "other"} # {}
    \/ tmTurn[t].why = "log" /\ tmTurn[t].met \cap {"work", "other"} # {}

\* A turn reported as failed, or as stopped by a login gate, although grok had not got
\* to the end of its work: the banner of an earlier turn was still on the screen, earlier
\* work failed, or the login file is gone (tui.ts:1169-1179).
FailComesFrom == \A t \in TmTurn :
    Over(t) /\ tmTurn[t].why = "failed" /\ t \notin tmServed =>
        tmTurn[t].met \cap {"failed", "work", "other"} # {}

\* While the loop waits for a turn in flight the root is busy, unless a coroutine from
\* before was still about when it was dispatched (tui.ts:946).
BusyComesFrom == tmHost = "waiting" /\ tmBusy = "no" /\ ~Over(tmLatest) =>
    "other" \in tmTurn[tmLatest].met

\* A turn's end, and its being under way, are its own, in the parts above.
TurnsAreOwn == DoneComesFrom /\ FailComesFrom /\ BusyComesFrom

\* A turn that was dispatched ends and writes its exit code, whatever becomes of its
\* pane: every poll, and the watchdog at last, sees to it (tui.ts:1088-1266).
TmTurnEnds == \A t \in TmTurn : tmTurn[t].phase # "none" ~> Over(t)
=============================================================================
