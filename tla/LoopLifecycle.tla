--------------------------- MODULE LoopLifecycle ---------------------------
(***************************************************************************)
(* Who keeps a workspace's loop running: the `autodev office` supervisor,  *)
(* which polls the roster and spawns `autodev start`; the user, who stops  *)
(* and starts it by hand; the start command's own guards; and the restarts *)
(* a loop does on itself.  They share the stop marker, ws-presence.lock    *)
(* and .autodev/settings.json, and none of them locks anything.            *)
(*                                                                         *)
(* One character.  The desktop application writes the marker and kills the *)
(* loop; it is outside this repository.                                    *)
(***************************************************************************)
EXTENDS Naturals, FiniteSets

CONSTANTS
  LcLoop,         \* loop processes that can be started
  LcPoll,         \* polls that can be under way at once
  LcMaxUser,      \* bound: what the user does
  LcMaxRestart,   \* bound: restarts asked for
  LcMaxFaults     \* bound: crashes, failed fetches, locks that go stale

VARIABLES
  lcSup,       \* the supervisor: "up", "stopping", "gone"
  lcPoll,      \* polls: "idle", "roster", what the roster said, "creds"
  lcStarting,  \* the character is in `starting`
  lcChild,     \* the loop in `children`
  lcLoop,      \* the loop processes
  lcLock,      \* ws-presence.lock: its owner, and whether it is fresh
  lcMarker,    \* .autodev/stopped is there
  lcResume,    \* resumeSession in settings.json: "unset", "off", "on"
  lcUser, lcRestart, lcFaults,
  lcWants,     \* history: what the user asked last, "run" or "stopped"
  lcSaidOff,   \* history: the user turned resumeSession off
  lcPassed,    \* history: a poll had passed the marker when the user stopped
  lcBlind      \* history: a loop started that could not see another's lock

lcVars == <<lcSup, lcPoll, lcStarting, lcChild, lcLoop, lcLock, lcMarker, lcResume,
            lcUser, lcRestart, lcFaults, lcWants, lcSaidOff, lcPassed, lcBlind>>

None == "none"
NoLoop == [st |-> "free", by |-> "user", state |-> "idle", runs |-> 0, waits |-> 0,
           late |-> FALSE, resume |-> "on", parent |-> FALSE]

LcInit ==
  /\ lcSup = "up" /\ lcPoll = [k \in LcPoll |-> "idle"]
  /\ lcStarting = FALSE /\ lcChild = None
  /\ lcLoop = [l \in LcLoop |-> NoLoop]
  /\ lcLock = [owner |-> None, fresh |-> FALSE]
  /\ lcMarker = FALSE /\ lcResume = "unset"
  /\ lcUser = LcMaxUser /\ lcRestart = LcMaxRestart /\ lcFaults = LcMaxFaults
  /\ lcWants = "run" /\ lcSaidOff = FALSE /\ lcPassed = FALSE /\ lcBlind = FALSE

Live == {l \in LcLoop : lcLoop[l].st \in {"boot", "run", "up"}}
Online == {l \in LcLoop : lcLoop[l].st = "up"}

HistoryKept == UNCHANGED <<lcWants, lcSaidOff, lcPassed, lcBlind>>

-----------------------------------------------------------------------------
(* The supervisor.                                                         *)

\* The interval does not wait for the poll before it.
Idle == {k \in LcPoll : lcPoll[k] = "idle"}

PollBegins ==
  /\ lcSup = "up" /\ Idle # {}
  /\ lcPoll' = [lcPoll EXCEPT ![CHOOSE k \in Idle : TRUE] = "roster"]
  /\ UNCHANGED <<lcSup, lcStarting, lcChild, lcLoop, lcLock, lcMarker, lcResume, lcUser, lcRestart, lcFaults>>
  /\ HistoryKept

\* The office answers; with more characters the answer may be old by the time
\* this one is looked at.
RosterSays(k) ==
  /\ lcPoll[k] = "roster"
  /\ \/ lcPoll' = [lcPoll EXCEPT ![k] = IF Online = {} THEN "offline" ELSE "online"] /\ UNCHANGED lcFaults
     \/ lcPoll' = [lcPoll EXCEPT ![k] = "idle"] /\ lcFaults > 0 /\ lcFaults' = lcFaults - 1
  /\ UNCHANGED <<lcSup, lcStarting, lcChild, lcLoop, lcLock, lcMarker, lcResume, lcUser, lcRestart>>
  /\ HistoryKept

Startable(k) == lcChild = None /\ ~lcStarting /\ lcPoll[k] = "offline" /\ ~lcMarker

PollJudges(k) ==
  /\ lcPoll[k] \in {"offline", "online"}
  /\ lcPoll' = [lcPoll EXCEPT ![k] = IF Startable(k) THEN "creds" ELSE "idle"]
  /\ lcStarting' = (lcStarting \/ Startable(k))
  /\ UNCHANGED <<lcSup, lcChild, lcLoop, lcLock, lcMarker, lcResume, lcUser, lcRestart, lcFaults>>
  /\ HistoryKept

\* applyWsUrl: the settings, defaults filled in, are written as a whole.
Bound(resume) == IF resume = "unset" THEN "off" ELSE resume

\* A process is a new one, whichever it is.
Free == {l \in LcLoop : lcLoop[l].st = "free"}
New == CHOOSE l \in Free : TRUE

Spawned(by) == [NoLoop EXCEPT !.st = "boot", !.by = by]

\* The credentials come: the workspace is bound and the loop spawned.  The
\* marker is not looked at again, nor is a shutdown.
StartAgent(k) ==
  /\ lcPoll[k] = "creds" /\ lcSup # "gone"
  /\ lcPoll' = [lcPoll EXCEPT ![k] = "idle"]
  /\ lcStarting' = FALSE
  /\ \/ /\ Free # {}
        /\ lcLoop' = [lcLoop EXCEPT ![New] = Spawned("sup")]
        /\ lcChild' = New
        /\ lcResume' = Bound(lcResume)
        /\ UNCHANGED lcFaults
     \/ /\ lcFaults > 0 /\ lcFaults' = lcFaults - 1
        /\ UNCHANGED <<lcLoop, lcChild, lcResume>>
  /\ UNCHANGED <<lcSup, lcLock, lcMarker, lcUser, lcRestart>>
  /\ HistoryKept

\* Ctrl-C: the children are told to stop, and two seconds later this exits.
Shutdown ==
  /\ lcSup = "up" /\ lcUser > 0 /\ lcUser' = lcUser - 1
  /\ lcSup' = "stopping"
  /\ lcLoop' = IF lcChild = None THEN lcLoop ELSE [lcLoop EXCEPT ![lcChild].st = "dead"]
  /\ lcChild' = None
  /\ UNCHANGED <<lcPoll, lcStarting, lcLock, lcMarker, lcResume, lcRestart, lcFaults>>
  /\ HistoryKept

\* The supervisor is gone, and what it had under way.
Ends ==
  /\ lcSup' = "gone"
  /\ lcPoll' = [k \in LcPoll |-> "idle"] /\ lcStarting' = FALSE
  /\ UNCHANGED <<lcChild, lcLoop, lcLock, lcMarker, lcResume, lcUser, lcRestart>>
  /\ HistoryKept

Exits == lcSup = "stopping" /\ Ends /\ UNCHANGED lcFaults

\* It is killed: no child is told.
SupKilled == lcSup # "gone" /\ lcFaults > 0 /\ lcFaults' = lcFaults - 1 /\ Ends

-----------------------------------------------------------------------------
(* `autodev start`.                                                        *)

Dies(l) ==
  /\ lcLoop' = [lcLoop EXCEPT ![l] = [NoLoop EXCEPT !.st = "dead"]]
  /\ lcChild' = IF lcChild = l THEN None ELSE lcChild

\* A loop is about whose lock tells nothing.
Unseen(l) == \E m \in Live \ {l} : lcLock.owner # m \/ ~lcLock.fresh

\* foreignLoopOwner: another live process holds a fresh lock.
Owned(l) == lcLock.fresh /\ lcLock.owner \in Live \ {l}

\* resumeSession is turned on unless settings.json says something.
Resumes(disk) == IF disk = "unset" THEN "on" ELSE disk

\* process.ppid as it begins is the supervisor, and not what inherits the loops
\* of one that has gone.
ParentThere(l) == lcLoop[l].by = "sup" /\ lcSup # "gone"

\* A loop that starts.
Begun(l) ==
  [lcLoop EXCEPT ![l].st = "run", ![l].state = "running", ![l].runs = 1, ![l].resume = Resumes(lcResume),
                 ![l].parent = ParentThere(l)]

\* The guard, then the marker is cleared, then the loop starts.
Boots(l) ==
  /\ lcLoop[l].st = "boot"
  /\ \/ Owned(l) /\ Dies(l) /\ UNCHANGED <<lcMarker, lcResume, lcBlind>>
     \/ /\ ~Owned(l)
        /\ lcMarker' = FALSE
        /\ lcResume' = Resumes(lcResume)
        /\ lcLoop' = Begun(l)
        /\ lcBlind' = (lcBlind \/ Unseen(l))
        /\ UNCHANGED lcChild
  /\ UNCHANGED <<lcSup, lcPoll, lcStarting, lcLock, lcUser, lcRestart, lcFaults, lcWants, lcSaidOff, lcPassed>>

\* The socket is up: the lock is written, whoever held it.
Connects(l) ==
  /\ lcLoop[l].st = "run" /\ lcLoop[l].state = "running"
  /\ lcLoop' = [lcLoop EXCEPT ![l].st = "up"]
  /\ lcLock' = [owner |-> l, fresh |-> TRUE]
  /\ UNCHANGED <<lcSup, lcPoll, lcStarting, lcChild, lcMarker, lcResume, lcUser, lcRestart, lcFaults>>
  /\ HistoryKept

\* A loop whose socket is down no longer refreshes the lock.
LockAges ==
  /\ lcLock.fresh /\ lcLock.owner \notin Online /\ lcFaults > 0
  /\ lcLock' = [lcLock EXCEPT !.fresh = FALSE] /\ lcFaults' = lcFaults - 1
  /\ UNCHANGED <<lcSup, lcPoll, lcStarting, lcChild, lcLoop, lcMarker, lcResume, lcUser, lcRestart>>
  /\ HistoryKept

Crashes(l) ==
  /\ l \in Live /\ lcFaults > 0 /\ lcFaults' = lcFaults - 1
  /\ Dies(l)
  /\ UNCHANGED <<lcSup, lcPoll, lcStarting, lcLock, lcMarker, lcResume, lcUser, lcRestart>>
  /\ HistoryKept

\* AUTODEV_EXIT_WITH_PARENT: the parent it began with is gone.
ParentGone(l) ==
  /\ l \in Live /\ lcLoop[l].by = "sup" /\ lcLoop[l].parent /\ lcSup = "gone"
  /\ Dies(l)
  /\ UNCHANGED <<lcSup, lcPoll, lcStarting, lcLock, lcMarker, lcResume, lcUser, lcRestart, lcFaults>>
  /\ HistoryKept

-----------------------------------------------------------------------------
(* restart(), on /restart, mcp_update and restore_request.                 *)

\* stop(): only a running loop becomes "stopping"; its pollers go.
RestartAsked(l) ==
  /\ lcLoop[l].st \in {"run", "up"} /\ lcRestart > 0 /\ lcRestart' = lcRestart - 1
  /\ lcLoop' = [lcLoop EXCEPT
       ![l].waits = @ + 1,
       ![l].state = IF @ = "running" THEN "stopping" ELSE @,
       ![l].st = "run"]
  /\ UNCHANGED <<lcSup, lcPoll, lcStarting, lcChild, lcLock, lcMarker, lcResume, lcUser, lcFaults>>
  /\ HistoryKept

\* A run sees that the state is not "running", or its turn is still to end.
RunEnds(l) ==
  /\ lcLoop[l].runs > 0 /\ lcLoop[l].state \in {"stopping", "idle"}
  /\ lcLoop' = [lcLoop EXCEPT ![l].runs = @ - 1, ![l].state = "idle"]
  /\ UNCHANGED <<lcSup, lcPoll, lcStarting, lcChild, lcLock, lcMarker, lcResume, lcUser, lcRestart, lcFaults>>
  /\ HistoryKept

\* start(): refused only while running.
Started(l, late) ==
  LET r == lcLoop[l] IN
  IF r.state = "running" THEN [r EXCEPT !.waits = @ - 1]
  ELSE [r EXCEPT !.waits = @ - 1, !.state = "running", !.runs = @ + 1, !.late = @ \/ late,
                 !.resume = Resumes(lcResume)]

RestartGoes(l) ==
  /\ lcLoop[l].waits > 0 /\ lcLoop[l].state \in {"idle", "running"}
  /\ lcLoop' = [lcLoop EXCEPT ![l] = Started(l, FALSE)]
  /\ lcResume' = Resumes(lcResume)
  /\ UNCHANGED <<lcSup, lcPoll, lcStarting, lcChild, lcLock, lcMarker, lcUser, lcRestart, lcFaults>>
  /\ HistoryKept

\* Fifteen seconds, and the loop has still not ended.
RestartWaitsNoLonger(l) ==
  /\ lcLoop[l].waits > 0 /\ lcLoop[l].state = "stopping"
  /\ lcLoop' = [lcLoop EXCEPT ![l] = Started(l, TRUE)]
  /\ lcResume' = Resumes(lcResume)
  /\ UNCHANGED <<lcSup, lcPoll, lcStarting, lcChild, lcLock, lcMarker, lcUser, lcRestart, lcFaults>>
  /\ HistoryKept

-----------------------------------------------------------------------------
(* The user.                                                               *)

UserActs == lcUser > 0 /\ lcUser' = lcUser - 1

\* The marker is written and the loops that have begun are killed.
UserStops ==
  /\ UserActs
  /\ lcMarker' = TRUE
  /\ lcWants' = "stopped"
  /\ lcPassed' = ((\E k \in LcPoll : lcPoll[k] = "creds") \/ (\E l \in LcLoop : lcLoop[l].st = "boot"))
  /\ lcLoop' = [l \in LcLoop |-> IF lcLoop[l].st \in {"run", "up"} THEN [NoLoop EXCEPT !.st = "dead"] ELSE lcLoop[l]]
  /\ lcChild' = IF lcChild # None /\ lcLoop[lcChild].st \in {"run", "up"} THEN None ELSE lcChild
  /\ UNCHANGED <<lcSup, lcPoll, lcStarting, lcLock, lcResume, lcRestart, lcFaults, lcSaidOff, lcBlind>>

UserStarts ==
  /\ UserActs
  /\ Free # {}
  /\ lcLoop' = [lcLoop EXCEPT ![New] = Spawned("user")]
  /\ lcWants' = "run" /\ lcPassed' = FALSE
  /\ UNCHANGED <<lcSup, lcPoll, lcStarting, lcChild, lcLock, lcMarker, lcResume, lcRestart, lcFaults, lcSaidOff, lcBlind>>

\* `config set resumeSession false`.
UserSaysOff ==
  /\ UserActs
  /\ lcResume' = "off" /\ lcSaidOff' = TRUE
  /\ UNCHANGED <<lcSup, lcPoll, lcStarting, lcChild, lcLoop, lcLock, lcMarker, lcRestart, lcFaults, lcWants, lcPassed, lcBlind>>

LcNext ==
  \/ PollBegins
  \/ \E k \in LcPoll : RosterSays(k) \/ PollJudges(k) \/ StartAgent(k)
  \/ Shutdown \/ Exits \/ SupKilled
  \/ \E l \in LcLoop : \/ Boots(l) \/ Connects(l) \/ Crashes(l) \/ ParentGone(l)
                       \/ RestartAsked(l) \/ RunEnds(l) \/ RestartGoes(l) \/ RestartWaitsNoLonger(l)
  \/ LockAges \/ UserStops \/ UserStarts \/ UserSaysOff

LcSpec == LcInit /\ [][LcNext]_lcVars

\* What one async function does next: a poll that has begun, a loop that starts,
\* a restart that waits.
PollGoesOn(k) == RosterSays(k) \/ PollJudges(k) \/ StartAgent(k)
LoopGoesOn(l) == Boots(l) \/ Connects(l)
RestartGoesOn(l) == RestartGoes(l) \/ RestartWaitsNoLonger(l)

\* The interval fires, fetches are answered (15 s), processes and timers run.
LcFairness ==
  /\ WF_lcVars(PollBegins) /\ \A k \in LcPoll : WF_lcVars(PollGoesOn(k))
  /\ WF_lcVars(Exits)
  /\ \A l \in LcLoop : WF_lcVars(LoopGoesOn(l)) /\ WF_lcVars(ParentGone(l)) /\ WF_lcVars(RestartGoesOn(l))

LcFairSpec == LcSpec /\ LcFairness

-----------------------------------------------------------------------------
LcTypeOK ==
  /\ lcSup \in {"up", "stopping", "gone"}
  /\ \A k \in LcPoll : lcPoll[k] \in {"idle", "roster", "online", "offline", "creds"}
  /\ lcStarting \in BOOLEAN /\ lcMarker \in BOOLEAN
  /\ lcChild \in LcLoop \cup {None}
  /\ \A l \in LcLoop : /\ lcLoop[l].st \in {"free", "boot", "run", "up", "dead"}
                       /\ lcLoop[l].state \in {"idle", "running", "stopping"}
                       /\ lcLoop[l].resume \in {"off", "on"} /\ lcLoop[l].parent \in BOOLEAN
  /\ lcLock.owner \in LcLoop \cup {None}
  /\ lcResume \in {"unset", "off", "on"}

\* A workspace the user stopped stays stopped, and its marker stays, unless the
\* supervisor was past its look at the marker, or a loop past its spawn, when
\* the user did so.
StoppedStays == lcWants = "stopped" /\ ~lcPassed => lcMarker /\ Live = {}

\* Two loops are online for one workspace only when one of them started while
\* the other's lock could not be seen; and a process runs the loop twice only
\* when a restart had waited in vain for the first to end.
OneLoopRuns ==
  /\ Cardinality(Online) > 1 => lcBlind
  /\ \A l \in LcLoop : lcLoop[l].runs > 1 => lcLoop[l].late

\* The supervisor never has two loops of its own.
OneChild == Cardinality({l \in Live : lcLoop[l].by = "sup"}) <= 1 \/ lcSup # "up"

Waits(l) == lcLoop[l].waits > 0

Again(l) == lcLoop[l].state = "running" \/ l \notin Live

\* A loop that is asked to restart runs again, or its process is gone.
RestartComesBack == \A l \in LcLoop : Waits(l) ~> Again(l)

Wanted == lcSup = "up" /\ lcWants = "run"

Kept == Online # {} \/ lcMarker \/ Free = {}

\* While the supervisor is up and the user wants the workspace to run, a loop
\* is online in the end (unless there is no process left to start).
KeptOnline == Wanted ~> Kept \/ ~Wanted

\* Spawned while the supervisor was shutting down, or just before it was killed,
\* and begun only when it had gone: the parent its watchdog looks after, which
\* inherited it, stays.
Unwatched(l) == lcLoop[l].st # "boot" /\ ~lcLoop[l].parent

Orphans == lcSup = "gone" /\ \E l \in Live : lcLoop[l].by = "sup" /\ ~Unwatched(l)

\* Nothing the supervisor started outlives it, but a loop that had not begun when
\* the supervisor went: that one stays.
NoOrphans == Orphans ~> ~Orphans
=============================================================================
