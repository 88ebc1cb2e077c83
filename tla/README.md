# Verification project for autodev-cli

autodev-cli runs a coding agent (Claude Code, Copilot, Grok, opencode, …) over a
list of tasks kept in `TODO.md`, and lets an office server push tasks to it and
watch it.  The program is single-threaded TypeScript: everything hard in it
comes from what may happen between two `await`s, from processes and connections
that end at the wrong moment, and from files that the program, its agents, other
processes and people all rewrite without a lock.

This directory holds TLA+ modules of the parts where that matters, TLC
configurations that check them on small instances, and TLAPS proofs of most of their
safety properties for every instance.  Source paths below are relative to
`src/src/` (`taskLoop.ts` is `src/src/taskLoop.ts` in `PROJECT.json`).

```
tlc -workers 2 -config MCOfficeLink.cfg MCOfficeLink     # a run (section 4)
tlapm OfficeLinkProofs.tla                               # a proof module (section 6)
```

`PROJECT.json` lists the components, the runs, for each property a mutation of the
model that breaks it, the source lines every definition stands for, the
hazards, the disagreements found and the theorems.

## 1. The system

| Component | Source | State | Modelled |
|---|---|---|---|
| Task loop | `taskLoop.ts` | run state, the wait in progress, counters and sets per task, pause flags, active and saved provider | partly: `TaskLoop` |
| CLI-exit decisions | `cliExit.ts` | the one-shot reminder of one wait | `CliExit` |
| Provider retry policy | `core/retryBackoff.ts` | none | the budget, in `TaskLoop` |
| Task delivery verifier | `todoTaskVerifier.ts` | tracked tasks and the ticks they were seen | `TaskDelivery` |
| TODO.md and its writers | `todo.ts`, `todoWriteManager.ts` | the file | as marks of tasks, in `TaskLoop` and `TaskDelivery` |
| Other inbound pollers | `webhookPoller.ts`, `discordPoller.ts`, `emailPoller.ts` | cursors, ETag, queue | partly: `InboundPollers` |
| Instant steers | `taskLoop.ts` | a buffer in memory | `InstantSteer` |
| Durable steer queue | `pendingSteers.ts`, `taskLoop.ts` | a journal on disk, promises in memory | `DurableSteer`, abstractly `SteerQueue` |
| Verify gate | `core/controlSpec.ts`, `taskLoop.ts`, `journal.ts` | rounds of a task, a snapshot, the git tree | `VerifyGate` |
| Periodic actions, profile cadence | `periodicActions.ts`, `core/profileCadence.ts` | counters on disk and in memory | partly: `Cadence` |
| Conversations | `sessionState.ts`, `dispatcher.ts`, `taskLoop.ts` | the session id saved, the one a client holds | partly: `Conversations` |
| Backup and restore | `agentBackup/*` | an archive, a stamp, an identity | partly: `Backup` |
| WebSocket poller, status announcements | `webSocketPoller.ts`, `webhook.ts` | socket, timers, outgoing queue | partly: `OfficeLink`, `TaskDelivery` |
| WebSocket framing | `webSocketPoller.ts`, `officeSocket.ts` | read buffer, fragments | partly: `FrameLink` |
| Requests of the operate bridge | `commands/mcpOperate.ts` | replies waited for, tasks started, events | partly: `OperateCalls` |
| Presence of a workspace | `presenceGuard.ts`, `commands/start.ts`, … | three lock files | `Presence` |
| Supervision of a loop | `commands/office.ts`, `commands/start.ts` | children, the stop marker | `LoopLifecycle` |
| Remote desktop bridges | `vnc/*`, `rdp/*` | sessions and their request pipeline | partly: `RemoteDesktop` |
| Persistent ACP session | `providers/acp/AcpSession.ts`, `providers/grok/tui.ts` | one process, prompts, watchdogs | partly: `AcpSession` |
| Host of opencode's agent | `providers/opencode/acp.ts` | a session object, busy flags, exit file | partly: `AcpHost` |
| OpenCode server, Copilot session | `providers/opencode/sdk.ts`, `providers/copilot/sdk.ts` | a remembered server or session | partly: `OpencodeServer`, `CopilotSession` |
| Grok without and in a terminal | `providers/grok/tui.ts` | processes, timers; a pane | partly: `GrokHeadless`, `GrokTmux` |
| Grok launch slot, leader | `providers/grok/tui.ts`, `leader.ts` | a lock file; detached processes | `LaunchSlot`; partly: `GrokLeader` |
| The feed of grok's tool calls | `core/grokEvents.ts`, `tui.ts`, `mcpOperate.ts` | offsets into logs | `SessionTail` |
| Knowledge graph | `graphStore.ts` | a log, a snapshot, a store per process | partly: `GraphStore` |
| MCP servers of a workspace | `configManager.ts`, `core/projectMcp.ts`, `commands/mcp.ts` | `.mcp.json` and the files derived from it | partly: `McpConfig` |
| Dispatcher, hooks, git and file services, rate-limit messages, CLI back-ends, session lists, operate status, prompts, settings, skills, account commands | | none that outlives a call, or text | no; the reasons are in `PROJECT.json` |

### How they interact, and what is hard

**The loop and its providers.**  The body picks the first open task, sends it to the
provider and waits.  The wait is ended by whichever comes first of a file watcher, a poll, an
exit file, a busy flag, a throttle seen in the transcript, or `stop()`.  The counters that bound
retries are dropped on many different paths, and any write of a marker may fail.  Each provider
keeps something alive from turn to turn (a process, a server, a session object, a pane, a detached
leader) and a turn the loop gave up goes on beside its successor: its timers, answers and exit
events meet state that is no longer its own.  Correct means: every open task is settled or
handed to the operator, nothing is reported that did not happen, budgets hold even when
writes fail, a turn's end is its own, and no process is left that nobody can stop.

**Work that reaches the loop.**  The office pushes a task until it is acknowledged; an agent that
edits TODO.md writes back the copy it read minutes ago; links, acknowledgements and
writes get lost, delivery ids are forgotten, the CLI restarts.  Steers are journalled or held in
memory and handed to an agent that may die with them.  Other pollers each have their own
cursor, moved at another moment than the task is written.  Correct means: what the sender stops
sending is in the file or was done, a finished piece of work does not come back, and
nothing is sent for ever.

**What a conversation carries.**  Which session a turn continues, whether its context holds the
profile, what the office was told of its tool calls, which MCP servers it has, and which
commit a failed task is reset to, are kept by different parts that see each other only
through files.

**Several processes.**  Loops, bridges, supervisors and commands of one workspace share lock files that
may be stale, a log without a lock, the office's one connection per agent, and
the launch slot of a machine.

## 2. Plan

What the first plan named is built; each module is in section 3.  Left:

* Theorems for `SessionsHold` and `NoRedump`, the last safety properties without one.  Their four parts
  (`Cadence`, `Conversations`, `SessionTail`, `McpConfig`) are taken by `INSTANCE` in `MCCliExit`; a proof
  module that EXTENDS the root and names what it needs as `D!...`, `C!...`, as `TaskDeliveryProofs` and
  `DurableSteerProofs` do, can state them.
* Lines of TODO.md found again after others have moved (`todo.ts`: `task.line` is trusted
  before the text is searched), as a module that refines the marks of `TaskLoop`.
* The delays of `core/retryBackoff.ts`.

## 3. The modules

Every module states at its head what it stands for.  Its variables carry the names of the
fields where TLA+ allows it, and comments name the code; actions have the names
of handlers.  History variables (what raced, which fault came before) are there for properties to
name their exceptions by: no guard of the code's behaviour reads them, except where a
module says so.  Definitions headed *Mistake* are plausible errors; no action uses them, and the
mutants of `PROJECT.json` put them in place of a definition.

### The loop and what it is given

**TaskLoop.**  A step is what the code runs between two awaits that really yield; TODO.md writes are
synchronous behind resolved promises and do not.  `pc` names where the body is suspended
(`top`, `send`, `wait`, `flush`, `post`, `sleep`, `paused`, `stopped`).  `wait` holds the locals of
`_waitForTaskCompletion` and of the `onCliExit` it may have in flight; `leftover` is an
`onCliExit` that still sleeps its backoff for a wait that has ended.  `mark` is TODO.md as the
marks of `N` tasks.  `Kind` selects what depends on the provider, `Faults` what the environment may
do: `write` (a marker is not written), `send` (`sendToAi` throws), `kill` (no exit
code), `clobber` (the agent drops a line), `human`, `throttle`, `auth`, `context`, `periodic`.

**CliExit.**  One wait.  `log` is hooks-events.jsonl with each event reduced to what `decide()`
tells apart and the process that wrote it; `Seen` is what the tail and the timestamp cut leave,
`Decide` the order of the questions.

**TaskDelivery.**  `view` is the agent's copy of TODO.md and `age` the ticks since it was read,
`tracked` the verifier's table, `seen` the persisted delivery ids, `delivered` what the office no
longer pushes.  Two assumptions are parameters and not facts of the code: a copy is written back at
most `Window` ticks after it was read, and two rewrites are a tick apart (`rested`).

**InboundPollers, InstantSteer, VerifyGate.**  Messages of an outside service with the poller's own order of
cursor, acknowledgement and append; a steer on its way into a running turn or, over a
buffer in memory, into TODO.md; the rounds of verify, fix and discard with the git tree.

**SteerQueue, DurableSteer.**  The promise of `pendingSteers.ts` (accept, run, settle), and the
code: journal, hand-off, completion, drain at a boundary, kills inside an append or a rewrite.
The refinement mapping is `waiting <- accepted \ seen`, `settled <- seen`.

### What a conversation carries

**Cadence** decides per turn whether the profile is sent, and says whether the context it is sent to
holds it.  **Conversations** has the session saved, discovered, held and captured, for three kinds of
provider.  **SessionTail** has three readers of one log with offsets of their own.  **McpConfig**
has the commands and the sync that derives provider files from `.mcp.json`, one
read-modify-write of one file at a time.  **Backup** has the order in which an archive is
filled and a restore puts files, identity, session state and traces back.  `BkUnkept` are the sessions of the
providers whose collectors take nothing; a store or a file that cannot be read, a file that cannot be written
and a directory that cannot be made are alternatives of the step that meets them, and `captured`
is what the manifest says of it.  `bkTorn` has what restores left undone, identity and session state apart.

### The office

**OfficeLink.**  The loop reduced to what it announces, and the connection: `Send` writes, loses
or queues; `Handshake` flushes the queue and then says how the loop stands, in one step as in the code.
`shown` is the badge.  **FrameLink** has the two hand-written readers over a byte stream that TCP cuts
anywhere.  **OperateCalls** has the calls of an operate bridge over the socket and again over
HTTP.  **Presence** has loops and bridges that see three lock files.  **RemoteDesktop** has the
session managers and the bridges with their request pipeline.

### Providers

**AcpSession** is one session object with the processes it starts, and the host of a turn of
grok.  Continuations of promises are urgent: they run before the next event.  **AcpHost** is the
host of opencode's agent with its fallback to the server; **OpencodeServer** and
**CopilotSession** are the two others that live on from turn to turn.  **GrokHeadless** is a process
per turn with probe, watchdog and relaunch; **GrokTmux** turns in a pane; **LaunchSlot** the lock that
spaces launches; **GrokLeader** the backend that outlives the loop.

### Several processes

**GraphStore** is a log and a snapshot with one store per process; what a store holds is a function of
the lines it applied, so it is the set of their positions.  **LoopLifecycle** is the supervisor, the
start command, the user and restarts.

### Composition

`MCCliExit`, `MCTaskLoop`, `MCTaskDelivery`, `MCOfficeLink`, `MCRemoteDesktop`, `MCDurableSteer`,
`MCAcpHost` and `MCGraphStore` are the roots TLC runs.  All but `MCTaskLoop` put several modules side
by side: the variable `part` says which of them a behaviour is of, and the others stay where they
started.  The parts share no state, so a run checks each of them and no interaction between them;
an interaction is modelled inside a module (the loop and its provider in `TaskLoop`, poller,
verifier and agent in `TaskDelivery`, host and session in `AcpSession`).  `MCTaskLoop` is four
instances of one module, one per group of faults.  `AllEnds` merges the liveness properties of
the parts: `Owed(i)` is what the part at hand owes, `Paid(i)` when it is settled, and the comment
names the properties that are merged, which each module states by itself.

`SteerQueue` is the abstract specification that is refined (`AtLeastOnce` in `DurableSteer`).

## 4. What the runs check

Deadlock is checked in `acp` and `grok`.  Elsewhere the system may really stop: a wait decided, a loop
stopped, all commands given, everything delivered.

| Run | Root | Properties | Bounds, and why they are enough |
|---|---|---|---|
| `cliexit` | `MCCliExit` | `ExitHolds`, `SessionsHold`, `NoRedump` | four events and a tail of three: an old event, work and two failures in every order, one pushed out.  Cadence: intervals 3, 3 and 2 so that they meet in every phase; three faults.  Sessions: four, three turns, three requests, a fault.  Feed: four records over two turns, a kill.  Servers: two processes and three commands, or two and a mishap (`Affordable`) |
| `taskloop` | `MCTaskLoop` | `TypeOK`, `LoopHolds`, `CliReports`, `SdkKeepsOut` | two tasks (one waited for, one that decides "something else is open"), every budget 1 (2 turns without progress for sdk, strand budget 0 for cli).  Faults in groups: clobber, human, write; periodic, send; throttle, auth, kill; context, kill |
| `delivery` | `MCTaskDelivery` | `TypeOK`, `AckedIsKept`, `WorkHolds`, `AllEnds` | one task under two delivery ids with a list of one, four faults, copies up to two ticks old against three ticks.  Pollers: two messages, two polls at once, two faults.  Two steers.  A loop with two tasks and no faults.  Gate: two tasks, two tries, a fault |
| `office` | `MCOfficeLink` | `LinkHolds`, `BadgeIsTrue`, `ReadersHold`, `AllEnds` | a queue of two, three lost, silent or rejected connections.  Frames: two messages, two control frames, three connections.  Calls: two at once, two clients with the same ids, two faults, as calls go over HTTP when the link is lost and may lose their answer there |
| `desktop` | `MCRemoteDesktop` | `TunnelsHold`, `PresenceHolds`, `PresenceSteps`, `AllEnds` | two sessions over one VNC and one RDP id, two reconnects.  Two loops and two bridges of which three start, one hook event, a lost connection |
| `steer` | `MCDurableSteer` | `TypeOK`, `NeverForgotten`, `MachineHolds`, `AtLeastOnce`, `NotRunAgain`, `AllEnds` | two steers, one without an office id, four faults: a kill in the rewrite of one steer that loses the other, and its replay, need two.  Two turns in a pane; two agents at the slot; three backends of grok; two loops and two overlapping polls, each taken in order as they do not differ, a supervisor that exits or is killed |
| `acphost` | `MCAcpHost` | `HostHolds`, `BackendsHold`, `AllEnds` | three turns and four faults of opencode's agent; two turns and one extra prompt of its server; three turns and two faults of copilot: a timer that outlives its turn needs a victim and a third to hit |
| `acp` | `AcpSession` | `TypeOK`, `LoadingNotStranded`, `WorkIsTracked`, `StepsLoseNothing`, `TurnEnds` | two processes, two prompts, one tool: a late exit event and its successor, a steer behind a turn |
| `graph` | `MCGraphStore` | `GraphHolds`, `MissesOnlyRaced`, `BackupHolds`, `FlagsStay` | two stores, two facts, two calls and a crash; backups: four moments, two requests, a fault of any kind, one session of a provider that is not collected and one that is.  Stores and facts are interchangeable and no property looks beyond one step, so symmetry is sound |
| `grok` | `GrokHeadless` | `HeadlessHolds`, `HeadlessSteps`, `TurnsGoOn` | two processes whose close events are to come, two failures in a row, one extension |
| `taskloop_auth`, `delivery_restart` | `TaskLoop`, `TaskDelivery` | violations, section 5 | the smallest instance that shows it |

Bounds of the models, not of the code, are the constants called `Max…` or described as *bound*; the
budgets of `TaskLoop`, the tail of `CliExit`, the list of delivery ids and the outgoing queue are
the code's own, made small.  A full context is not combined with a throttle or a login in one run of `TaskLoop`.
One task is enough for the deliveries because tasks meet only in the bounded list of delivery
ids, which two ids of one task already overflow; the proof is for any number.

### Fairness

Weak fairness is stated for what the runtime does by itself, never for a person, a server's or an
agent's diligence:

* timers and intervals that are armed fire (reconnection, heartbeat, watchdogs, request timeouts, the
  supervisor's poll, the verifier's tick, the loop's own 3 s and 500 ms polls);
* promises that are resolved continue, and a request ends if only by its own timeout;
* frames that were sent on a live connection arrive, a started process reports its end or its failure;
* `TaskLoop`, `VerifyGate`: a turn ends sooner or later (`AgentEnds`, `Completes`), since an
  inactivity watchdog or the provider's own deadline ends it; nothing is assumed of what the
  agent did in it;
* `TaskDelivery`, `DurableSteer`: the office sends again what was not acknowledged, and an
  agent works off its queue.

Faults are bounded where progress is claimed: with endless ones nothing could be delivered.  The
liveness of `TaskLoop` is checked without faults; with a hard failure, a throttle and a full context
alternating, the loop may go round for ever.

## 5. Where comments, docs and code disagree

Two are runs that TLC refutes; `PROJECT.json` quotes the lines, and those of the loop without a parent below.

1. `taskloop_auth`: a task paused for a login keeps its attempts, so that enough
   resumes tick it without a turn having run (`taskLoop.ts:2207` against 2933).
2. `delivery_restart`: delivery ids survive a restart and tracked tasks do not, so a replayed
   push is acknowledged although the line is gone (`webSocketPoller.ts:626` against 781).

Seen while modelling.  Each is behaviour of the model; where a property would forbid it, the property
names it as an exception.

*Loop, deliveries, steers.*

* The inactivity clock of a wait is reset by every poll that finds the task open, so it never expires
  (`taskLoop.ts:3508`).
* A task completed and archived between two ticks is appended again (`todoTaskVerifier.ts:137`).
* An agent whose turn is longer than `confirmTicks` verifier intervals can still drop an acknowledged task:
  `AckedIsKept` fails for `Window >= ConfirmTicks`.
* An append to the steer journal after a torn one continues the torn line, and neither steer can be
  read back (`pendingSteers.ts:22-23` against 81).  A steer that cannot be removed runs again at every boundary.
* A reminded process that crashes without doing anything is ticked `[x]`, because the work of the first
  process counts as work of this turn (`cliExit.ts:145`, `177`).
* A stop during a turn runs the completion path and sends `task_done` for an open task.  A `cleanup()` left over from an ended wait
  clears the abort hook of the next one (`taskLoop.ts:3785`).  `stop()` hands
  `agent_offline` to a poller it has just destroyed (1014-1020).
* A replay of an instant steer is acknowledged while the steer is in memory only, and two steers with one text
  are taken for one (1442-1451).  The comment at 1350-1356 has grok-acp among the steered providers; `_acpSteerKind` (1495) leaves it out.
* Discarding a task whose turn failed resets the branch past the kept commits of tasks that ran in
  between (2301 against 2214-2217); a change that is not committed at a discard stays (503-505).
* The profile cadence counts turns and not deliveries (`core/profileCadence.ts:125`); a compact drops the profile it is said to re-anchor
  (`core/profileCadence.ts:33-35`).
* The webhook poller stores the ETag before the answer is handled (`webhookPoller.ts:271`): after a failed append the
  service answers 304.  The Discord cursor is past a message before its task is written; a restart of it
  seeds a new cursor.  A mail whose handling failed in any way is marked `\Seen`.

*Sessions of agents.*

* Prompts of an ACP session have the default request timeout of two minutes although the comment says they do not
  (`AcpSession.ts:919-931` against 857): the agent works on, and the activity watchdog never gets a say.
* A late exit event of a killed process clears the process that replaced it, which then nobody stops (572).  A failed start leaves its
  child alive.  `_sessionId` outlives a close, so a respawn whose `session/load` fails never asks for a new one.
* The last read of a headless grok's log may abandon a launch after the check for that: the turn runs again and
  is reported as ended (`grok/tui.ts:1910-1920`).  A session that "must be fresh" falls back to the newest on disk.
* The three-minute timer of a copilot turn outlives a rejected send or a close and disposes of the
  session of a later turn (`copilot/sdk.ts:457`).
* Two starts of opencode's server at once leave one that nobody can close (`opencode/sdk.ts:257`); the
  `finally` of an abandoned turn clears the busy mark of its successor (668); an event logger whose stream ends is
  not started again.
* Two agents that find one stale launch lock both launch, and the release unlinks whoever's lock there is (`grok/tui.ts:458`); with a `~/.grok` that cannot be
  written the wait for the slot never ends (448-449).

*Office and files.*

* The bridge's socket keeps its buffer across connections: bytes of a cut frame come before the next
  connection's (`officeSocket.ts:178`).  In HTTP mode two clients that use one id get each other's replies
  (`commands/mcpOperate.ts:538`).  A client that waits for events completes tasks another client
  started; a task whose completion fails stays in progress (1448).
* A bridge that starts after an older one went dormant, and exits, leaves nobody online.  A loop that is offline for 90 s
  lets a second one start, and both evict each other for ever (`commands/start.ts:41`).
* A start frame with an id in use orphans the old tunnel, and a late failure of it deletes the entry
  of its successor (`vnc/manager.ts:60`).  Disabling the bridges does not stop sessions.
* A graph store takes the size of the file for the end of its own line, so lines of other processes
  written in between are never read by it, nor by who starts from its snapshot (`graphStore.ts:648`, 413).
* Two processes that rewrite `.mcp.json`, or derive from what they read, undo each other; grok's file loses servers
  somebody else wrote (`configManager.ts:826-832`).
* A loop that the supervisor spawns while it shuts down (`startAgent` does not look at `stopping` after its fetch,
  `commands/office.ts:199-262`), or just before it is killed, and that begins only when it has gone, takes
  whatever inherited it for its parent (`commands/start.ts:62-75`): its watchdog never fires and it stays for
  ever, although "the child reaps itself if we die" (`office.ts:237`) and "never leaves an orphaned loop"
  (`start.ts:58-59`).  `NoOrphans` names it (`Unwatched`); without that exception TLC finds it at once.
* A restore that is cut short after files are put back, by a kill, by a directory that cannot be made
  (`agentBackup/archive.ts:104`, which nothing catches) or because settings.json cannot be written
  (`import.ts:60` overlooks it), leaves an agent without an identity (`import.ts:51-60`); the next restore has then
  none to keep.  Cut short before session-state.json is removed, or unable to remove it (78), it leaves
  the session of another agent to be continued.
* A manifest names the connected sessions of session-state.json whatever was collected (`export.ts:127-136`): those of
  copilot-sdk and grok are in no archive (`sessionProviders.ts:225-250`), and opencode's are not when its database cannot be
  read (`opencodeDb.ts:49-76`).  `tracesCaptured` says so for these; but a single file that could not be read is passed
  over (`archive.ts:60-66`) and the traces of its provider are called captured all the same.
* A late look-up of the newest session undoes a clear that came in between (`taskLoop.ts:2619`).

## 6. What is proved

TLAPS proves every obligation of the eight proof modules, with SMT, Zenon and, for the last, temporal
step, LS4.  The only assumptions are the named ones on the constants, which TLC evaluates on every run:
bounds are natural numbers (`LoopBounds`, `ExitBounds`, `DeliveryAssumption`, `SteerAssumption`,
`LinkAssumption`, `AcpBounds`, `AhBounds`, `OcBounds`, `CpBounds`, `GrokBounds`, `GraphConstants`, `BkBounds`,
`BoundsAssumption`, `PrBounds`, `CallBounds`, `FrameBounds`, `MachineBounds`, `WorkBounds`), positive where the code needs one of the things; `LoopSettings` lists the
kinds and faults; loops and bridges, and the ids of the two desktop managers, are disjoint (`Processes`,
`IdsDisjoint`), there is an id at all (`SomeId`), and no call, client, task, agent or loop is called like the
marks for none of them (`CallNames`, `MachineNames`).  One theorem has a hypothesis of its own:
`AckedKept` has `Window < ConfirmTicks` (without it the property is false, section 5).

Every proof has the same shape: an inductive invariant, one lemma per action or group of actions that it is
kept, and the property as a consequence.  The new invariants were first checked by TLC
on the instances of section 4.

**`TaskLoopProofs`**, for every number of tasks, setting, provider kind and set of faults.
`TypeCorrect` includes the four budgets.  `PauseCorrect`, `StrandCorrect` and `SavedCorrect`, together
`LoopHoldsCorrect`.  The strand bound is not inductive: `StrandInv` adds that a task that is not blocked
was swept no more often than its counter says.  Three action properties of what is reported:

* `FailedIsOpenCorrect`: no task is reported failed whose box is ticked.  The fault `send` is left out: a
  send that throws is reported without a look at TODO.md.
* `BlockedStaysOutCorrect`: with an sdk provider a blocked task is not picked until it is reopened or the loop
  is restarted (`SdkInv`: there is no exit to judge and nothing queued for a retry).
* `DoneIsAccountedCorrect`: `task_done` for an open task goes out in the listed cases only.  `AccInv` says at each
  suspension what the mark of the task in hand can be, given the verdict.  `clobber` is left out: a line the agent drops
  may be put back.

These hypotheses are part of the statements, as they are of the runs: `CliReports` and
`SdkKeepsOut` are checked under groups of faults without them.

**`CliExitProofs`**: `TypeCorrect`, `OldFailureCorrect` and `ExitCorrect`, for any tail and log: an outage is never
auto-done, a throttle is no failure, nobody is failed for an earlier task's events, giving up follows a reminder.
`HardFailureEvidence` ties the backward scan to the events it may see.

**`TaskDeliveryProofs`**: `TypeCorrect` with the bound on the ids, and `AckedKept`.  `KeptInv` says why: a finished
task is never open again; one that was let go is also in the copy the agent will write back; and a count above the
age of that copy means that the copy has the line (`CountIsFresh`), so that a full count outlasts every copy.
And for the other work of `MCTaskDelivery`, together `WorkCorrect`:

* `GateCorrect`.  `VgInv`: while nothing went amiss one task has a snapshot, the one in hand if there is one
  (`SingleSnapshot`); what a task did is younger than its snapshot (`SnapshotIsOlder`) and nothing without one
  (`NotBegun`); and a reset brings back nothing that was discarded and all that was kept (`ResetIsSafe`).
* `SteersCorrect`.  `IsInv`: what is in memory was sent, an acknowledged steer was given or taken for a replay
  (`AckedWhy`), and one with its text was given or is on its way (`AckedHeld`).
* `PollersCorrect`.  `PollInv`: one poll at a time except in a channel (`Alone`).  Webhook: what lies behind a log in hand
  is marked (`WebGoes`).  Discord: a poll passes no message beyond the cursor, and what is not beyond it is queued, in hand,
  was acted on or met a mishap (`DiscordPasses`); unless polls overlapped or found the cursor unset, a message is in one
  place (`OnePlace`).  Mail: what is flagged is dealt with, and what had its effect is flagged unless a crash or a lost
  connection came between (`MailGoes`).

**`DurableSteerProofs`**: `Implements` (`DurableSteer` implements `SteerQueue`, step by step: `StepMaps`), which needs `Evidence`:
a clean answer on its way, and every seen delivery, belongs to a steer that was accepted and has run.  `TypeCorrect` with one
promise per awaited steer, `NeverForgottenCorrect` and `NotRunAgainCorrect`, from `Journal`: what is being
started is on the journal, what is settled is off it, unless a write went wrong.  And for what shares a machine,
together `MachineCorrect`:

* `SlotCorrect`.  `SlotInv`: a lock found stale is stale while it is there; until a loop was slow or killed the lock is of
  a loop inside (`LockIsUsed`), and until one was slow or impatient whoever is inside has it, and has read what the file
  of trusted folders says (`InsideHasLock`).
* `LeaderCorrect`.  `GlInv`: a start finds no file of another backend (`StartsAlone`), until something was given up there
  is one conversation, and until something died the backend in the file is whole (`CalmBackends`).
* `PaneCorrect`.  `TmInv`: turns that are about at once have met (`AllMeet`), and one that is alone has its prompt with
  grok, with every sign of an end on the screen there before it (`OwnPrompt`).
* `LoopsCorrect`.  `LcInv`: a stopped workspace has its marker, no loop and none about to be spawned (`NothingComes`), one
  loop has begun at most as long as each saw the others' locks, and a loop of the supervisor is its child (`ChildIsKnown`).

**`OfficeLinkProofs`**, about the link, its readers and calls, the desktops and presence.

* `TypeCorrect`, `Reconnects`, `LinkCorrect`, `BadgeTrue`.  `BadgeInv` strengthens the badge property to connections with
  frames under way: the *last* frame on an open connection is what is due.  What `onConnect` sends ends what the
  flushed queue began, which is why the order of the two matters.
* `TunnelsCorrect`.  `RdInv` adds who may own an entry (`Owners`), that an id that was started once has one session
  that can act (`Lone`), and that an open bridge belongs to a session that is in use (`OpenIsUsed`); the pipeline of a
  session is kept by each message of it by itself.
* `PresenceCorrect` (a bridge that gave way stays out) and the action property `PresenceStepsCorrect` (a second loop
  comes up beside a live one only while that one is not connected; while a loop lives nobody else forwards hook
  events).  `PrInv`: the office's connection is one of a live process that has it open (`OfficeIsOn`), and unless
  two loops ran at once, one runs at most and the locks name it (`LoopIsKnown`).
* `FramesCorrect`.  `FramesInv`: what a client has still to read of a connection that began on an empty buffer is a sequence
  of whole frames, and these are what was sent and not handed on yet (`Readable`).  A handler works through its buffer
  by a recursive function; that the buffer stays so is shown for the least step that would break it (`BufferRead`).
* `CallsCorrect`.  `CallsInv`: with one client a frame belongs to who waits under its id (`OneClient`); a task that was started, or may
  be by a frame on its way, is known to the bridge (`AllKnown`); until calls ran side by side, were retried or went
  unheard there is one call with one frame, and what it has left to complete is not done (`Ordinarily`); and who waits
  for events is in the slot (`OneSlot`).  That a completion may go unheard over HTTP came out of this proof.
  `ReadersCorrect`: the two together.

**`GraphStoreProofs`**, for any number of processes, facts, calls, crashes and torn lines.

* `GraphTyped`, `GraphMissesOnlyRaced`, from what holds in the middle of an append: every line between what a store
  has read and the end of the log is applied, raced or torn.
* `GraphHoldsCorrect` and the action property `FlagsStayCorrect`.  `Whole` says what each step of a call still owes: the
  lines the rest of the call will write, that they fit what the log has, and that a store that is about to write
  an edge knows its ends or raced.
* `BackupCorrect`.  `BkInv` follows each restore: the agent's identity is in the file or in the hands
  of the one restore that will put it back (`SelfInv`), the session an archive calls connected is among the
  traces that go with it, or accounted for otherwise (`ConnInv`, `Accounted`), and a stamp names an archive that is there
  (`StampInv`).  `SelfInv` holds until a restore left the identity undone, `ConnInv` until one left the session state.

**`AcpSessionProofs`**, for any number of processes, prompts, tools, turns and faults.

* `TypeCorrect`; `GuardHolds` (updates are dropped as a replay only while a `session/load` is under way, with
  `GuardInv` on where the start-up is suspended); `ToolsNotForgotten`.
* `WorkTracked`: what the agent still has to do is awaited or was given up by the request timer.  `WorkInv` adds that
  ids are not used twice at a time (`Unique`), also by what is about to be sent.
* `LosesNothing`, an action property: no step forgets a running tool, a process, or a prompt of a turn that ends clean,
  but the ones named.
* `HostCorrect`: `HostInv` says of each coroutine which session it awaits and, while no turn was given up,
  that one that is not over is busy to the loop and the exit file is the last turn's (`Covered`).
* `ServersCorrect` (opencode's server).  `OcCore`: while nothing was abandoned only the last turn runs, with its own
  mark; the remembered server has been started and its logger has a channel (`Rooted`); and what a server owes,
  what its streams have said and what a listener has heard account for each other (`OcOwing`).
* `CopilotCorrect`.  `CpCore`: until a timer has outlived its turn, a waiting turn has its timer, its handlers and its exit file on
  the folder's session (`CpWatched`); until one was overtaken only the last turn waits (`CpTurned`); and
  whatever a session's agent still works on is some turn's (`CpWorked`).
* `BackendsCorrect`: the two, of the composition the run checks.

**`GrokHeadlessProofs`**: `HeadlessCorrect` and the action property `StepsCorrect`.  `HeadInv`: an abandoned launch has
ended and is no longer the known one, a turn is with one process at most, and while that process has not
reported its end nobody has, unless the relaunch of section 5 came in between.

### What is only model-checked

* All liveness: `AllEnds`, `TurnEnds`, `TurnsGoOn` and what they merge.  Fairness and ENABLED are out of the
  prover's reach.
* `SessionsHold` and `NoRedump` of `MCCliExit` (section 2), and the composites `CliReports` and `SdkKeepsOut`, whose content for one instance is the three
  action theorems of `TaskLoopProofs`.
* What a recursively defined operator computes in general (the fold of a log into a graph): induction over data is out of
  reach.  `FramesCorrect` needs only that a property is kept from step to step of a recursive function, which a least
  counterexample shows.

## 7. What the models leave out

Components marked *no* have no state that outlives a call, or translate bytes and text.  Of the others:

* `TaskLoop` identifies tasks by their place; steers, the gate, `restart()`, compaction and session resets are in
  modules of their own; the usage tailer and most remote commands are in none.
* `TaskDelivery`: one TODO.md and no other source of tasks.  `DurableSteer`: an agent whose queue is first in first out, a provider
  that does not change, an unbounded list of delivery ids (`TaskDelivery` has the bound).  `InstantSteer`: one provider per
  behaviour.  `InboundPollers`: the webhook server hands out its oldest pending log first (an assumption); the Discord
  gateway is left out.  `VerifyGate`: one change per turn; TODO.md and `.autodev` are ignored by git.
* `Cadence`: that a compact drops the profile is what the comments assume.  `Conversations`: the setting to resume is on.
  `SessionTail`: one log per session; narration is left out.  `McpConfig`: migrations, the catalog and torn reads are left out.
  `Backup`: three files and the traces, one session saved at a time; a stamp that cannot be written is left out, and the
  commands of the same name are in `Conversations`.
* `OfficeLink`: status frames only; the HTTP fallback is fire-and-forget.  `FrameLink`: the office sends well-formed
  frames; lengths and masks are abstracted.  `OperateCalls`: notifications, the graph tools and the status badge are left out.
  `Presence`: a loop that is paused lets its lock go stale; torn hook lines are left out.  `RemoteDesktop`: bytes, keys, pixels and
  cryptography are left out; a start frame that is ignored is a stutter.
* `AcpSession`: leader mode, the text of updates and `sendQuiet` are left out; time is abstract, so a timer that is armed may
  expire.  `AcpHost`: the inside of the server is in `OpencodeServer`; a steer in flight, bounded by its request timeout, does not make
  the session busy there.  `OpencodeServer`: all servers resume one session.
  `CopilotSession`: credentials, text and steers are left out.  `GrokHeadless`, `GrokTmux`: forwarding of text and tools is in `SessionTail`;
  pickers are answered within the grace.  `GrokLeader`: process ids are not given out again.  `LoopLifecycle`: one character.
* `GraphStore`: a log that is rewritten, roll-ups, aliases, ranking and rendering are left out.
