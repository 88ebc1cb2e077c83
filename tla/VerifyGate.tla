----------------------------- MODULE VerifyGate -----------------------------
(***************************************************************************)
(* The verify_and_keep gate of the task loop, with the git tree it works   *)
(* on.  A workspace that ships .autodev/CONTROL.md has every completed     *)
(* task checked by its own command: green work is committed, red work goes *)
(* back to the agent with a hint until the attempts are used up, and then  *)
(* the tree is reset to the commit the task started from.                  *)
(*                                                                         *)
(* A change is a record of the task that made it, whether it edits a file  *)
(* git knows or leaves a file git does not know, and what it is worth.     *)
(* One turn makes at most one change.                                      *)
(*                                                                         *)
(* Code modelled: core/controlSpec.ts; taskLoop.ts 474-527, 640-655,       *)
(* 2186-2238, 2296-2313, 2652-2747; journal.ts 57-93.                      *)
(***************************************************************************)
EXTENDS Naturals, Sequences, FiniteSets

CONSTANTS VgTask,       \* the number of tasks of TODO.md, in its order
          VgMaxTries,   \* 1 + max_fix_rounds + max_mechanical_fixes
          VgMaxFaults   \* bound: failed turns, commits of the agent's own, restarts, failed git commands

VARIABLES item,         \* the checkbox of each task
          step,         \* where the loop is
          cur,          \* the task in hand; 0: none
          tries,        \* _taskAttempts
          snap,         \* _preTaskCommit; 0: no entry
          hint,         \* the key of _pendingFixHint; 0: none
          store,        \* the tree of every commit ever made
          head,         \* the commit HEAD names
          work,         \* the changes in the working tree
          staged,       \* the files git knows by its index alone
          edited,       \* whether this turn has made its change
          verdict,      \* the journal's row about each task
          kept,         \* the changes a task was kept with
          amiss,        \* what has gone wrong so far that is not of the gate's making
          faults
vgVars == <<item, step, cur, tries, snap, hint, store, head, work, staged,
            edited, verdict, kept, amiss, faults>>

VgTasks == 1..VgTask
Change == [task : VgTasks, on : {"edit", "file"}, worth : {"good", "bad", "guarded"}]
Tree == store[head]

VgTypeOK ==
  /\ item \in [VgTasks -> {"todo", "going", "blocked", "done"}]
  /\ step \in {"pick", "turn", "gate", "off"}
  /\ cur \in 0..VgTask
  /\ tries \in [VgTasks -> 0..VgMaxTries]
  /\ snap \in [VgTasks -> 0..Len(store)]
  /\ hint \in 0..VgTask
  /\ \A n \in 1..Len(store) : store[n] \subseteq Change
  /\ head \in 1..Len(store)
  /\ work \subseteq Change /\ staged \subseteq work
  /\ edited \in BOOLEAN
  /\ verdict \in [VgTasks -> {"none", "keep", "discard"}]
  /\ kept \in [VgTasks -> SUBSET Change]
  /\ amiss \subseteq {"restart", "git", "entangled"}
  /\ faults \in 0..VgMaxFaults

VgInit ==
  /\ item = [t \in VgTasks |-> "todo"]
  /\ step = "pick" /\ cur = 0
  /\ tries = [t \in VgTasks |-> 0] /\ snap = [t \in VgTasks |-> 0] /\ hint = 0
  /\ store = <<{}>> /\ head = 1 /\ work = {} /\ staged = {} /\ edited = FALSE
  /\ verdict = [t \in VgTasks |-> "none"] /\ kept = [t \in VgTasks |-> {}]
  /\ amiss = {} /\ faults = 0

\* A fault takes one of the bounded number of things that may go wrong.
Mishap == faults < VgMaxFaults /\ faults' = faults + 1

(***************************************************************************)
(* git.  A reset brings back the tree of a commit and forgets the index;   *)
(* a file git has never been told of is left where it is.  A commit takes  *)
(* everything in the tree.  Both swallow their errors: a commit that is    *)
(* refused (a hook, a lock) has staged everything before it failed.        *)
(***************************************************************************)
Unknown == {c \in work : c.on = "file" /\ c \notin staged \cup Tree}

ResetHard(n) ==
  /\ head' = n
  /\ work' = store[n] \cup Unknown
  /\ staged' = {}
  /\ UNCHANGED store

Committed ==
  IF work = Tree
  THEN staged' = {} /\ UNCHANGED <<store, head>>
  ELSE store' = Append(store, work) /\ head' = Len(store) + 1 /\ staged' = {}

CommitAll ==
  \/ Committed /\ UNCHANGED <<work, amiss, faults>>
  \/ /\ Mishap /\ amiss' = amiss \cup {"git"}
     /\ staged' = {c \in work : c.on = "file"} \ Tree
     /\ UNCHANGED <<store, head, work>>

Revert(t) ==
  \/ snap[t] # 0 /\ ResetHard(snap[t]) /\ UNCHANGED <<amiss, faults>>
  \/ snap[t] = 0 /\ UNCHANGED <<store, head, work, staged, amiss, faults>>
  \/ /\ snap[t] # 0 /\ Mishap /\ amiss' = amiss \cup {"git"}
     /\ UNCHANGED <<store, head, work, staged>>

\* One row of the journal says what became of the task.
Journal(t, v) == verdict' = [verdict EXCEPT ![t] = v]

(***************************************************************************)
(* Picking a task: the first open one, and only when there is none the     *)
(* ones a failed turn left in progress.                                    *)
(***************************************************************************)
Open == {t \in VgTasks : item[t] = "todo"}
Left == {t \in VgTasks : item[t] = "going"}
FirstOf(S) == CHOOSE t \in S : \A u \in S : t <= u
Picked == IF Open # {} THEN FirstOf(Open) ELSE FirstOf(Left)

\* The task is over: its work is reverted, the journal says so, nothing of
\* it is remembered, and it is marked done.
DiscardAndMoveOn(t) ==
  /\ Revert(t)
  /\ Journal(t, "discard")
  /\ item' = [item EXCEPT ![t] = "done"]
  /\ tries' = [tries EXCEPT ![t] = 0]
  /\ snap' = [snap EXCEPT ![t] = 0]
  /\ hint' = 0
  /\ UNCHANGED kept

\* The attempts are used up: discarded before another dispatch.
Exhausted ==
  /\ step = "pick" /\ Open \cup Left # {}
  /\ tries[Picked] >= VgMaxTries
  /\ DiscardAndMoveOn(Picked)
  /\ UNCHANGED <<step, cur, edited>>

Snapshot(t) == IF snap[t] = 0 THEN [snap EXCEPT ![t] = head] ELSE snap

Dispatch ==
  /\ step = "pick" /\ Open \cup Left # {}
  /\ tries[Picked] < VgMaxTries
  /\ step' = "turn" /\ cur' = Picked
  /\ tries' = [tries EXCEPT ![Picked] = tries[Picked] + 1]
  /\ snap' = Snapshot(Picked)
  /\ amiss' = IF \E u \in VgTasks \ {Picked} : snap[u] # 0
              THEN amiss \cup {"entangled"} ELSE amiss
  /\ hint' = IF hint = Picked THEN 0 ELSE hint
  /\ item' = [item EXCEPT ![Picked] = "going"]
  /\ edited' = FALSE
  /\ UNCHANGED <<store, head, work, staged, verdict, kept, faults>>

(***************************************************************************)
(* The agent's turn.                                                       *)
(***************************************************************************)
Changes ==
  /\ step = "turn" /\ ~edited /\ edited' = TRUE
  /\ \E c \in Change : c.task = cur /\ work' = work \cup {c}
  /\ UNCHANGED <<item, step, cur, tries, snap, hint, store, head, staged,
                 verdict, kept, amiss, faults>>

\* The agent undoes what it did wrong.
Repairs ==
  /\ step = "turn" /\ ~edited /\ edited' = TRUE
  /\ work' = {c \in work : c.task # cur \/ c.worth = "good"}
  /\ staged' = staged \cap work'
  /\ UNCHANGED <<item, step, cur, tries, snap, hint, store, head, verdict,
                 kept, amiss, faults>>

\* The agent commits, as its protocol tells it to.
AgentCommits ==
  /\ step = "turn" /\ Mishap /\ work # Tree /\ Committed
  /\ UNCHANGED <<item, step, cur, tries, snap, hint, work, edited, verdict,
                 kept, amiss>>

Completes ==
  /\ step = "turn" /\ step' = "gate"
  /\ item' = [item EXCEPT ![cur] = "done"]
  /\ UNCHANGED <<cur, tries, snap, hint, store, head, work, staged, edited,
                 verdict, kept, amiss, faults>>

\* A provider that fails leaves the task in progress for a later dispatch, or
\* blocked when its retries are used up; any other error reopens it.
TurnFails ==
  /\ step = "turn" /\ Mishap /\ step' = "pick" /\ cur' = 0
  /\ \E s \in {"going", "blocked", "todo"} :
       /\ item' = [item EXCEPT ![cur] = s]
       /\ tries' = IF s = "todo" THEN tries ELSE [tries EXCEPT ![cur] = 0]
  /\ UNCHANGED <<snap, hint, store, head, work, staged, edited, verdict,
                 kept, amiss>>

(***************************************************************************)
(* The gate.                                                               *)
(***************************************************************************)
GateCloses == step' = "pick" /\ cur' = 0 /\ UNCHANGED edited

GuardedTouched ==
  /\ snap[cur] # 0
  /\ \E c \in (work \ store[snap[cur]]) \cup (store[snap[cur]] \ work) : c.worth = "guarded"
Green == \A c \in work : c.worth # "bad"

\* The task took longer than its budget, or a file it must leave alone changed.
GateDiscards ==
  /\ step = "gate" /\ GuardedTouched
  /\ DiscardAndMoveOn(cur) /\ GateCloses
OverBudget ==
  /\ step = "gate"
  /\ DiscardAndMoveOn(cur) /\ GateCloses

GateKeeps ==
  /\ step = "gate" /\ ~GuardedTouched /\ Green
  /\ CommitAll
  /\ Journal(cur, "keep")
  /\ kept' = [kept EXCEPT ![cur] = {c \in work : c.task = cur}]
  /\ snap' = [snap EXCEPT ![cur] = 0]
  /\ tries' = [tries EXCEPT ![cur] = 0]
  /\ GateCloses
  /\ UNCHANGED <<item, hint>>

Tried == tries
GateReopens ==
  /\ step = "gate" /\ ~GuardedTouched /\ ~Green
  /\ item' = [item EXCEPT ![cur] = "todo"]
  /\ hint' = cur
  /\ tries' = Tried
  /\ GateCloses
  /\ UNCHANGED <<snap, store, head, work, staged, verdict, kept, amiss, faults>>

(***************************************************************************)
(* The loop stops or dies anywhere and starts again: what it remembered is *)
(* gone, and what was in progress is open.                                 *)
(***************************************************************************)
Halts ==
  /\ step # "off" /\ Mishap /\ step' = "off" /\ cur' = 0
  /\ amiss' = amiss \cup {"restart"}
  /\ tries' = [t \in VgTasks |-> 0] /\ snap' = [t \in VgTasks |-> 0] /\ hint' = 0
  /\ edited' = FALSE
  /\ UNCHANGED <<item, store, head, work, staged, verdict, kept>>
Starts ==
  /\ step = "off" /\ step' = "pick"
  /\ item' = [t \in VgTasks |-> IF item[t] = "done" THEN "done" ELSE "todo"]
  /\ UNCHANGED <<cur, tries, snap, hint, store, head, work, staged, edited,
                 verdict, kept, amiss, faults>>

LoopSteps == Exhausted \/ Dispatch \/ GateDiscards \/ GateKeeps \/ GateReopens \/ Starts
VgNext == LoopSteps \/ Changes \/ Repairs \/ AgentCommits \/ Completes
          \/ TurnFails \/ OverBudget \/ Halts

\* The loop goes on by itself and a turn comes to an end (the deadlines of the
\* turn are the task loop's).
VgFairness == WF_vgVars(LoopSteps) /\ WF_vgVars(Completes)
VgSpec == VgInit /\ [][VgNext]_vgVars /\ VgFairness

(***************************************************************************)
(* Properties.                                                             *)
(***************************************************************************)
\* As long as the loop was not restarted, git did what it was told and no two
\* tasks were open at once, nothing a discarded task did to a file git knows
\* is left in the tree or on the branch.
DiscardIsClean ==
  amiss = {} =>
    \A t \in VgTasks : verdict[t] = "discard" =>
      \A c \in work \cup Tree : c.task = t => c.on = "file"

\* Under the same conditions work that was kept stays in the tree and on the
\* branch, whatever happens to the tasks after it.
KeptStays ==
  amiss = {} => \A t \in VgTasks : kept[t] \subseteq work \cap Tree

\* A task is closed by a verdict alone, unless the loop was restarted between
\* the agent's mark and the check; and the hint waits for an open task.
ClosedByVerdict ==
  /\ "restart" \notin amiss =>
       \A t \in VgTasks : item[t] = "done" /\ t # cur => verdict[t] # "none"
  /\ hint # 0 => item[hint] = "todo"

Closed(t) == item[t] \in {"done", "blocked"}

\* No task is sent to the agent for ever: each is closed or blocked in the end.
GateSettles == \A t \in VgTasks : ~Closed(t) ~> Closed(t)

=============================================================================
