---------------------------- MODULE TaskDelivery ----------------------------
(***************************************************************************)
(* How a task created in the office reaches TODO.md and stays there.       *)
(*                                                                         *)
(* The office pushes a task over the WebSocket and pushes it again until   *)
(* it is acknowledged.  WebSocketPoller appends it to TODO.md once per     *)
(* delivery id and hands it to TodoTaskVerifier, which looks at the file   *)
(* at every tick, appends the task again when it is gone, and acknowledges *)
(* it after ConfirmTicks ticks in a row.  The reason for the verifier is   *)
(* an agent that edits TODO.md by writing back the copy it read earlier.   *)
(*                                                                         *)
(* A line of TODO.md is here the mark of its task: the order of the lines  *)
(* does not matter to the verifier, which looks at ids only.  Every        *)
(* handler is one action: the writes of todoWriter are synchronous         *)
(* functions run as microtasks, so no timer or socket event of the CLI     *)
(* comes between a handler and the writes it queues.                       *)
(***************************************************************************)
EXTENDS Integers, FiniteSets

CONSTANTS
    Task,           \* office tasks; the CLI adopts the office's id
    Delivery,       \* delivery ids a push of a task may carry
    ConfirmTicks,   \* ticks in a row before a task counts as durable
    MaxSeen,        \* delivery ids remembered (MAX_SEEN_DELIVERIES)
    Window,         \* ticks that may pass while the agent holds its copy
    MaxFaults       \* bound: lost links, failed writes, lost acks, restarts, prunes

ASSUME DeliveryAssumption ==
    /\ ConfirmTicks \in Nat \ {0}
    /\ MaxSeen \in Nat \ {0}
    /\ Window \in Nat
    /\ MaxFaults \in Nat

VARIABLES
    todo,       \* TODO.md: the mark of every task
    view,       \* the copy of TODO.md the agent will write back
    age,        \* ticks since the agent read its copy, NoTurn without one
    rested,     \* whether a tick passed since the agent's last write
    tracked,    \* TodoTaskVerifier._tasks: presentTicks, or Untracked
    seen,       \* WebSocketPoller._seenTaskIds, persisted
    inflight,   \* pushes on their way from the office
    delivered,  \* tasks the office has stamped delivered: no push any more
    finished,   \* history: tasks that were [x] in TODO.md at some time
    link,       \* the WebSocket
    faults,     \* faults left
    restarted   \* history: whether the CLI was restarted

file == <<todo, finished>>
agent == <<view, age>>
vars == <<todo, view, age, rested, tracked, seen, inflight, delivered,
          finished, link, faults, restarted>>

NoTurn == -1
Untracked == -1
Marks == {"absent", "open", "done"}
Nothing == [t \in Task |-> "absent"]

Init ==
    /\ todo = Nothing
    /\ view = Nothing
    /\ age = NoTurn
    /\ rested = "yes"
    /\ tracked = [t \in Task |-> Untracked]
    /\ seen = {}
    /\ inflight = {}
    /\ delivered = {}
    /\ finished = {}
    /\ link = "up"
    /\ faults = MaxFaults
    /\ restarted = "no"

-----------------------------------------------------------------------------
(* TODO.md. *)

\* appendTaskIfAbsent: a line with the id, open or done, is left as it is.
Appended(f, S) == [t \in Task |-> IF t \in S /\ f[t] = "absent" THEN "open" ELSE f[t]]

\* The agent or the loop ticks the box of a task.
Finish(t) ==
    /\ todo[t] = "open"
    /\ todo' = [todo EXCEPT ![t] = "done"]
    /\ finished' = finished \cup {t}
    /\ UNCHANGED <<agent, rested, tracked, seen, inflight, delivered, link, faults, restarted>>

\* pruneTodoToArchive: completed lines leave TODO.md for DONE.md.  Bounded like
\* the faults: pruning again and again between two ticks is a livelock.
Pruned(f) == [t \in Task |-> IF f[t] = "done" THEN "absent" ELSE f[t]]

Prune ==
    /\ todo # Pruned(todo) /\ faults > 0
    /\ todo' = Pruned(todo)
    /\ faults' = faults - 1
    /\ UNCHANGED <<finished, agent, rested, tracked, seen, inflight, delivered, link, restarted>>

\* The agent reads TODO.md into its context.  Two rewrites by the agent are at
\* least one tick apart: a turn takes minutes and a tick ten seconds.
AgentReads ==
    /\ age = NoTurn /\ rested = "yes"
    /\ view' = todo
    /\ age' = 0
    /\ UNCHANGED <<file, rested, tracked, seen, inflight, delivered, link, faults, restarted>>

\* The agent writes its copy back with some tasks ticked: what was appended in
\* between is gone.
AgentWrites ==
    /\ age # NoTurn
    /\ \E S \in SUBSET {t \in Task : view[t] = "open"} :
        /\ todo' = [t \in Task |-> IF t \in S THEN "done" ELSE view[t]]
        /\ finished' = finished \cup S
    /\ view' = Nothing
    /\ age' = NoTurn
    /\ rested' = "no"
    /\ UNCHANGED <<tracked, seen, inflight, delivered, link, faults, restarted>>

-----------------------------------------------------------------------------
(* The office and the link. *)

\* A push or the 45 s redelivery sweep; a new push may carry the delivery id
\* of an earlier one (a replay) or one of its own.
Push(t) ==
    /\ link = "up" /\ t \notin delivered
    /\ \E k \in Delivery :
        /\ <<t, k>> \notin inflight
        /\ inflight' = inflight \cup {<<t, k>>}
    /\ UNCHANGED <<file, agent, rested, tracked, seen, delivered, link, faults, restarted>>

LinkDown ==
    /\ link = "up" /\ faults > 0
    /\ link' = "down"
    /\ inflight' = {}
    /\ faults' = faults - 1
    /\ UNCHANGED <<file, agent, rested, tracked, seen, delivered, restarted>>

LinkUp ==
    /\ link = "down"
    /\ link' = "up"
    /\ UNCHANGED <<file, agent, rested, tracked, seen, inflight, delivered, faults, restarted>>

\* _sendTaskAck for the tasks of S: without a socket nothing is sent, and a
\* socket that is dead but not yet closed loses the frame (a fault).
Acks(S) ==
    \/ link = "down" /\ UNCHANGED <<delivered, faults>>
    \/ link = "up" /\ delivered' = delivered \cup S /\ UNCHANGED faults
    \/ /\ link = "up" /\ S # {} /\ faults > 0
       /\ faults' = faults - 1
       /\ UNCHANGED delivered

-----------------------------------------------------------------------------
(* The handlers of the CLI. *)

\* As if the list of delivery ids were never cut.
RememberedForever(S, d) == {S \cup {d}}

\* The oldest ids are forgotten; which one that is does not matter here.
Remembered(S, d) ==
    IF Cardinality(S \cup {d}) <= MaxSeen THEN {S \cup {d}}
    ELSE {(S \cup {d}) \ {e} : e \in S \ {d}}

\* track: a task that is tracked already keeps its count.
Track(t) == [tracked EXCEPT ![t] = IF @ = Untracked THEN 0 ELSE @]

\* A replayed delivery is acknowledged again, unless the verifier still owns
\* the acknowledgement.
Reack(t) == tracked[t] = Untracked

Replayed(t, k) ==
    /\ <<t, k>> \in seen
    /\ \/ Reack(t) /\ Acks({t})
       \/ ~Reack(t) /\ UNCHANGED <<delivered, faults>>
    /\ UNCHANGED <<file, tracked, seen>>

Appends(t, k) ==
    /\ <<t, k>> \notin seen
    /\ todo' = Appended(todo, {t})
    /\ seen' \in Remembered(seen, <<t, k>>)
    /\ tracked' = Track(t)
    /\ UNCHANGED <<finished, delivered, faults>>

\* The append throws: the delivery stays unseen and untracked.
AppendFails(t, k) ==
    /\ <<t, k>> \notin seen /\ faults > 0
    /\ faults' = faults - 1
    /\ UNCHANGED <<file, tracked, seen, delivered>>

\* The task frame of a user_message arrives.
Receive(t, k) ==
    /\ <<t, k>> \in inflight
    /\ inflight' = inflight \ {<<t, k>>}
    /\ Replayed(t, k) \/ Appends(t, k) \/ AppendFails(t, k)
    /\ UNCHANGED <<agent, rested, link, restarted>>

IsTracked == {t \in Task : tracked[t] # Untracked}
Missing == {t \in IsTracked : todo[t] = "absent"}

\* One present tick is enough.
ConfirmedAtOnce == {t \in IsTracked : todo[t] = "open"}

Confirmed == {t \in IsTracked : todo[t] = "open" /\ tracked[t] + 1 >= ConfirmTicks}

Settled == Confirmed \cup {t \in IsTracked : todo[t] = "done"}

\* Every ten seconds: acknowledge and forget what is done or confirmed, count
\* what is present, and append what is missing.  When a write fails, it and
\* the later ones of the same tick may be left out.
Tick ==
    /\ age < Window
    /\ age' = IF age = NoTurn THEN NoTurn ELSE age + 1
    /\ rested' = "yes"
    /\ tracked' = [t \in Task |->
                      IF t \in Settled \/ tracked[t] = Untracked THEN Untracked
                      ELSE IF t \in Missing THEN 0
                      ELSE tracked[t] + 1]
    /\ \/ todo' = Appended(todo, Missing) /\ Acks(Settled)
       \/ /\ Missing # {} /\ faults > 0
          /\ \E lost \in Missing : todo' = Appended(todo, Missing \ {lost})
          /\ faults' = faults - 1
          /\ delivered' = IF link = "up" THEN delivered \cup Settled ELSE delivered
    /\ UNCHANGED <<view, seen, inflight, finished, link, restarted>>

\* /restart, a stop and a start, or a crash: destroy() or the end of the
\* process clears the verifier; the delivery ids come back from disk.
Restart ==
    /\ faults > 0
    /\ faults' = faults - 1
    /\ restarted' = "yes"
    /\ tracked' = [t \in Task |-> Untracked]
    /\ inflight' = {}
    /\ link' = "down"
    /\ UNCHANGED <<file, agent, rested, seen, delivered>>

-----------------------------------------------------------------------------
Next ==
    \/ \E t \in Task : Finish(t) \/ Push(t)
    \/ \E t \in Task, k \in Delivery : Receive(t, k)
    \/ Prune \/ AgentReads \/ AgentWrites
    \/ LinkDown \/ LinkUp
    \/ Tick \/ Restart

Spec == Init /\ [][Next]_vars

\* The office keeps pushing, frames arrive, the timer fires, a lost link is
\* opened again (RECONNECT_DELAY_MS) and an agent's turn ends.
Fairness ==
    /\ \A t \in Task : WF_vars(Push(t))
    /\ \A t \in Task, k \in Delivery : WF_vars(Receive(t, k))
    /\ WF_vars(Tick) /\ WF_vars(LinkUp) /\ WF_vars(AgentWrites)

FairSpec == Spec /\ Fairness

-----------------------------------------------------------------------------
\* Every variable has its type; the bounded list of delivery ids stays within
\* its bound, a count below the confirmation threshold and a turn within its
\* window (TodoTaskVerifier, WebSocketPoller._markSeenDelivery).
TypeOK ==
    /\ todo \in [Task -> Marks]
    /\ view \in [Task -> Marks]
    /\ age \in NoTurn..Window
    /\ rested \in {"yes", "no"}
    /\ tracked \in [Task -> Untracked..(ConfirmTicks - 1)]
    /\ seen \subseteq Task \X Delivery /\ Cardinality(seen) <= MaxSeen
    /\ inflight \subseteq Task \X Delivery
    /\ delivered \subseteq Task
    /\ finished \subseteq Task
    /\ link \in {"up", "down"}
    /\ faults \in 0..MaxFaults
    /\ restarted \in {"yes", "no"}

\* What the office no longer pushes is in TODO.md or was completed there, as
\* long as the CLI was not restarted: the acknowledgement waits until no
\* rewrite by the agent can take the line away (todoTaskVerifier.ts, THE FIX).
AckedIsKept ==
    restarted = "no" => \A t \in delivered : todo[t] # "absent" \/ t \in finished

\* The same across restarts, which webSocketPoller.ts promises: a crash before
\* the line is durable still gets the task pushed again.
AckSurvivesRestart ==
    \A t \in delivered : todo[t] # "absent" \/ t \in finished

\* Every task of the office is acknowledged in the end, whatever links, writes
\* and acknowledgements were lost on the way: the sweep of the office, the
\* delivery ids and the verifier's deferred acknowledgement never leave a task
\* that is pushed for ever.
EventuallyAcked == \A t \in Task : <>(t \in delivered)
=============================================================================
