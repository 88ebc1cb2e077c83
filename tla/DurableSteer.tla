---------------------------- MODULE DurableSteer ----------------------------
(***************************************************************************)
(* The durable path of a steer to a persistent agent (grok, opencode):     *)
(* taskLoop.ts, _deliverAcpSteerDurable, _drainDurableAcpSteers and        *)
(* _settleAcpSteer, over the journal of pendingSteers.ts and the tracked   *)
(* prompts of AcpSession.                                                  *)
(*                                                                         *)
(* A steer is written to the journal, handed to the live agent as one more *)
(* prompt of its queue, and taken off the journal when that prompt was     *)
(* answered as ended cleanly.  At each turn boundary the loop hands over   *)
(* what is on the journal and not being waited for.                        *)
(*                                                                         *)
(* A handler runs without giving up the thread and is one action; a kill   *)
(* of the CLI in the middle of a write is an action of its own.  The       *)
(* active provider stays one with a durable path, and the loop's own turn  *)
(* is not shown: it only delays the agent's queue.                         *)
(***************************************************************************)
EXTENDS Integers, Sequences

CONSTANTS
    Steer,
    Local,          \* steers without an id of the office, which sends them once
    MaxFaults       \* bound: crashes, teardowns, timeouts, errors, replays

ASSUME SteerAssumption == Local \subseteq Steer /\ MaxFaults \in Nat

VARIABLES
    (* TaskLoopRunner *)
    inflight,       \* _acpSteerInflight: starting the session, or waiting
    (* the disk *)
    queued,         \* the steers readPendingSteers finds
    tail,           \* "torn": the file ends in the middle of a line
    seen,           \* delivery ids of WebSocketPoller, persisted
    (* AcpSession and its agent *)
    proc,           \* the agent process
    agent,          \* its queue of prompts, awaited or not any more
    replies,        \* answers on their way back
    (* outside *)
    sent,           \* steers of the office
    wire,           \* frames on their way
    (* history *)
    accepted,       \* steers whose frame was handled
    ran,            \* steers the agent has run to their end
    damaged,        \* steers whose record a failed or killed write has hit
    faults

disk == <<queued, tail, damaged>>
session == <<proc, agent, replies>>
vars == <<inflight, disk, seen, session, sent, wire, accepted, ran, faults>>

Idle == [s \in Steer |-> "no"]

Init ==
    /\ inflight = Idle
    /\ queued = {} /\ tail = "whole" /\ seen = {}
    /\ proc = "none" /\ agent = <<>> /\ replies = {}
    /\ sent = {} /\ wire = {}
    /\ accepted = {} /\ ran = {} /\ damaged = {}
    /\ faults = MaxFaults

-----------------------------------------------------------------------------
(* The journal. *)

\* enqueuePendingSteer.  A line appended to a torn one cannot be read back.
Enqueue(s) ==
    \/ s \in queued /\ UNCHANGED <<disk, faults>>
    \/ /\ s \notin queued /\ tail = "whole"
       /\ queued' = queued \cup {s}
       /\ damaged' = damaged \ {s}
       /\ UNCHANGED <<tail, faults>>
    \/ /\ s \notin queued /\ tail = "torn"
       /\ tail' = "whole"
       /\ damaged' = damaged \cup {s}
       /\ UNCHANGED <<queued, faults>>
    \/ /\ s \notin queued /\ faults > 0
       /\ faults' = faults - 1
       /\ damaged' = damaged \cup {s}
       /\ UNCHANGED <<queued, tail>>

\* removePendingSteer: the file is written anew, or the error ignored.
Remove(s) ==
    \/ /\ queued' = queued \ {s} /\ tail' = "whole"
       /\ UNCHANGED <<damaged, faults>>
    \/ /\ faults > 0
       /\ faults' = faults - 1
       /\ damaged' = damaged \cup {s}
       /\ UNCHANGED <<queued, tail>>

-----------------------------------------------------------------------------
(* Handing over. *)

Prompt(s) == [steer |-> s, awaited |-> "yes"]

\* steerTracked: one more prompt in the agent's queue.
HandOver(s) ==
    /\ agent' = Append(agent, Prompt(s))
    /\ inflight' = [inflight EXCEPT ![s] = "waiting"]

\* Mistakes: a steer that is being waited for is handed over once more; a
\* delivery that was settled is taken for a new one.
IsNewAlways(s) == s \notin seen
IsNewUnseen(s) == inflight[s] = "no"

\* The frame of a settled delivery is dropped, and one of a steer that is
\* being waited for only renews its callback.
IsNew(s) == s \notin seen /\ inflight[s] = "no"

\* The office sends a steer.
Send(s) ==
    /\ s \notin sent
    /\ sent' = sent \cup {s} /\ wire' = wire \cup {s}
    /\ UNCHANGED <<inflight, disk, seen, session, accepted, ran, faults>>

\* The frame arrives: persist, and hand over if the agent is alive.
Receive(s) ==
    /\ s \in wire
    /\ wire' = wire \ {s}
    /\ accepted' = accepted \cup {s}
    /\ \/ /\ IsNew(s)
          /\ Enqueue(s)
          /\ \/ proc = "live" /\ HandOver(s)
             \/ proc = "none" /\ UNCHANGED <<agent, inflight>>
       \/ ~IsNew(s) /\ UNCHANGED <<disk, faults, agent, inflight>>
    /\ UNCHANGED <<seen, proc, replies, sent, ran>>

\* Mistake: the boundary does not start a session to hand over to.
DueLive == {s \in queued : inflight[s] = "no" /\ proc = "live"}

\* A turn boundary: what is on the journal and not waited for.
Due == {s \in queued : inflight[s] = "no"}

Boundary ==
    /\ Due # {}
    /\ inflight' = [s \in Steer |-> IF s \in Due THEN "starting" ELSE inflight[s]]
    /\ UNCHANGED <<disk, seen, session, sent, wire, accepted, ran, faults>>

\* The session is there, or has been started.
Ensured(s) ==
    /\ inflight[s] = "starting"
    /\ proc' = "live"
    /\ HandOver(s)
    /\ UNCHANGED <<disk, seen, replies, sent, wire, accepted, ran, faults>>

EnsureFails(s) ==
    /\ inflight[s] = "starting" /\ faults > 0
    /\ faults' = faults - 1
    /\ inflight' = [inflight EXCEPT ![s] = "no"]
    /\ UNCHANGED <<disk, seen, session, sent, wire, accepted, ran>>

-----------------------------------------------------------------------------
(* The agent and its answers. *)

Answer(p, a) == IF p.awaited = "yes" THEN replies \cup {<<p.steer, a>>} ELSE replies

AgentEnds ==
    /\ agent # <<>>
    /\ agent' = Tail(agent)
    /\ \/ /\ replies' = Answer(Head(agent), "clean")
          /\ ran' = ran \cup {Head(agent).steer}
          /\ UNCHANGED faults
       \/ /\ faults > 0
          /\ faults' = faults - 1
          /\ replies' = Answer(Head(agent), "error")
          /\ UNCHANGED ran
    /\ UNCHANGED <<inflight, disk, seen, proc, sent, wire, accepted>>

\* _settleAcpSteer.
Settle(s) ==
    /\ Remove(s)
    /\ seen' = seen \cup {s}
    /\ inflight' = [inflight EXCEPT ![s] = "no"]

\* Mistakes: any answer settles the steer, or takes it off the journal.
UncleanSettles(s) == Settle(s)
UncleanForgets(s) ==
    /\ Remove(s)
    /\ inflight' = [inflight EXCEPT ![s] = "no"]
    /\ UNCHANGED seen

\* A turn that did not end cleanly leaves the steer on the journal.
Unclean(s) ==
    /\ inflight' = [inflight EXCEPT ![s] = "no"]
    /\ UNCHANGED <<disk, seen, faults>>

Answered(s) ==
    /\ \/ <<s, "clean">> \in replies /\ Settle(s)
       \/ <<s, "error">> \in replies /\ Unclean(s)
    /\ replies' = replies \ {<<s, "clean">>, <<s, "error">>}
    /\ UNCHANGED <<proc, agent, sent, wire, accepted, ran>>

\* The request of a prompt has a timeout as every request has; the agent is
\* not told and runs the prompt all the same.
Timeout(s) ==
    /\ inflight[s] = "waiting" /\ faults > 0
    /\ faults' = faults - 1
    /\ inflight' = [inflight EXCEPT ![s] = "no"]
    /\ agent' = [i \in DOMAIN agent |->
                    IF agent[i].steer = s THEN [agent[i] EXCEPT !.awaited = "no"] ELSE agent[i]]
    /\ replies' = replies \ {<<s, "clean">>, <<s, "error">>}
    /\ UNCHANGED <<disk, seen, proc, sent, wire, accepted, ran>>

\* The agent process is gone: it died, or the watchdog, an eviction or the
\* end of a turn closed it.  Every promise ends with an error.
Gone ==
    /\ proc' = "none" /\ agent' = <<>> /\ replies' = {}
    /\ inflight' = Idle

Teardown ==
    /\ proc = "live" /\ faults > 0
    /\ faults' = faults - 1
    /\ Gone
    /\ UNCHANGED <<disk, seen, sent, wire, accepted, ran>>

-----------------------------------------------------------------------------
(* The connection and the CLI. *)

Replays == sent \ Local

\* The office replays what it has not seen delivered after a reconnection.
Reconnect ==
    /\ faults > 0
    /\ faults' = faults - 1
    /\ wire' = Replays
    /\ UNCHANGED <<inflight, disk, seen, session, sent, accepted, ran>>

Killed ==
    /\ faults > 0
    /\ faults' = faults - 1
    /\ Gone
    /\ wire' = Replays
    /\ UNCHANGED <<seen, sent, accepted, ran>>

Crash == Killed /\ UNCHANGED disk

\* Killed in the append of a new steer.
CrashInEnqueue(s) ==
    /\ s \in wire /\ IsNew(s) /\ s \notin queued
    /\ Killed
    /\ tail' = "torn"
    /\ UNCHANGED <<queued, damaged>>

\* Killed in the rewrite, between truncating the file and its last line.
CrashInRemove(s) ==
    /\ <<s, "clean">> \in replies
    /\ Killed
    /\ queued' \in SUBSET (queued \ {s})
    /\ tail' \in {"whole", "torn"}
    /\ damaged' = damaged \cup (queued \ queued') \cup {s}

-----------------------------------------------------------------------------
Next ==
    \/ Boundary \/ AgentEnds \/ Teardown \/ Reconnect \/ Crash
    \/ \E s \in Steer :
        \/ Send(s) \/ Receive(s) \/ Ensured(s) \/ EnsureFails(s)
        \/ Answered(s) \/ Timeout(s) \/ CrashInEnqueue(s) \/ CrashInRemove(s)

Spec == Init /\ [][Next]_vars

\* Frames arrive, the loop comes to its next boundary, the session can be
\* started, the agent ends its prompts and its answers are read.
Fairness ==
    /\ WF_vars(Boundary) /\ WF_vars(AgentEnds)
    /\ \A s \in Steer : WF_vars(Receive(s)) /\ WF_vars(Ensured(s)) /\ WF_vars(Answered(s))

FairSpec == Spec /\ Fairness

-----------------------------------------------------------------------------
Prompts == [steer : Steer, awaited : {"yes", "no"}]

Types ==
    /\ inflight \in [Steer -> {"no", "starting", "waiting"}]
    /\ queued \subseteq Steer /\ tail \in {"whole", "torn"}
    /\ seen \subseteq Steer
    /\ proc \in {"none", "live"}
    /\ agent \in Seq(Prompts)
    /\ replies \subseteq Steer \X {"clean", "error"}
    /\ sent \subseteq Steer /\ wire \subseteq sent
    /\ accepted \subseteq sent /\ ran \subseteq Steer /\ damaged \subseteq Steer
    /\ faults \in 0..MaxFaults

Asked(s) == {i \in DOMAIN agent : agent[i] = Prompt(s)}
Answers(s) == {a \in {"clean", "error"} : <<s, a>> \in replies}

OnePromise ==
    \A s \in Steer :
        /\ inflight[s] = "waiting" <=> Asked(s) # {} \/ Answers(s) # {}
        /\ Asked(s) = {} \/ Answers(s) = {}
        /\ \A i, j \in Asked(s) : i = j
        /\ \A a, b \in Answers(s) : a = b

\* Every variable has its type, and a steer is in _acpSteerInflight with a
\* promise exactly while one prompt or one answer stands for it: no promise of
\* steerTracked is lost, and no steer has two ("prevents a concurrent
\* restart-drain AND a server reconnect-replay from delivering the SAME steer
\* twice").
TypeOK == Types /\ OnePromise

Abstract == INSTANCE SteerQueue WITH waiting <- accepted \ seen, settled <- seen

\* A steer is settled, that is its delivery id marked as seen, only after the
\* agent has run it to its end: at-least-once delivery across crashes,
\* teardowns and timeouts (the header of pendingSteers.ts).
AtLeastOnce == Abstract!Spec

\* An accepted steer is on the journal until it is settled, unless a write to
\* the journal itself went wrong (_deliverAcpSteerDurable: persist before ack).
NeverForgotten == accepted \ (seen \cup damaged) \subseteq queued

HandedOver(s) == Len(agent') > Len(agent) /\ agent'[Len(agent')].steer = s

\* A steer that has been settled is not handed to the agent again, by a
\* replay or at a boundary, unless it could not be taken off the journal
\* (pendingSteers.ts: a replay of one already completed is a no-op).
NotRunAgain ==
    [][\A s \in Steer : HandedOver(s) => s \notin seen \/ s \in damaged]_vars

\* Every steer of the office that arrives, and every local one, is settled in
\* the end, unless a write to the journal went wrong.
EventuallySettled ==
    \A s \in Steer : s \in accepted ~> s \in seen \cup damaged

=============================================================================
