------------------------------ MODULE Presence ------------------------------
(***************************************************************************)
(* Who holds the office's connection of a workspace, and who forwards its   *)
(* hook events.  Loops (autodev start: webSocketPoller.ts, taskLoop.ts) and *)
(* bridges (autodev mcp-operate) of one workspace do not talk to each       *)
(* other: they see three lock files.                                        *)
(*   ws-presence.lock     the loop that was last connected to the office    *)
(*   hook-forwarder.lock  the loop that last looked at the hook events      *)
(*   mcp-operate.lock     the bridge that started last                      *)
(* The office keeps one connection per slug, the newest, and closes the     *)
(* other.  A process starts once: its restart is another process.           *)
(***************************************************************************)
EXTENDS Naturals, FiniteSets

CONSTANTS
    Loop, Bridge,   \* processes of each kind, disjoint
    MaxEv,          \* bound: hook events written
    PrMaxFaults     \* bound: connections lost by the network

ASSUME PrBounds == MaxEv \in Nat /\ PrMaxFaults \in Nat
ASSUME Processes == Loop \cap Bridge = {} /\ "none" \notin Loop \cup Bridge

Process == Loop \cup Bridge

Nobody == "none"

VARIABLES
    prPhase,      \* of a process
    prSock,       \* its connection; "opening": it still asks for the slug; "wait": not
                  \* connected now, "down": for long; "destroyed": but not null
    prOffice,     \* the connection the office has for the slug
    prPresence,   \* ws-presence.lock: pid, and is its ts fresh?
    prForwarder,  \* hook-forwarder.lock, stamped all the time a loop lives
    prNewest,     \* mcp-operate.lock
    prWritten,    \* lines in hooks-events.jsonl
    prOffset,     \* lines a process has read
    prShipped,    \* history: times each line was sent to the office, up to two
    prTwoLoops,   \* history: two loops ran at once
    prFaults

prFiles == <<prPresence, prForwarder, prNewest>>
prHooks == <<prWritten, prOffset, prShipped>>
prVars == <<prPhase, prSock, prOffice, prFiles, prHooks, prTwoLoops, prFaults>>

Event == 1..MaxEv

Lock(p) == [pid |-> p, ts |-> "fresh"]

Locks == [pid : Loop \cup {Nobody}, ts : {"fresh", "stale"}]

PrTypeOK ==
    /\ prPhase \in [Process -> {"none", "run", "dormant", "gone"}]
    /\ prSock \in [Process -> {"none", "opening", "wait", "down", "on", "destroyed"}]
    /\ prOffice \in Process \cup {Nobody}
    /\ prPresence \in Locks /\ prForwarder \in Loop \cup {Nobody}
    /\ prNewest \in Bridge \cup {Nobody}
    /\ prWritten \in 0..MaxEv /\ prOffset \in [Process -> 0..MaxEv]
    /\ prShipped \in [Event -> 0..2]
    /\ prTwoLoops \in BOOLEAN /\ prFaults \in 0..PrMaxFaults

PrInit ==
    /\ prPhase = [p \in Process |-> "none"] /\ prSock = [p \in Process |-> "none"]
    /\ prOffice = Nobody /\ prNewest = Nobody
    /\ prPresence = [pid |-> Nobody, ts |-> "stale"] /\ prForwarder = Nobody
    /\ prWritten = 0 /\ prOffset = [p \in Process |-> 0]
    /\ prShipped = [e \in Event |-> 0]
    /\ prTwoLoops = FALSE /\ prFaults = 0

Alive(p) == p # Nobody /\ prPhase[p] \in {"run", "dormant"}

Running(S) == {p \in S : prPhase[p] = "run"}

\* foreignLoopOwner: the lock counts while it is fresh and its process lives.
Owned == prPresence.ts = "fresh" /\ Alive(prPresence.pid)

-----------------------------------------------------------------------------
(* Loops. *)

StartLoop(l, forced) ==
    /\ prPhase[l] = "none"
    /\ forced \/ ~Owned
    /\ prPhase' = [prPhase EXCEPT ![l] = "run"]
    /\ prSock' = [prSock EXCEPT ![l] = "wait"]
    /\ prOffset' = [prOffset EXCEPT ![l] = prWritten]
    /\ prForwarder' = l
    /\ prTwoLoops' = (prTwoLoops \/ Running(Loop) # {})
    /\ UNCHANGED <<prOffice, prPresence, prNewest, prWritten, prShipped, prFaults>>

\* The duplicate-loop guard: the process exits.
RefuseLoop(l) ==
    /\ prPhase[l] = "none" /\ Owned
    /\ prPhase' = [prPhase EXCEPT ![l] = "gone"]
    /\ UNCHANGED <<prSock, prOffice, prFiles, prHooks, prTwoLoops, prFaults>>

LoopHeartbeat(l) ==
    /\ prPhase[l] = "run" /\ prSock[l] = "on"
    /\ prPresence' = Lock(l)
    /\ UNCHANGED <<prPhase, prSock, prOffice, prForwarder, prNewest, prHooks, prTwoLoops, prFaults>>

Once(e) == IF prShipped[e] < 2 THEN prShipped[e] + 1 ELSE 2

Ship(S) == prShipped' = [e \in Event |-> IF e \in S THEN Once(e) ELSE prShipped[e]]

New(p) == (prOffset[p] + 1)..prWritten

\* The poll of the hook events: stamp the lock, ship what is new.  Frames wait
\* in a queue while there is no connection.
LoopHooks(l) ==
    /\ prPhase[l] = "run"
    /\ prForwarder' = l
    /\ prOffset' = [prOffset EXCEPT ![l] = prWritten]
    /\ Ship(New(l))
    /\ UNCHANGED <<prPhase, prSock, prOffice, prPresence, prNewest, prWritten, prTwoLoops, prFaults>>

-----------------------------------------------------------------------------
(* Connections. *)

\* Mistake: the loop says so only at its first heartbeat.
ConnectQuietly(p) ==
    /\ Alive(p) /\ prSock[p] \in {"wait", "down"}
    /\ prSock' = [prSock EXCEPT ![p] = "on"] /\ prOffice' = p
    /\ prPresence' = prPresence
    /\ UNCHANGED <<prPhase, prForwarder, prNewest, prHooks, prTwoLoops, prFaults>>

\* The upgrade succeeded.  A loop says so in its lock.
Connect(p) ==
    /\ Alive(p) /\ prSock[p] \in {"wait", "down"}
    /\ prSock' = [prSock EXCEPT ![p] = "on"] /\ prOffice' = p
    /\ prPresence' = IF p \in Loop THEN Lock(p) ELSE prPresence
    /\ UNCHANGED <<prPhase, prForwarder, prNewest, prHooks, prTwoLoops, prFaults>>

\* The close event of a connection the office dropped for a newer one.
Evicted(p) ==
    /\ Alive(p) /\ prSock[p] = "on" /\ prOffice # p
    /\ prSock' = [prSock EXCEPT ![p] = "wait"]
    /\ UNCHANGED <<prPhase, prOffice, prFiles, prHooks, prTwoLoops, prFaults>>

Left(p) == IF prOffice = p THEN Nobody ELSE prOffice

Lost(p) ==
    /\ Alive(p) /\ prSock[p] = "on" /\ prFaults < PrMaxFaults
    /\ prSock' = [prSock EXCEPT ![p] = "down"] /\ prOffice' = Left(p)
    /\ prFaults' = prFaults + 1
    /\ UNCHANGED <<prPhase, prFiles, prHooks, prTwoLoops>>

Dies(p) ==
    /\ Alive(p)
    /\ prPhase' = [prPhase EXCEPT ![p] = "gone"]
    /\ prSock' = [prSock EXCEPT ![p] = "none"] /\ prOffice' = Left(p)
    /\ UNCHANGED <<prFiles, prHooks, prTwoLoops, prFaults>>

\* A lock nobody refreshes.  A loop whose connection was dropped for another is
\* back long before its lock is stale.
PresenceAges ==
    /\ prPresence.ts = "fresh" /\ prPresence.pid # Nobody
    /\ ~Alive(prPresence.pid) \/ prSock[prPresence.pid] = "down"
    /\ prPresence' = [prPresence EXCEPT !.ts = "stale"]
    /\ UNCHANGED <<prPhase, prSock, prOffice, prForwarder, prNewest, prHooks, prTwoLoops, prFaults>>

-----------------------------------------------------------------------------
(* Bridges. *)

\* It says it is the newest, and opens a connection if no loop has one.
StartBridge(b) ==
    /\ prPhase[b] = "none"
    /\ prPhase' = [prPhase EXCEPT ![b] = "run"]
    /\ prNewest' = b
    /\ prSock' = [prSock EXCEPT ![b] = IF Owned THEN "none" ELSE "opening"]
    /\ prOffset' = [prOffset EXCEPT ![b] = prWritten]
    /\ UNCHANGED <<prOffice, prPresence, prForwarder, prWritten, prShipped, prTwoLoops, prFaults>>

\* Mistake: what was checked before the slug was asked for is taken to hold.
OpenedUnchecked(b) ==
    /\ Alive(b) /\ prSock[b] = "opening"
    /\ prSock' = [prSock EXCEPT ![b] = "wait"]
    /\ UNCHANGED <<prPhase, prOffice, prFiles, prHooks, prTwoLoops, prFaults>>

\* ensurePresenceSocket, after resolveSlug: everything is looked at again.
Opened(b) ==
    /\ Alive(b) /\ prSock[b] = "opening"
    /\ prSock' = [prSock EXCEPT ![b] = IF prPhase[b] = "dormant" \/ Owned THEN "none" ELSE "wait"]
    /\ UNCHANGED <<prPhase, prOffice, prFiles, prHooks, prTwoLoops, prFaults>>

\* Every four seconds: give way to a loop, or take over.
Reconcile(b) ==
    /\ prPhase[b] = "run"
    /\ \/ /\ Owned /\ prSock[b] \in {"wait", "down", "on"}
          /\ prSock' = [prSock EXCEPT ![b] = "none"] /\ prOffice' = Left(b)
       \/ /\ ~Owned /\ prSock[b] = "none"
          /\ prSock' = [prSock EXCEPT ![b] = "opening"] /\ UNCHANGED prOffice
    /\ UNCHANGED <<prPhase, prFiles, prHooks, prTwoLoops, prFaults>>

\* A newer bridge that lives: go dormant.  One that does not: take its place.
Supersede(b) ==
    /\ prPhase[b] = "run" /\ prNewest # b
    /\ IF Alive(prNewest)
       THEN /\ prPhase' = [prPhase EXCEPT ![b] = "dormant"]
            /\ prSock' = [prSock EXCEPT ![b] = IF @ \in {"wait", "down", "on"} THEN "destroyed" ELSE @]
            /\ prOffice' = Left(b) /\ UNCHANGED prNewest
       ELSE prNewest' = b /\ UNCHANGED <<prPhase, prSock, prOffice>>
    /\ UNCHANGED <<prPresence, prForwarder, prHooks, prTwoLoops, prFaults>>

\* The poll of the hook events: without a socket it does nothing; what a loop
\* forwards is passed over; a frame needs a connection.
BridgeHooks(b) ==
    /\ Alive(b) /\ prSock[b] \in {"wait", "down", "on", "destroyed"} /\ prOffset[b] < prWritten
    /\ prOffset' = [prOffset EXCEPT ![b] = prWritten]
    /\ IF Alive(prForwarder) \/ prSock[b] # "on" THEN UNCHANGED prShipped ELSE Ship(New(b))
    /\ UNCHANGED <<prPhase, prSock, prOffice, prFiles, prWritten, prTwoLoops, prFaults>>

\* A hook script of the agent.
Writes ==
    /\ prWritten < MaxEv
    /\ prWritten' = prWritten + 1
    /\ UNCHANGED <<prPhase, prSock, prOffice, prFiles, prOffset, prShipped, prTwoLoops, prFaults>>

-----------------------------------------------------------------------------
PrNext ==
    \/ \E l \in Loop :
        \/ \E forced \in BOOLEAN : StartLoop(l, forced)
        \/ RefuseLoop(l) \/ LoopHeartbeat(l) \/ LoopHooks(l)
    \/ \E p \in Process : Connect(p) \/ Evicted(p) \/ Lost(p) \/ Dies(p)
    \/ \E b \in Bridge : StartBridge(b) \/ Opened(b) \/ Reconcile(b) \/ Supersede(b) \/ BridgeHooks(b)
    \/ PresenceAges \/ Writes

\* Timers expire, and the office can be reached.
PrFairness ==
    /\ \A p \in Process : WF_prVars(Connect(p)) /\ WF_prVars(Evicted(p))
    /\ \A b \in Bridge : WF_prVars(Opened(b)) /\ WF_prVars(Reconcile(b)) /\ WF_prVars(Supersede(b))
    /\ WF_prVars(PresenceAges)

PrSpec == PrInit /\ [][PrNext]_prVars /\ PrFairness

-----------------------------------------------------------------------------
(* Properties. *)

\* A bridge that went dormant is out of it: whatever was under way when a newer
\* bridge showed up, it never again has a connection the office can see.
DormantStaysOut ==
    \A b \in Bridge :
        prPhase[b] = "dormant" => prSock[b] \notin {"wait", "down", "on"} /\ prOffice # b

\* A bridge that went dormant has no connection again (mcpOperate.ts).
PresenceHolds == PrTypeOK /\ DormantStaysOut

\* A second loop comes up beside a live one, without being forced, only while
\* the live one has no connection.
ComesBeside ==
    \A l, m \in Loop :
        StartLoop(l, FALSE) /\ l # m /\ prPhase[m] = "run" => prSock[m] # "on" \/ prTwoLoops

\* While a loop lives nobody else forwards hook events, unless another loop ran
\* beside it and took the lock with it.
LoopForwards ==
    prShipped' # prShipped /\ Running(Loop) # {} /\ ~prTwoLoops
        => \E l \in Loop : prOffset'[l] # prOffset[l]

\* Both, of every step.
PresenceSteps == [][ComesBeside /\ LoopForwards]_prVars

AtMostOneLoop == Cardinality(Running(Loop)) <= 1

OneConnection == \A p, q \in Process : prSock[p] = "on" /\ prSock[q] = "on" => p = q

\* Two loops that both stay up evict each other for ever.  Otherwise one
\* connection is left in the end.
Settles == <>[]AtMostOneLoop => <>[]OneConnection

Staffed == AtMostOneLoop /\ (Running(Loop) # {} \/ Alive(prNewest))

\* While a loop stays up, or the newest bridge does, the workspace shows online
\* in the end.
StaysOnline == <>[]Staffed => <>[](prOffice # Nobody)

=============================================================================
