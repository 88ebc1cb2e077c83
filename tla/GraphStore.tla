----------------------------- MODULE GraphStore -----------------------------
(***************************************************************************)
(* The project graph (graphStore.ts): nodes and edges that the agents of a  *)
(* workspace share.  Every agent's bridge holds a store of its own; they    *)
(* meet in one log, to which each appends lines, and in a snapshot of a     *)
(* prefix of it.  There is no lock.  A call is a row of steps; a step reads *)
(* what is new in the log, appends a line, and then asks for the size of    *)
(* the file to go on from.  What a store holds is a function of the lines   *)
(* it has applied, in the order of the log, so it is modelled by the set of *)
(* their positions.                                                         *)
(***************************************************************************)
EXTENDS Naturals, Sequences, FiniteSets

CONSTANTS
    Store,      \* processes that hold a store
    Fact,       \* ids a call may mint
    MaxCalls,   \* bound: calls
    MaxFaults   \* bound: processes that die, some in the middle of an append

ASSUME GraphConstants ==
    /\ "file" \notin Fact
    /\ MaxCalls \in Nat /\ MaxFaults \in Nat

VARIABLES
    log,        \* graph.jsonl: what each append put there, with its newline or torn
    snap,       \* graph.snapshot.json
    pc,         \* "write": the next line is made; "stat": it is written
    todo,       \* steps of the call
    next,       \* the line to write
    off,        \* lastOffset: how much of the log was read
    seen,       \* the lines applied
    made,       \* ids minted
    raced,      \* history: lines written while another process was in a call
    calls, crashes, torn

disk == <<log, snap>>
memory == <<off, seen>>
control == <<pc, todo, next>>
counts == <<calls, crashes, torn>>
vars == <<disk, control, memory, made, raced, counts>>

\* All facts have the same source, a path of one segment.
Node == Fact \cup {"file"}

Edges == {"edge", "supersedes"}

Op == [op : {"node", "supersede"} \cup Edges, a : Node, b : Node, sup : {"no", "yes"}]

Step == [op : {"node", "supersede"} \cup Edges, a : Node, b : Node,
         needs : SUBSET Node, once : {"no", "yes"}]

Chunk == [put : Op, end : {"newline", "torn"}]

TypeOK ==
    /\ log \in Seq(Chunk)
    /\ snap \in [covers : 0..Len(log), seen : SUBSET (1..Len(log))]
    /\ pc \in [Store -> {"off", "idle", "write", "stat"}]
    /\ todo \in [Store -> Seq(Step)] /\ next \in [Store -> Op]
    /\ off \in [Store -> 0..Len(log)] /\ seen \in [Store -> SUBSET (1..Len(log))]
    /\ made \subseteq Fact /\ raced \subseteq 1..Len(log)
    /\ calls \in 0..MaxCalls /\ crashes \in 0..MaxFaults /\ torn \in 0..MaxFaults

NoOp == [op |-> "node", a |-> "file", b |-> "file", sup |-> "no"]

\* The log of earlier sessions: nothing, or a fact.
Init ==
    /\ \/ log = <<>> /\ made = {}
       \/ \E c \in Fact :
            /\ log = <<[put |-> [op |-> "node", a |-> c, b |-> c, sup |-> "no"], end |-> "newline"]>>
            /\ made = {c}
    /\ snap = [covers |-> 0, seen |-> {}]
    /\ pc = [p \in Store |-> "off"]
    /\ todo = [p \in Store |-> <<>>] /\ next = [p \in Store |-> NoOp]
    /\ off = [p \in Store |-> 0] /\ seen = [p \in Store |-> {}]
    /\ raced = {}
    /\ calls = 0 /\ crashes = 0 /\ torn = 0

-----------------------------------------------------------------------------
(* What lines amount to. *)

Is(i, op, n) == log[i].put.op = op /\ log[i].put.a = n

NodesOf(S) == {n \in Node : \E i \in S : Is(i, "node", n)}

HasEdge(S, a, b) == \E i \in S : Is(i, "edge", a) /\ log[i].put.b = b

\* A supersede op flags a node that is there; an upsert writes the flag its
\* writer knew.
Marks(S, i, n) ==
    \/ Is(i, "supersede", n) /\ \E k \in S : k < i /\ Is(k, "node", n)
    \/ Is(i, "node", n) /\ log[i].put.sup = "yes"

Flagged(S, n) ==
    \E i \in S : /\ Marks(S, i, n)
                 /\ \A k \in S : k > i /\ Is(k, "node", n) => log[k].put.sup = "yes"

\* Up to the last newline; a torn line stays unread until it is complete.
Upto(o) ==
    {u \in o..Len(log) : /\ u = o \/ log[u].end = "newline"
                         /\ \A i \in (u + 1)..Len(log) : log[i].end = "torn"}

\* replayRange: a line that begins with a torn one does not parse.
Parsed(o, u) ==
    {i \in (o + 1)..u : /\ log[i].end = "newline"
                        /\ i = o + 1 \/ log[i - 1].end = "newline"}

\* What a full replay of n appends gives.
Replay(n) == Parsed(0, n)

File == Replay(Len(log))

-----------------------------------------------------------------------------
(* Stores. *)

Snaps(w, u, s) == snap' = IF w THEN [covers |-> u, seen |-> s] ELSE snap

\* Mistake: the snapshot alone.
StartWithoutTail(p, w) ==
    /\ pc[p] = "off" /\ w = FALSE
    /\ off' = [off EXCEPT ![p] = Len(log)]
    /\ seen' = [seen EXCEPT ![p] = snap.seen]
    /\ Snaps(w, Len(log), snap.seen)
    /\ pc' = [pc EXCEPT ![p] = "idle"]
    /\ UNCHANGED <<log, todo, next, made, raced, counts>>

\* A cold start: the snapshot, and the lines beyond it.
Start(p, w) ==
    /\ pc[p] = "off"
    /\ \E u \in Upto(snap.covers) :
        LET s == snap.seen \cup Parsed(snap.covers, u) IN
        /\ w => u > snap.covers
        /\ off' = [off EXCEPT ![p] = u] /\ seen' = [seen EXCEPT ![p] = s]
        /\ Snaps(w, u, s)
    /\ pc' = [pc EXCEPT ![p] = "idle"]
    /\ UNCHANGED <<log, todo, next, made, raced, counts>>

Free(p) == pc[p] = "idle" /\ todo[p] = <<>> /\ calls < MaxCalls

Begin(p, steps) ==
    /\ todo' = [todo EXCEPT ![p] = steps]
    /\ calls' = calls + 1
    /\ UNCHANGED <<disk, pc, next, memory, raced, crashes, torn>>

PutNode(n, needs) == [op |-> "node", a |-> n, b |-> n, needs |-> needs, once |-> "no"]
PutEdge(op, a, b) == [op |-> op, a |-> a, b |-> b, needs |-> {a, b}, once |-> "no"]

\* Mistake: whether the edge exists is not looked at.
LinkAnyway(a, b) == PutEdge("edge", a, b)

\* linkParentOf
Link(a, b) == [op |-> "edge", a |-> a, b |-> b, needs |-> {a, b}, once |-> "yes"]

\* A fact with a source, and the spine above it.  The id is fresh, or given to
\* upsert the node.
AddFact(p, c) ==
    /\ Free(p)
    /\ made' = made \cup {c}
    /\ Begin(p, <<PutNode(c, {}), PutNode("file", {}), Link("file", c)>>)

\* Ids an agent gives need not exist.
AddEdge(p, a, b) ==
    /\ Free(p) /\ a # b
    /\ Begin(p, <<PutEdge("edge", a, b)>>) /\ UNCHANGED made

Pin(p, n) ==
    /\ Free(p)
    /\ Begin(p, <<PutNode(n, {n})>>) /\ UNCHANGED made

Flag(old, new) == [op |-> "supersede", a |-> old, b |-> new, needs |-> {}, once |-> "no"]

\* The replacement (here without a source), an edge to what it replaces, and the
\* flag.
Supersede(p, old, c) ==
    /\ Free(p) /\ c \notin made /\ old # c
    /\ made' = made \cup {c}
    /\ Begin(p, <<PutNode(c, {old}), PutEdge("supersedes", c, old), Flag(old, c)>>)

\* Mistake: an upsert writes a fresh node.
LineAfresh(s, S) ==
    [op |-> s.op, a |-> s.a, b |-> s.b, sup |-> "no"]

\* The line of a step, from what the store holds.
Line(s, S) ==
    [op |-> s.op, a |-> s.a, b |-> s.b,
     sup |-> IF s.op = "node" /\ Flagged(S, s.a) THEN "yes" ELSE "no"]

InCall(p) == todo[p] # <<>>

\* hasEdge, before the log is read again.
SkipLink(p) ==
    /\ pc[p] = "idle" /\ InCall(p)
    /\ LET s == Head(todo[p]) IN s.once = "yes" /\ HasEdge(seen[p], s.a, s.b)
    /\ todo' = [todo EXCEPT ![p] = Tail(@)]
    /\ UNCHANGED <<disk, pc, next, memory, made, raced, counts>>

\* The nodes a step refers to are there.
Has(s, S) == s.needs \subseteq NodesOf(S)

\* reloadIfChanged, and the line, or the error that ends the call.
Look(p, w) ==
    /\ pc[p] = "idle" /\ InCall(p)
    /\ LET s == Head(todo[p]) IN
       /\ ~(s.once = "yes" /\ HasEdge(seen[p], s.a, s.b))
       /\ \E u \in Upto(off[p]) :
           LET S == seen[p] \cup Parsed(off[p], u) IN
           /\ w => u > off[p]
           /\ off' = [off EXCEPT ![p] = u] /\ seen' = [seen EXCEPT ![p] = S]
           /\ Snaps(w, u, S)
           /\ IF Has(s, S)
              THEN /\ next' = [next EXCEPT ![p] = Line(s, S)]
                   /\ pc' = [pc EXCEPT ![p] = "write"] /\ UNCHANGED todo
              ELSE todo' = [todo EXCEPT ![p] = <<>>] /\ UNCHANGED <<next, pc>>
    /\ UNCHANGED <<log, made, raced, counts>>

Puts(p, end) ==
    /\ log' = Append(log, [put |-> next[p], end |-> end])
    /\ raced' = IF \E q \in Store \ {p} : InCall(q) THEN raced \cup {Len(log) + 1} ELSE raced

\* append, first part.
Write(p) ==
    /\ pc[p] = "write"
    /\ Puts(p, "newline")
    /\ seen' = [seen EXCEPT ![p] = @ \cup {Len(log) + 1}]
    /\ pc' = [pc EXCEPT ![p] = "stat"] /\ next' = [next EXCEPT ![p] = NoOp]
    /\ UNCHANGED <<snap, todo, off, made, counts>>

\* append, second part: on from the end of the file, whoever wrote what is there.
\* The flag of a superseded node is appended without another look.
Stat(p) ==
    /\ pc[p] = "stat"
    /\ off' = [off EXCEPT ![p] = Len(log)]
    /\ todo' = [todo EXCEPT ![p] = Tail(@)]
    /\ LET more == Tail(todo[p]) IN
       IF more # <<>> /\ Head(more).op = "supersede"
       THEN /\ next' = [next EXCEPT ![p] = Line(Head(more), seen[p])]
            /\ pc' = [pc EXCEPT ![p] = "write"]
       ELSE pc' = [pc EXCEPT ![p] = "idle"] /\ UNCHANGED next
    /\ UNCHANGED <<disk, seen, made, raced, counts>>

Gone(p) ==
    /\ pc' = [pc EXCEPT ![p] = "off"]
    /\ todo' = [todo EXCEPT ![p] = <<>>] /\ next' = [next EXCEPT ![p] = NoOp]
    /\ off' = [off EXCEPT ![p] = 0] /\ seen' = [seen EXCEPT ![p] = {}]
    /\ UNCHANGED <<snap, made, calls>>

Crash(p) ==
    /\ pc[p] # "off" /\ crashes + torn < MaxFaults
    /\ crashes' = crashes + 1
    /\ Gone(p) /\ UNCHANGED <<log, raced, torn>>

\* The machine goes down in the middle of an append.
Tear(p) ==
    /\ pc[p] = "write" /\ crashes + torn < MaxFaults
    /\ torn' = torn + 1
    /\ Puts(p, "torn")
    /\ Gone(p) /\ UNCHANGED crashes

Next ==
    \E p \in Store :
        \/ \E w \in BOOLEAN : Start(p, w) \/ Look(p, w)
        \/ SkipLink(p) \/ Write(p) \/ Stat(p) \/ Crash(p) \/ Tear(p)
        \/ \E c \in Fact : AddFact(p, c)
        \/ \E a, b \in Fact : AddEdge(p, a, b) \/ Supersede(p, a, b)
        \/ \E n \in Node : Pin(p, n)

Spec == Init /\ [][Next]_vars

-----------------------------------------------------------------------------
(* Properties. *)

\* Of what a full replay of the lines it has passed would give, a store, or the
\* snapshot one of them left, misses only lines that were written while another
\* call was under way (reloadIfChanged, append, tryLoadSnapshot).
MissesOnlyRaced ==
    /\ \A p \in Store : pc[p] # "off" => Replay(off[p]) \subseteq seen[p] \cup raced
    /\ Replay(snap.covers) \subseteq snap.seen \cup raced

\* The node an edge of the log refers to is in the log, unless its line was torn
\* or joined to a torn one (addEdge).
EdgesHaveEnds ==
    \A i \in File : log[i].put.op \in Edges =>
        \A n \in {log[i].put.a, log[i].put.b} :
            n \in NodesOf(File) \/ \E j \in 1..Len(log) : Is(j, "node", n) /\ j \notin File

\* "Superseded nodes remain addressable ... flags the old one" (graphStore.ts:23-24):
\* the flag goes only with an upsert by somebody whose call overlapped another.
UnflaggedByRace ==
    \A n \in Node : Flagged(File, n) /\ ~Flagged(File, n)'
        => \E i \in raced' : log'[i].put.a = n

FlagsStay == [][UnflaggedByRace]_vars

\* Once nobody is in a call, a node with a replacement is flagged, unless a
\* process died on the way or calls overlapped (supersede).
FlagsFollow ==
    (\A p \in Store : ~InCall(p)) /\ crashes = 0 /\ torn = 0 =>
        \A i \in File : log[i].put.op = "supersedes" =>
            Flagged(File, log[i].put.b) \/ raced # {}

\* An edge of the spine appears twice only when the two calls overlapped
\* (linkParentOf).
OneSpine ==
    \A i, j \in File : i < j /\ Is(i, "edge", "file") /\ Is(j, "edge", "file") /\ log[i].put = log[j].put
        => raced \cap {i, j} # {}

\* The shared graph is consistent, in the parts above.
GraphHolds == TypeOK /\ EdgesHaveEnds /\ FlagsFollow /\ OneSpine
=============================================================================
