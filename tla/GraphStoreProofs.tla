-------------------------- MODULE GraphStoreProofs --------------------------
(***************************************************************************)
(* What a store of the project graph may miss, and what the graph keeps,    *)
(* for any number of stores and calls.  The first inductive invariant adds  *)
(* to MissesOnlyRaced what holds in the middle of an append: every line     *)
(* that stands between lastOffset and the end of the log is one the store   *)
(* applied, one that raced, or torn.  On it rests the second (Whole), from  *)
(* which the parts of GraphHolds and FlagsStay follow.  The last section is  *)
(* about the backups of an agent (Backup), its identity and its archives.   *)
(***************************************************************************)
EXTENDS GraphStore, Backup, TLAPS

Blind(p) ==
    pc[p] \in {"write", "stat"} =>
        /\ InCall(p)
        /\ \A i \in (off[p] + 1)..Len(log) : i \in seen[p] \/ i \in raced \/ log[i].end = "torn"

Inv == TypeOK /\ MissesOnlyRaced /\ \A p \in Store : Blind(p)

-----------------------------------------------------------------------------
(* Lines and steps have their types. *)

LEMMA NodeType == "file" \in Node /\ Fact \subseteq Node
BY DEF Node

LEMMA PutNodeType == ASSUME NEW n \in Node, NEW S \in SUBSET Node PROVE PutNode(n, S) \in Step
BY DEF PutNode, Step, Edges

LEMMA PutEdgeType ==
    ASSUME NEW op \in Edges, NEW a \in Node, NEW b \in Node PROVE PutEdge(op, a, b) \in Step
BY DEF PutEdge, Step, Edges

LEMMA LinkType == ASSUME NEW a \in Node, NEW b \in Node PROVE Link(a, b) \in Step
BY DEF Link, Step, Edges

LEMMA FlagType == ASSUME NEW a \in Node, NEW b \in Node PROVE Flag(a, b) \in Step
BY DEF Flag, Step, Edges

LEMMA LineType == ASSUME NEW s \in Step, NEW S PROVE Line(s, S) \in Op
<1>1. CASE s.op = "node" /\ Flagged(S, s.a) BY <1>1 DEF Line, Step, Op
<1>2. CASE ~(s.op = "node" /\ Flagged(S, s.a)) BY <1>2 DEF Line, Step, Op
<1> QED BY <1>1, <1>2

LEMMA StepsType ==
    ASSUME NEW s \in Seq(Step), s # <<>> PROVE Head(s) \in Step /\ Tail(s) \in Seq(Step)
OBVIOUS

LEMMA NoOpType == NoOp \in Op
BY DEF NoOp, Op, Node

\* reloadIfChanged: a full replay up to where the tail ends is a replay up to
\* where it began, and the tail.
LEMMA TailCompletes ==
    ASSUME log \in Seq(Chunk), NEW o \in 0..Len(log), NEW u \in Upto(o)
    PROVE  /\ u \in o..Len(log)
           /\ Parsed(o, u) \subseteq 1..Len(log)
           /\ Replay(u) \subseteq Replay(o) \cup Parsed(o, u)
           /\ \A i \in (u + 1)..Len(log) : log[i].end = "torn"
BY DEF Upto, Parsed, Replay

-----------------------------------------------------------------------------
LEMMA InitInv == Init => Inv
<1> SUFFICES ASSUME Init PROVE Inv OBVIOUS
<1> USE GraphConstants DEF Init
<1>1. log \in Seq(Chunk) /\ made \subseteq Fact
  <2>1. CASE log = <<>> /\ made = {} BY <2>1
  <2>2. ASSUME NEW c \in Fact,
               log = <<[put |-> [op |-> "node", a |-> c, b |-> c, sup |-> "no"], end |-> "newline"]>>,
               made = {c}
        PROVE  log \in Seq(Chunk) /\ made \subseteq Fact
    <3>1. [op |-> "node", a |-> c, b |-> c, sup |-> "no"] \in Op BY DEF Op, Node
    <3> QED BY <2>2, <3>1 DEF Chunk
  <2> QED BY <2>1, <2>2
<1>2. Len(log) \in Nat BY <1>1
<1>3. TypeOK BY <1>1, <1>2, NoOpType DEF TypeOK
<1>4. Replay(0) = {} BY DEF Replay, Parsed
<1>5. MissesOnlyRaced BY <1>4 DEF MissesOnlyRaced
<1>6. \A p \in Store : Blind(p) BY DEF Blind
<1> QED BY <1>3, <1>5, <1>6 DEF Inv

\* Snapshots are what their author held.
LEMMA SnapsInv ==
    ASSUME log \in Seq(Chunk), NEW w \in BOOLEAN, NEW u \in 0..Len(log), NEW s \in SUBSET (1..Len(log)),
           snap \in [covers : 0..Len(log), seen : SUBSET (1..Len(log))],
           Replay(snap.covers) \subseteq snap.seen \cup raced,
           Replay(u) \subseteq s \cup raced,
           Snaps(w, u, s)
    PROVE  /\ snap' \in [covers : 0..Len(log), seen : SUBSET (1..Len(log))]
           /\ Replay(snap'.covers) \subseteq snap'.seen \cup raced
<1>1. CASE w BY <1>1 DEF Snaps
<1>2. CASE ~w BY <1>2 DEF Snaps
<1> QED BY <1>1, <1>2

LEMMA StartInv == ASSUME Inv, NEW p \in Store, NEW w \in BOOLEAN, Start(p, w) PROVE Inv'
<1> USE DEF Inv, TypeOK
<1>1. PICK u \in Upto(snap.covers) :
        LET s == snap.seen \cup Parsed(snap.covers, u) IN
        off' = [off EXCEPT ![p] = u] /\ seen' = [seen EXCEPT ![p] = s] /\ Snaps(w, u, s)
  BY DEF Start
<1> DEFINE s == snap.seen \cup Parsed(snap.covers, u)
<1>2. /\ pc[p] = "off" /\ pc' = [pc EXCEPT ![p] = "idle"]
      /\ UNCHANGED <<log, todo, next, made, raced, calls, crashes, torn>>
  BY DEF Start, counts
<1>3. /\ u \in 0..Len(log) /\ s \in SUBSET (1..Len(log))
      /\ Replay(u) \subseteq s \cup raced
  BY TailCompletes DEF MissesOnlyRaced
<1>4. /\ snap' \in [covers : 0..Len(log), seen : SUBSET (1..Len(log))]
      /\ Replay(snap'.covers) \subseteq snap'.seen \cup raced
  BY <1>1, <1>3, SnapsInv DEF MissesOnlyRaced
<1>5. TypeOK' BY <1>1, <1>2, <1>3, <1>4
<1>6. \A n : Replay(n)' = Replay(n) BY <1>2 DEF Replay, Parsed
<1>7. MissesOnlyRaced' BY <1>1, <1>2, <1>3, <1>4, <1>6 DEF MissesOnlyRaced, Replay, Parsed
<1>8. \A q \in Store : Blind(q)' BY <1>1, <1>2 DEF Blind, InCall
<1> QED BY <1>5, <1>7, <1>8

LEMMA BeginInv ==
    ASSUME Inv, NEW p \in Store, NEW steps \in Seq(Step), Free(p), steps # <<>>, Begin(p, steps), made' \subseteq Fact
    PROVE  Inv'
<1> USE DEF Inv, TypeOK
<1>1. /\ todo' = [todo EXCEPT ![p] = steps] /\ calls' = calls + 1 /\ pc[p] = "idle" /\ calls < MaxCalls
      /\ UNCHANGED <<log, snap, pc, next, off, seen, raced, crashes, torn>>
  BY DEF Begin, Free, disk, memory
<1>2. TypeOK' BY <1>1, GraphConstants
<1>3. MissesOnlyRaced' BY <1>1 DEF MissesOnlyRaced, Replay, Parsed
<1>4. \A q \in Store : Blind(q)' BY <1>1 DEF Blind, InCall
<1> QED BY <1>2, <1>3, <1>4

LEMMA CallInv ==
    ASSUME Inv, NEW p \in Store, NEW a \in Fact, NEW b \in Fact, NEW n \in Node,
           AddFact(p, a) \/ AddEdge(p, a, b) \/ Supersede(p, a, b) \/ Pin(p, n)
    PROVE  Inv'
<1>0. made \subseteq Fact /\ a \in Node /\ b \in Node /\ "file" \in Node BY NodeType DEF Inv, TypeOK
<1>1. CASE AddFact(p, a)
  <2> DEFINE steps == <<PutNode(a, {}), PutNode("file", {}), Link("file", a)>>
  <2>1. steps \in Seq(Step) /\ steps # <<>> BY <1>0, PutNodeType, LinkType
  <2> QED BY <1>0, <1>1, <2>1, BeginInv DEF AddFact
<1>2. CASE AddEdge(p, a, b)
  <2> DEFINE steps == <<PutEdge("edge", a, b)>>
  <2>1. steps \in Seq(Step) /\ steps # <<>> BY <1>0, PutEdgeType DEF Edges
  <2> QED BY <1>0, <1>2, <2>1, BeginInv DEF AddEdge
<1>3. CASE Supersede(p, a, b)
  <2> DEFINE steps == <<PutNode(b, {a}), PutEdge("supersedes", b, a), Flag(a, b)>>
  <2>1. steps \in Seq(Step) /\ steps # <<>> BY <1>0, PutNodeType, PutEdgeType, FlagType DEF Edges
  <2> QED BY <1>0, <1>3, <2>1, BeginInv DEF Supersede
<1>4. CASE Pin(p, n)
  <2> DEFINE steps == <<PutNode(n, {n})>>
  <2>1. steps \in Seq(Step) /\ steps # <<>> BY PutNodeType
  <2> QED BY <1>0, <1>4, <2>1, BeginInv DEF Pin
<1> QED BY <1>1, <1>2, <1>3, <1>4

LEMMA SkipLinkInv == ASSUME Inv, NEW p \in Store, SkipLink(p) PROVE Inv'
<1> USE DEF Inv, TypeOK
<1>1. /\ pc[p] = "idle" /\ todo[p] # <<>> /\ todo' = [todo EXCEPT ![p] = Tail(@)]
      /\ UNCHANGED <<log, snap, pc, next, off, seen, made, raced, calls, crashes, torn>>
  BY DEF SkipLink, InCall, disk, memory, counts
<1>2. TypeOK' BY <1>1
<1>3. MissesOnlyRaced' BY <1>1 DEF MissesOnlyRaced, Replay, Parsed
<1>4. \A q \in Store : Blind(q)' BY <1>1 DEF Blind, InCall
<1> QED BY <1>2, <1>3, <1>4

LEMMA LookInv == ASSUME Inv, NEW p \in Store, NEW w \in BOOLEAN, Look(p, w) PROVE Inv'
<1> USE DEF Inv, TypeOK
<1> DEFINE st == Head(todo[p])
<1>0. /\ pc[p] = "idle" /\ todo[p] # <<>> /\ st \in Step
      /\ UNCHANGED <<log, made, raced, calls, crashes, torn>>
  BY DEF Look, InCall, counts
<1>1. PICK u \in Upto(off[p]) :
        LET S == seen[p] \cup Parsed(off[p], u) IN
        /\ off' = [off EXCEPT ![p] = u] /\ seen' = [seen EXCEPT ![p] = S]
        /\ Snaps(w, u, S)
        /\ IF Has(st, S)
           THEN next' = [next EXCEPT ![p] = Line(st, S)] /\ pc' = [pc EXCEPT ![p] = "write"] /\ UNCHANGED todo
           ELSE todo' = [todo EXCEPT ![p] = <<>>] /\ UNCHANGED <<next, pc>>
  BY DEF Look
<1> DEFINE S == seen[p] \cup Parsed(off[p], u)
<1>3. /\ u \in 0..Len(log) /\ S \in SUBSET (1..Len(log))
      /\ Replay(u) \subseteq S \cup raced
      /\ \A i \in (u + 1)..Len(log) : log[i].end = "torn"
  <2>1. off[p] \in 0..Len(log) /\ seen[p] \in SUBSET (1..Len(log)) OBVIOUS
  <2>2. Replay(off[p]) \subseteq seen[p] \cup raced BY <1>0 DEF MissesOnlyRaced
  <2>3. /\ u \in off[p]..Len(log)
        /\ Parsed(off[p], u) \subseteq 1..Len(log)
        /\ Replay(u) \subseteq Replay(off[p]) \cup Parsed(off[p], u)
        /\ \A i \in (u + 1)..Len(log) : log[i].end = "torn"
    BY <2>1, TailCompletes
  <2> QED BY <2>1, <2>2, <2>3
<1>4. /\ snap' \in [covers : 0..Len(log), seen : SUBSET (1..Len(log))]
      /\ Replay(snap'.covers) \subseteq snap'.seen \cup raced
  BY <1>1, <1>3, SnapsInv DEF MissesOnlyRaced
<1>5. /\ pc' \in [Store -> {"off", "idle", "write", "stat"}]
      /\ todo' \in [Store -> Seq(Step)] /\ next' \in [Store -> Op]
      /\ \A q \in Store : q # p => pc'[q] = pc[q] /\ todo'[q] = todo[q]
      /\ pc'[p] # "off" /\ pc'[p] # "stat"
      /\ pc'[p] = "write" => todo'[p] # <<>>
  <2>1. CASE Has(st, S)
    <3>1. next' = [next EXCEPT ![p] = Line(st, S)] /\ pc' = [pc EXCEPT ![p] = "write"] /\ todo' = todo
      BY <1>1, <2>1
    <3>2. Line(st, S) \in Op BY <1>0, LineType
    <3> QED BY <1>0, <3>1, <3>2
  <2>2. CASE ~Has(st, S)
    <3>1. todo' = [todo EXCEPT ![p] = <<>>] /\ next' = next /\ pc' = pc BY <1>1, <2>2
    <3> QED BY <1>0, <3>1
  <2> QED BY <2>1, <2>2
<1>6. TypeOK' BY <1>0, <1>1, <1>3, <1>4, <1>5
<1>7. MissesOnlyRaced' BY <1>0, <1>1, <1>3, <1>4, <1>5 DEF MissesOnlyRaced, Replay, Parsed
<1>8. \A q \in Store : Blind(q)'
  <2> TAKE q \in Store
  <2>1. CASE q = p BY <1>0, <1>1, <1>3, <1>5, <2>1 DEF Blind, InCall
  <2>2. CASE q # p BY <1>0, <1>1, <1>5, <2>2 DEF Blind, InCall
  <2> QED BY <2>1, <2>2
<1> QED BY <1>6, <1>7, <1>8

\* What is replayed of a part of the log that did not change.
LEMMA ReplayKeeps ==
    ASSUME log \in Seq(Chunk), NEW n \in 0..Len(log), \A i \in 1..Len(log) : log'[i] = log[i]
    PROVE  Replay(n)' = Replay(n)
<1>1. \A i \in 1..n : log'[i] = log[i] /\ (i # 1 => log'[i - 1] = log[i - 1]) OBVIOUS
<1> QED BY <1>1 DEF Replay, Parsed

\* An append leaves what is before it, and races with the calls under way.
LEMMA PutsKeeps ==
    ASSUME Inv, NEW p \in Store, NEW e \in {"newline", "torn"}, Puts(p, e)
    PROVE  /\ log' \in Seq(Chunk) /\ Len(log') = Len(log) + 1
           /\ \A i \in 1..Len(log) : log'[i] = log[i]
           /\ log'[Len(log) + 1].end = e
           /\ raced \subseteq raced' /\ raced' \subseteq 1..Len(log')
           /\ \A q \in Store \ {p} : todo[q] # <<>> => Len(log) + 1 \in raced'
<1> USE DEF Inv, TypeOK
<1>1. next[p] \in Op OBVIOUS
<1> DEFINE c == [put |-> next[p], end |-> e]
<1>2. c \in Chunk /\ c.end = e BY <1>1 DEF Chunk
<1> HIDE DEF c
<1>3. log' = Append(log, c) BY DEF Puts, c
<1>4. /\ log' \in Seq(Chunk) /\ Len(log') = Len(log) + 1
      /\ \A i \in 1..Len(log) : log'[i] = log[i]
      /\ log'[Len(log) + 1] = c
  BY <1>2, <1>3
<1>5. CASE \E q \in Store \ {p} : todo[q] # <<>>
  <2>1. raced' = raced \cup {Len(log) + 1} BY <1>5 DEF Puts, InCall
  <2>2. raced \subseteq raced' /\ Len(log) + 1 \in raced' BY <2>1
  <2>3. raced' \subseteq 1..Len(log')
    <3>1. raced \subseteq 1..Len(log) /\ Len(log) \in Nat OBVIOUS
    <3>2. \A i \in raced' : i \in raced \/ i = Len(log) + 1 BY <2>1
    <3>3. \A i \in 1..Len(log) : i \in 1..(Len(log) + 1) BY <3>1
    <3>4. Len(log) + 1 \in 1..(Len(log) + 1) BY <3>1
    <3> HIDE DEF Inv, TypeOK
    <3> QED BY <1>4, <3>1, <3>2, <3>3, <3>4
  <2> QED BY <1>2, <1>4, <2>2, <2>3
<1>6. CASE \A q \in Store \ {p} : todo[q] = <<>>
  <2>1. raced' = raced BY <1>6 DEF Puts, InCall
  <2> QED BY <1>2, <1>4, <1>6, <2>1
<1> QED BY <1>5, <1>6

LEMMA WriteInv == ASSUME Inv, NEW p \in Store, Write(p) PROVE Inv'
<1> USE DEF Inv, TypeOK
<1>1. /\ pc[p] = "write" /\ Puts(p, "newline")
      /\ seen' = [seen EXCEPT ![p] = @ \cup {Len(log) + 1}]
      /\ pc' = [pc EXCEPT ![p] = "stat"] /\ next' = [next EXCEPT ![p] = NoOp]
      /\ UNCHANGED <<snap, todo, off, made, calls, crashes, torn>>
  BY DEF Write, counts
<1>2. /\ log' \in Seq(Chunk) /\ Len(log') = Len(log) + 1
      /\ \A i \in 1..Len(log) : log'[i] = log[i]
      /\ raced \subseteq raced' /\ raced' \subseteq 1..Len(log')
      /\ \A q \in Store \ {p} : todo[q] # <<>> => Len(log) + 1 \in raced'
  BY <1>1, PutsKeeps
<1>3. TypeOK' BY <1>1, <1>2, NoOpType
<1>4. MissesOnlyRaced'
  <2>1. Replay(snap.covers)' \subseteq snap.seen \cup raced'
    <3>1. snap.covers \in 0..Len(log) /\ snap' = snap BY <1>1
    <3>2. Replay(snap.covers)' = Replay(snap.covers) BY <1>2, <3>1, ReplayKeeps
    <3> QED BY <1>2, <3>2 DEF MissesOnlyRaced
  <2>2. ASSUME NEW q \in Store, pc'[q] # "off" PROVE Replay(off[q])' \subseteq seen'[q] \cup raced'
    <3>1. off[q] \in 0..Len(log) /\ off' = off /\ pc[q] # "off" /\ seen[q] \subseteq seen'[q] BY <1>1, <2>2
    <3>2. Replay(off[q])' = Replay(off[q]) BY <1>2, <3>1, ReplayKeeps
    <3> QED BY <1>2, <3>1, <3>2 DEF MissesOnlyRaced
  <2> QED BY <1>1, <2>1, <2>2 DEF MissesOnlyRaced
<1>5. ASSUME NEW q \in Store PROVE Blind(q)'
  <2> SUFFICES ASSUME pc'[q] \in {"write", "stat"}
               PROVE  /\ todo[q] # <<>>
                      /\ \A i \in (off[q] + 1)..Len(log') :
                           i \in seen'[q] \/ i \in raced' \/ log'[i].end = "torn"
    BY <1>1 DEF Blind, InCall
  <2>1. pc[q] \in {"write", "stat"} /\ seen[q] \subseteq seen'[q] BY <1>1
  <2>2. /\ todo[q] # <<>>
        /\ \A i \in (off[q] + 1)..Len(log) : i \in seen[q] \/ i \in raced \/ log[i].end = "torn"
    BY <2>1 DEF Blind, InCall
  <2>3. Len(log') \in seen'[q] \cup raced' BY <1>1, <1>2, <2>2
  <2>4. \A i \in (off[q] + 1)..Len(log') : i = Len(log') \/ i \in (off[q] + 1)..Len(log) BY <1>2
  <2>5. \A i \in (off[q] + 1)..Len(log) : log'[i] = log[i] BY <1>2
  <2> QED BY <1>2, <2>1, <2>2, <2>3, <2>4, <2>5
<1> QED BY <1>3, <1>4, <1>5

LEMMA StatInv == ASSUME Inv, NEW p \in Store, Stat(p) PROVE Inv'
<1> USE DEF Inv, TypeOK
<1> DEFINE more == Tail(todo[p])
<1>1. /\ pc[p] = "stat" /\ off' = [off EXCEPT ![p] = Len(log)]
      /\ todo' = [todo EXCEPT ![p] = more]
      /\ IF more # <<>> /\ Head(more).op = "supersede"
         THEN next' = [next EXCEPT ![p] = Line(Head(more), seen[p])] /\ pc' = [pc EXCEPT ![p] = "write"]
         ELSE pc' = [pc EXCEPT ![p] = "idle"] /\ UNCHANGED next
      /\ UNCHANGED <<log, snap, seen, made, raced, calls, crashes, torn>>
  BY DEF Stat, disk, counts
<1>2. todo[p] \in Seq(Step) /\ todo[p] # <<>> BY <1>1 DEF Blind, InCall
<1>3. more \in Seq(Step) BY <1>2, StepsType
<1> HIDE DEF more
<1>4. /\ pc' \in [Store -> {"off", "idle", "write", "stat"}] /\ next' \in [Store -> Op]
      /\ \A q \in Store : q # p => pc'[q] = pc[q] /\ todo'[q] = todo[q]
      /\ pc'[p] \in {"write", "stat"} => more # <<>>
  <2>1. CASE more # <<>> /\ Head(more).op = "supersede"
    <3>1. Head(more) \in Step BY <1>3, <2>1, StepsType
    <3>2. Line(Head(more), seen[p]) \in Op BY <3>1, LineType
    <3> QED BY <1>1, <2>1, <3>2
  <2>2. CASE ~(more # <<>> /\ Head(more).op = "supersede") BY <1>1, <2>2
  <2> QED BY <2>1, <2>2
<1>5. Replay(Len(log)) \subseteq seen[p] \cup raced
  <2>1. Replay(off[p]) \subseteq seen[p] \cup raced BY <1>1 DEF MissesOnlyRaced
  <2>2. \A i \in (off[p] + 1)..Len(log) : i \in seen[p] \/ i \in raced \/ log[i].end = "torn"
    BY <1>1 DEF Blind
  <2> SUFFICES ASSUME NEW i \in Replay(Len(log)) PROVE i \in seen[p] \cup raced OBVIOUS
  <2>3. i \in 1..Len(log) /\ log[i].end # "torn" BY DEF Replay, Parsed
  <2>4. CASE i <= off[p]
    <3>1. i \in Replay(off[p]) BY <2>3, <2>4 DEF Replay, Parsed
    <3> QED BY <2>1, <3>1
  <2>5. CASE i > off[p]
    <3>1. i \in (off[p] + 1)..Len(log) BY <2>3, <2>5
    <3> QED BY <2>2, <2>3, <3>1
  <2> QED BY <2>3, <2>4, <2>5
<1>6. TypeOK' BY <1>1, <1>3, <1>4, GraphConstants
<1>7. MissesOnlyRaced' BY <1>1, <1>4, <1>5 DEF MissesOnlyRaced, Replay, Parsed
<1>8. \A q \in Store : Blind(q)'
  <2> TAKE q \in Store
  <2>1. CASE q = p BY <1>1, <1>2, <1>3, <1>4, <2>1 DEF Blind, InCall
  <2>2. CASE q # p BY <1>1, <1>4, <2>2 DEF Blind, InCall
  <2> QED BY <2>1, <2>2
<1> QED BY <1>6, <1>7, <1>8

LEMMA GoneInv == ASSUME Inv, NEW p \in Store, Crash(p) \/ Tear(p) PROVE Inv'
<1> USE DEF Inv, TypeOK
<1>1. /\ pc' = [pc EXCEPT ![p] = "off"]
      /\ todo' = [todo EXCEPT ![p] = <<>>] /\ next' = [next EXCEPT ![p] = NoOp]
      /\ off' = [off EXCEPT ![p] = 0] /\ seen' = [seen EXCEPT ![p] = {}]
      /\ UNCHANGED <<snap, made, calls>>
  BY DEF Crash, Tear, Gone
<1>2. CASE Crash(p)
  <2>1. UNCHANGED <<log, raced, torn>> /\ crashes' = crashes + 1 /\ crashes + torn < MaxFaults
    BY <1>2 DEF Crash
  <2>2. TypeOK' BY <1>1, <2>1, NoOpType, GraphConstants
  <2>3. MissesOnlyRaced' BY <1>1, <2>1 DEF MissesOnlyRaced, Replay, Parsed
  <2>4. \A q \in Store : Blind(q)' BY <1>1, <2>1 DEF Blind, InCall
  <2> QED BY <2>2, <2>3, <2>4
<1>3. CASE Tear(p)
  <2>1. Puts(p, "torn") /\ UNCHANGED crashes /\ torn' = torn + 1 /\ crashes + torn < MaxFaults
    BY <1>3 DEF Tear
  <2>2. /\ log' \in Seq(Chunk) /\ Len(log') = Len(log) + 1
        /\ \A i \in 1..Len(log) : log'[i] = log[i]
        /\ log'[Len(log) + 1].end = "torn"
        /\ raced \subseteq raced' /\ raced' \subseteq 1..Len(log')
    BY <2>1, PutsKeeps
  <2>3. TypeOK' BY <1>1, <2>1, <2>2, NoOpType, GraphConstants
  <2>4. MissesOnlyRaced'
    <3>1. Replay(snap.covers)' \subseteq snap.seen \cup raced'
      <4>1. snap.covers \in 0..Len(log) /\ snap' = snap BY <1>1
      <4>2. Replay(snap.covers)' = Replay(snap.covers) BY <2>2, <4>1, ReplayKeeps
      <4> QED BY <2>2, <4>2 DEF MissesOnlyRaced
    <3>2. ASSUME NEW q \in Store, pc'[q] # "off" PROVE Replay(off[q])' \subseteq seen'[q] \cup raced'
      <4>1. off[q] \in 0..Len(log) /\ off'[q] = off[q] /\ pc[q] # "off" /\ seen[q] = seen'[q] BY <1>1, <3>2
      <4>2. Replay(off[q])' = Replay(off[q]) BY <2>2, <4>1, ReplayKeeps
      <4> QED BY <2>2, <4>1, <4>2 DEF MissesOnlyRaced
    <3> QED BY <1>1, <3>1, <3>2 DEF MissesOnlyRaced
  <2>5. ASSUME NEW q \in Store PROVE Blind(q)'
    <3> SUFFICES ASSUME pc'[q] \in {"write", "stat"}
                 PROVE  /\ todo'[q] # <<>>
                        /\ \A i \in (off'[q] + 1)..Len(log') :
                             i \in seen'[q] \/ i \in raced' \/ log'[i].end = "torn"
      BY DEF Blind, InCall
    <3>1. /\ pc[q] = pc'[q] /\ todo'[q] = todo[q] /\ off'[q] = off[q] /\ seen'[q] = seen[q]
          /\ off[q] \in 0..Len(log)
      BY <1>1
    <3>2. /\ todo[q] # <<>>
          /\ \A i \in (off[q] + 1)..Len(log) : i \in seen[q] \/ i \in raced \/ log[i].end = "torn"
      BY <3>1 DEF Blind, InCall
    <3>3. \A i \in (off[q] + 1)..Len(log') : i = Len(log') \/ i \in (off[q] + 1)..Len(log) BY <2>2, <3>1
    <3>4. \A i \in (off[q] + 1)..Len(log) : log'[i] = log[i] BY <2>2, <3>1
    <3> QED BY <2>2, <3>1, <3>2, <3>3, <3>4
  <2> QED BY <2>3, <2>4, <2>5
<1> QED BY <1>2, <1>3

LEMMA NextInv == Inv /\ [Next]_vars => Inv'
<1> SUFFICES ASSUME Inv, [Next]_vars PROVE Inv' OBVIOUS
<1>1. CASE Next
  <2>1. PICK p \in Store :
          \/ \E w \in BOOLEAN : Start(p, w) \/ Look(p, w)
          \/ SkipLink(p) \/ Write(p) \/ Stat(p) \/ Crash(p) \/ Tear(p)
          \/ \E c \in Fact : AddFact(p, c)
          \/ \E a, b \in Fact : AddEdge(p, a, b) \/ Supersede(p, a, b)
          \/ \E n \in Node : Pin(p, n)
    BY <1>1 DEF Next
  <2>2. CASE \E w \in BOOLEAN : Start(p, w) \/ Look(p, w) BY <2>2, StartInv, LookInv
  <2>3. CASE SkipLink(p) \/ Write(p) \/ Stat(p) BY <2>3, SkipLinkInv, WriteInv, StatInv
  <2>4. CASE Crash(p) \/ Tear(p) BY <2>4, GoneInv
  <2>5. CASE \E c \in Fact : AddFact(p, c) BY <2>5, CallInv, NodeType
  <2>6. CASE \E a, b \in Fact : AddEdge(p, a, b) \/ Supersede(p, a, b) BY <2>6, CallInv, NodeType
  <2>7. CASE \E n \in Node : Pin(p, n)
    <3>1. PICK n \in Node : Pin(p, n) BY <2>7
    <3>2. \A a, b \in Fact : Inv' BY <3>1, CallInv
    <3>3. CASE Fact # {} BY <3>2, <3>3
    <3>4. CASE Fact = {}
      <4>1. <<PutNode(n, {n})>> \in Seq(Step) /\ <<PutNode(n, {n})>> # <<>> BY PutNodeType
      <4>2. made' \subseteq Fact BY <3>1 DEF Pin, Inv, TypeOK
      <4> QED BY <3>1, <4>1, <4>2, BeginInv DEF Pin
    <3> QED BY <3>3, <3>4
  <2> QED BY <2>1, <2>2, <2>3, <2>4, <2>5, <2>6, <2>7
<1>2. CASE UNCHANGED vars
  BY <1>2 DEF Inv, vars, disk, memory, control, counts, TypeOK, MissesOnlyRaced, Replay, Parsed, Blind, InCall
<1> QED BY <1>1, <1>2

\* Every variable of the store stays within its type.
THEOREM GraphTyped == Spec => []TypeOK
<1>1. Inv => TypeOK BY DEF Inv
<1> QED BY InitInv, NextInv, <1>1, PTL DEF Spec

\* A store, and a snapshot, misses only lines that were written while another
\* call was under way.
THEOREM GraphMissesOnlyRaced == Spec => []MissesOnlyRaced
<1>1. Inv => MissesOnlyRaced BY DEF Inv
<1> QED BY InitInv, NextInv, <1>1, PTL DEF Spec
-----------------------------------------------------------------------------
(* The graph is consistent.  What is added says where the next line comes   *)
(* from: a store that is about to write has read all of the log that did    *)
(* not race with it, so that the line it makes of what it knows is the one  *)
(* the log calls for.                                                       *)

HasNode(n) == \E j \in 1..Len(log) : Is(j, "node", n)

RacedAbout(n) == \E i \in raced : log[i].put.a = n

\* The flag of a node stood when line k came.
Stood(k, n) ==
    \E i \in File : /\ i < k /\ Marks(File, i, n)
                    /\ \A m \in File : i < m /\ m < k /\ Is(m, "node", n) => log[m].put.sup = "yes"

StepsFit(s) ==
    \A k \in 1..Len(s) :
        /\ s[k].op \in Edges => {s[k].a, s[k].b} \subseteq s[k].needs
        /\ s[k].op = "edge" /\ s[k].a = "file" => s[k].once = "yes"
        /\ s[k].op = "supersedes" => k < Len(s) /\ s[k + 1].op = "supersede" /\ s[k + 1].a = s[k].b

\* The line is the one of the step.
Fits(p) ==
    /\ StepsFit(todo[p])
    /\ pc[p] = "off" => todo[p] = <<>>
    /\ pc[p] = "write" => /\ next[p].op = Head(todo[p]).op
                          /\ next[p].a = Head(todo[p]).a /\ next[p].b = Head(todo[p]).b

\* Nothing but what raced is missed from the look at the log to the next step
\* that takes one.
Knows(p) ==
    \/ pc[p] \in {"write", "stat"}
    \/ pc[p] = "idle" /\ InCall(p) /\ Head(todo[p]).once = "yes"

Current(p) == Knows(p) => File \subseteq seen[p] \cup raced

\* The line about to be written is right for the log it is written to.
Pending(p) ==
    pc[p] = "write" =>
        /\ next[p].op \in Edges => HasNode(next[p].a) /\ HasNode(next[p].b)
        /\ next[p].op = "edge" /\ next[p].a = "file" => \A i \in File : log[i].put = next[p] => i \in raced
        /\ next[p].op = "node" /\ next[p].sup = "no" /\ Flagged(File, next[p].a) => RacedAbout(next[p].a)

\* So were the lines of the log, the torn ones and those joined to them included.
Lines ==
    \A k \in 1..Len(log) :
        /\ log[k].put.op \in Edges => HasNode(log[k].put.a) /\ HasNode(log[k].put.b)
        /\ log[k].put.op = "node" /\ log[k].put.sup = "no" /\ Stood(k, log[k].put.a) => RacedAbout(log[k].put.a)
        /\ torn = 0 => log[k].end = "newline"

\* The flag of n is still to come.
Owes(p, n) ==
    \/ pc[p] = "stat" /\ Head(todo[p]).op = "supersedes" /\ Head(todo[p]).b = n
    \/ pc[p] = "write" /\ next[p].op = "supersede" /\ next[p].a = n

Promised ==
    raced = {} /\ crashes = 0 /\ torn = 0 =>
        \A k \in 1..Len(log) : log[k].put.op = "supersedes" =>
            Flagged(File, log[k].put.b) \/ \E p \in Store : Owes(p, log[k].put.b)

Whole ==
    /\ Inv
    /\ \A p \in Store : Fits(p) /\ Current(p) /\ Pending(p)
    /\ Lines /\ Promised /\ OneSpine

-----------------------------------------------------------------------------
(* The lines of a longer log. *)

LEMMA FileLines == ASSUME log \in Seq(Chunk) PROVE File \subseteq 1..Len(log)
BY DEF File, Replay, Parsed

\* All lines are whole unless something was torn.
LEMMA FileIsAll ==
    ASSUME log \in Seq(Chunk), \A i \in 1..Len(log) : log[i].end = "newline"
    PROVE  File = 1..Len(log)
BY DEF File, Replay, Parsed

LEMMA Appended ==
    ASSUME Inv, NEW p \in Store, NEW e \in {"newline", "torn"}, Puts(p, e)
    PROVE  /\ log \in Seq(Chunk) /\ log' \in Seq(Chunk) /\ Len(log) \in Nat /\ Len(log') = Len(log) + 1
           /\ \A i \in 1..Len(log) : log'[i] = log[i]
           /\ log'[Len(log) + 1].put = next[p] /\ log'[Len(log) + 1].end = e
           /\ File \subseteq 1..Len(log) /\ File' \subseteq 1..(Len(log) + 1)
           /\ \A i \in 1..Len(log) : i \in File' <=> i \in File
           /\ raced \subseteq raced' /\ raced \subseteq 1..Len(log)
           /\ \A q \in Store \ {p} : InCall(q) => Len(log) + 1 \in raced'
<1>1. /\ log' \in Seq(Chunk) /\ Len(log') = Len(log) + 1
      /\ \A i \in 1..Len(log) : log'[i] = log[i]
      /\ log'[Len(log) + 1].end = e
      /\ raced \subseteq raced'
      /\ \A q \in Store \ {p} : todo[q] # <<>> => Len(log) + 1 \in raced'
  BY PutsKeeps
<1>2. log \in Seq(Chunk) /\ Len(log) \in Nat /\ raced \subseteq 1..Len(log) BY DEF Inv, TypeOK
<1>3. log'[Len(log) + 1].put = next[p]
  <2>1. log' = Append(log, [put |-> next[p], end |-> e]) BY DEF Puts
  <2>2. log'[Len(log) + 1] = [put |-> next[p], end |-> e] BY <1>2, <2>1
  <2> QED BY <2>2
<1>4. File \subseteq 1..Len(log) BY <1>2, FileLines
<1>5. File' \subseteq 1..(Len(log) + 1) BY <1>1, <1>2 DEF File, Replay, Parsed
<1>6. ASSUME NEW i \in 1..Len(log) PROVE i \in File' <=> i \in File
  <2>1. log'[i] = log[i] /\ (i # 1 => i - 1 \in 1..Len(log) /\ log'[i - 1] = log[i - 1]) BY <1>1, <1>2
  <2>2. i \in 1..Len(log') BY <1>1, <1>2
  <2>3. i \in File <=> log[i].end = "newline" /\ (i = 1 \/ log[i - 1].end = "newline")
    BY <1>2 DEF File, Replay, Parsed
  <2>4. i \in File' <=> log'[i].end = "newline" /\ (i = 1 \/ log'[i - 1].end = "newline")
    BY <1>1, <1>2, <2>2 DEF File, Replay, Parsed
  <2> QED BY <2>1, <2>3, <2>4
<1> QED BY <1>1, <1>2, <1>3, <1>4, <1>5, <1>6 DEF InCall

\* What marks a node among lines that were there.
LEMMA MarksKeep ==
    ASSUME Inv, NEW p \in Store, NEW e \in {"newline", "torn"}, Puts(p, e), NEW n, NEW i \in 1..Len(log)
    PROVE  Marks(File, i, n)' <=> Marks(File, i, n)
<1>1. /\ Len(log) \in Nat /\ \A k \in 1..Len(log) : log'[k] = log[k] /\ (k \in File' <=> k \in File)
      /\ File \subseteq 1..Len(log) /\ File' \subseteq 1..(Len(log) + 1)
  BY Appended
<1>2. (\E k \in File : k < i /\ Is(k, "node", n))' <=> (\E k \in File : k < i /\ Is(k, "node", n))
  <2>1. \A k \in File' : k < i => k \in File BY <1>1
  <2>2. \A k \in File : k \in File' /\ log'[k] = log[k] BY <1>1
  <2> QED BY <2>1, <2>2 DEF Is
<1>3. \A op : Is(i, op, n)' <=> Is(i, op, n) BY <1>1 DEF Is
<1> QED BY <1>1, <1>2, <1>3 DEF Marks

LEMMA StoodKeeps ==
    ASSUME Inv, NEW p \in Store, NEW e \in {"newline", "torn"}, Puts(p, e), NEW n, NEW k \in 1..(Len(log) + 1),
           Stood(k, n)'
    PROVE  Stood(k, n)
<1>1. /\ Len(log) \in Nat /\ \A i \in 1..Len(log) : log'[i] = log[i] /\ (i \in File' <=> i \in File)
      /\ File \subseteq 1..Len(log) /\ File' \subseteq 1..(Len(log) + 1)
  BY Appended
<1>2. PICK i \in File' : /\ i < k /\ Marks(File, i, n)'
                         /\ \A m \in File' : i < m /\ m < k /\ Is(m, "node", n)' => log'[m].put.sup = "yes"
  BY DEF Stood
<1>3. i \in 1..Len(log) /\ i \in File BY <1>1, <1>2
<1>4. Marks(File, i, n) BY <1>2, <1>3, MarksKeep
<1>5. \A m \in File : m \in File' /\ log'[m] = log[m] BY <1>1
<1> QED BY <1>2, <1>3, <1>4, <1>5 DEF Stood, Is

LEMMA StoodIsFlagged ==
    ASSUME Inv, NEW n PROVE Stood(Len(log) + 1, n) => Flagged(File, n)
<1>1. Len(log) \in Nat /\ File \subseteq 1..Len(log) BY FileLines DEF Inv, TypeOK
<1> QED BY <1>1 DEF Stood, Flagged

\* An append takes a flag only as a plain upsert of the node, and sets one only as
\* a line about it.
LEMMA FlagKeeps ==
    ASSUME Inv, NEW p \in Store, NEW e \in {"newline", "torn"}, Puts(p, e), NEW n
    PROVE  /\ Flagged(File, n) => Flagged(File, n)' \/ (next[p].op = "node" /\ next[p].a = n /\ next[p].sup = "no")
           /\ Flagged(File, n)' => Flagged(File, n) \/ next[p].a = n
<1>1. /\ Len(log) \in Nat /\ \A i \in 1..Len(log) : log'[i] = log[i] /\ (i \in File' <=> i \in File)
      /\ File \subseteq 1..Len(log) /\ File' \subseteq 1..(Len(log) + 1)
      /\ log'[Len(log) + 1].put = next[p]
  BY Appended
<1>2. next[p].sup \in {"no", "yes"} BY DEF Inv, TypeOK, Op
<1>3. ASSUME Flagged(File, n), ~(next[p].op = "node" /\ next[p].a = n /\ next[p].sup = "no")
      PROVE  Flagged(File, n)'
  <2>1. PICK i \in File : Marks(File, i, n) /\ \A k \in File : k > i /\ Is(k, "node", n) => log[k].put.sup = "yes"
    BY <1>3 DEF Flagged
  <2>2. i \in File' /\ Marks(File, i, n)' BY <1>1, <2>1, MarksKeep
  <2>3. ASSUME NEW k \in File', k > i, Is(k, "node", n)' PROVE log'[k].put.sup = "yes"
    <3>1. CASE k \in 1..Len(log) BY <1>1, <2>1, <2>3, <3>1 DEF Is
    <3>2. CASE k = Len(log) + 1 BY <1>1, <1>2, <1>3, <2>3, <3>2 DEF Is
    <3> QED BY <1>1, <3>1, <3>2
  <2> QED BY <2>2, <2>3 DEF Flagged
<1>4. ASSUME Flagged(File, n)', next[p].a # n PROVE Flagged(File, n)
  <2>1. PICK i \in File' : Marks(File, i, n)' /\ \A k \in File' : k > i /\ Is(k, "node", n)' => log'[k].put.sup = "yes"
    BY <1>4 DEF Flagged
  <2>2. log'[i].put.a = n BY <2>1 DEF Marks, Is
  <2>3. i \in 1..Len(log) BY <1>1, <1>4, <2>2
  <2>4. i \in File /\ Marks(File, i, n) BY <1>1, <2>1, <2>3, MarksKeep
  <2>5. \A k \in File : k > i /\ Is(k, "node", n) => log[k].put.sup = "yes"
    <3>1. \A k \in File : k \in File' /\ log'[k] = log[k] BY <1>1
    <3> QED BY <2>1, <3>1 DEF Is
  <2> QED BY <2>4, <2>5 DEF Flagged
<1> QED BY <1>3, <1>4

-----------------------------------------------------------------------------
(* The steps of a call. *)

LEMMA TailFits ==
    ASSUME NEW s \in Seq(Step), s # <<>>, StepsFit(s) PROVE StepsFit(Tail(s))
<1>1. Len(s) \in Nat \ {0} /\ Len(Tail(s)) = Len(s) - 1 OBVIOUS
<1>2. \A k \in 1..Len(Tail(s)) : Tail(s)[k] = s[k + 1] /\ k + 1 \in 1..Len(s) BY <1>1
<1>3. ASSUME NEW k \in 1..Len(Tail(s)), Tail(s)[k].op = "supersedes"
      PROVE  k < Len(Tail(s)) /\ Tail(s)[k + 1].op = "supersede" /\ Tail(s)[k + 1].a = Tail(s)[k].b
  <2>1. s[k + 1].op = "supersedes" /\ k + 1 \in 1..Len(s) BY <1>2, <1>3
  <2>2. k + 1 < Len(s) /\ s[k + 1 + 1].op = "supersede" /\ s[k + 1 + 1].a = s[k + 1].b BY <2>1 DEF StepsFit
  <2>3. k + 1 \in 1..Len(Tail(s)) BY <1>1, <2>2
  <2> QED BY <1>1, <1>2, <2>2, <2>3
<1>4. ASSUME NEW k \in 1..Len(Tail(s))
      PROVE  /\ Tail(s)[k].op \in Edges => {Tail(s)[k].a, Tail(s)[k].b} \subseteq Tail(s)[k].needs
             /\ Tail(s)[k].op = "edge" /\ Tail(s)[k].a = "file" => Tail(s)[k].once = "yes"
  BY <1>2 DEF StepsFit
<1> QED BY <1>3, <1>4 DEF StepsFit

LEMMA NoSteps == StepsFit(<<>>)
BY DEF StepsFit

\* What a step that follows "supersedes" is.
LEMMA FlagFollows ==
    ASSUME NEW s \in Seq(Step), s # <<>>, StepsFit(s), Head(s).op = "supersedes"
    PROVE  Tail(s) # <<>> /\ Head(Tail(s)).op = "supersede" /\ Head(Tail(s)).a = Head(s).b
<1>1. Head(s) = s[1] /\ 1 \in 1..Len(s) OBVIOUS
<1>2. 1 < Len(s) /\ s[1 + 1].op = "supersede" /\ s[1 + 1].a = s[1].b BY <1>1 DEF StepsFit
<1>3. Tail(s) # <<>> /\ Head(Tail(s)) = s[1 + 1]
  <2>1. Len(s) \in Nat /\ Len(Tail(s)) = Len(s) - 1 OBVIOUS
  <2>2. 1 \in 1..Len(Tail(s)) BY <1>2, <2>1
  <2>3. Tail(s)[1] = s[1 + 1] BY <1>2, <2>1
  <2>4. Tail(s) \in Seq(Step) /\ Tail(s) # <<>> BY <2>1, <2>2
  <2> QED BY <2>3, <2>4
<1> QED BY <1>1, <1>2, <1>3

\* The steps of each call.
LEMMA CallFits ==
    ASSUME NEW a \in Fact, NEW b \in Fact, NEW n \in Node
    PROVE  /\ StepsFit(<<PutNode(a, {}), PutNode("file", {}), Link("file", a)>>)
           /\ StepsFit(<<PutEdge("edge", a, b)>>)
           /\ StepsFit(<<PutNode(b, {a}), PutEdge("supersedes", b, a), Flag(a, b)>>)
           /\ StepsFit(<<PutNode(n, {n})>>)
<1> USE GraphConstants
<1>1. StepsFit(<<PutNode(a, {}), PutNode("file", {}), Link("file", a)>>)
  BY DEF StepsFit, PutNode, Link, Edges
<1>2. StepsFit(<<PutEdge("edge", a, b)>>)
  BY DEF StepsFit, PutEdge, Edges
<1>3. StepsFit(<<PutNode(b, {a}), PutEdge("supersedes", b, a), Flag(a, b)>>)
  BY DEF StepsFit, PutNode, PutEdge, Flag, Edges
<1>4. StepsFit(<<PutNode(n, {n})>>)
  BY DEF StepsFit, PutNode, Edges
<1> QED BY <1>1, <1>2, <1>3, <1>4

-----------------------------------------------------------------------------
(* Each step. *)

LEMMA InitWhole == Init => Whole
<1> SUFFICES ASSUME Init PROVE Whole OBVIOUS
<1>1. Inv BY InitInv
<1>2. \A p \in Store : pc[p] = "off" /\ todo[p] = <<>> BY DEF Init
<1>3. \A p \in Store : Fits(p) /\ Current(p) /\ Pending(p)
  BY <1>2, NoSteps DEF Fits, Current, Knows, Pending
<1>4. /\ Len(log) \in {0, 1} /\ torn = 0
      /\ \A k \in 1..Len(log) : k = 1 /\ log[k].put.op = "node" /\ log[k].end = "newline"
  <2>0. torn = 0 BY DEF Init
  <2>1. CASE log = <<>> BY <2>0, <2>1
  <2>2. ASSUME NEW c \in Fact,
               log = <<[put |-> [op |-> "node", a |-> c, b |-> c, sup |-> "no"], end |-> "newline"]>>
        PROVE  /\ Len(log) = 1 /\ log[1].put.op = "node" /\ log[1].end = "newline"
               /\ \A k \in 1..Len(log) : k = 1
    BY <2>2
  <2>3. CASE \E c \in Fact :
               log = <<[put |-> [op |-> "node", a |-> c, b |-> c, sup |-> "no"], end |-> "newline"]>>
    <3>1. Len(log) = 1 /\ log[1].put.op = "node" /\ log[1].end = "newline" /\ \A k \in 1..Len(log) : k = 1
      BY <2>2, <2>3
    <3> QED BY <2>0, <3>1
  <2> QED BY <2>1, <2>3 DEF Init
<1>5. File \subseteq 1..Len(log) BY <1>1, FileLines DEF Inv, TypeOK
<1>6. \A k \in 1..Len(log) : \A n : ~Stood(k, n) BY <1>4, <1>5 DEF Stood
<1>7. Lines BY <1>4, <1>6 DEF Lines, Edges
<1>8. Promised /\ OneSpine BY <1>4, <1>5 DEF Promised, OneSpine, Is
<1> QED BY <1>1, <1>3, <1>7, <1>8 DEF Whole

\* A step that leaves the log and what raced: only the stores can be disturbed.
LEMMA QuietWhole ==
    ASSUME Whole, Inv', UNCHANGED <<log, raced, torn>>, crashes' = crashes \/ crashes' = crashes + 1,
           NEW p \in Store,
           \A q \in Store \ {p} : pc'[q] = pc[q] /\ todo'[q] = todo[q] /\ next'[q] = next[q] /\ seen'[q] = seen[q],
           Fits(p)', Current(p)', Pending(p)',
           crashes' = crashes => \A n : Owes(p, n) => Owes(p, n)'
    PROVE  Whole'
<1>1. /\ File' = File /\ \A S, n : NodesOf(S)' = NodesOf(S)
      /\ \A n : Flagged(File, n)' = Flagged(File, n)
      /\ \A n : HasNode(n)' = HasNode(n) /\ RacedAbout(n)' = RacedAbout(n)
      /\ \A k, n : Stood(k, n)' = Stood(k, n)
  BY DEF File, Replay, Parsed, NodesOf, Is, Flagged, Marks, HasNode, RacedAbout, Stood
<1>2. ASSUME NEW q \in Store PROVE Fits(q)' /\ Current(q)' /\ Pending(q)'
  <2>1. CASE q = p BY <2>1
  <2>2. CASE q # p
    <3>1. Fits(q) /\ Current(q) /\ Pending(q) BY DEF Whole
    <3>2. pc'[q] = pc[q] /\ todo'[q] = todo[q] /\ next'[q] = next[q] /\ seen'[q] = seen[q] BY <2>2
    <3> QED BY <1>1, <3>1, <3>2 DEF Fits, Current, Knows, Pending, InCall
  <2> QED BY <2>1, <2>2
<1>3. Lines' BY <1>1 DEF Whole, Lines
<1>4. OneSpine' BY <1>1 DEF Whole, OneSpine, Is
<1>5. Promised'
  <2> SUFFICES ASSUME raced = {}, crashes' = 0, torn = 0, NEW k \in 1..Len(log), log[k].put.op = "supersedes",
                      ~Flagged(File, log[k].put.b)
               PROVE  \E q \in Store : Owes(q, log[k].put.b)'
    BY <1>1 DEF Promised
  <2>1. crashes = 0 /\ crashes' = crashes BY DEF Whole, Inv, TypeOK
  <2>2. PICK q \in Store : Owes(q, log[k].put.b) BY <2>1 DEF Whole, Promised
  <2>3. CASE q = p BY <2>1, <2>2, <2>3
  <2>4. CASE q # p
    <3>1. pc'[q] = pc[q] /\ todo'[q] = todo[q] /\ next'[q] = next[q] BY <2>4
    <3> QED BY <2>2, <3>1 DEF Owes
  <2> QED BY <2>3, <2>4
<1> QED BY <1>2, <1>3, <1>4, <1>5 DEF Whole

\* A line that is right for the log leaves the log right, whoever knows of it.
LEMMA PutsWhole ==
    ASSUME Whole, Inv', NEW p \in Store, NEW e \in {"newline", "torn"}, Puts(p, e), pc[p] = "write",
           crashes' = crashes, torn' = IF e = "torn" THEN torn + 1 ELSE torn,
           \A q \in Store \ {p} : pc'[q] = pc[q] /\ todo'[q] = todo[q] /\ next'[q] = next[q] /\ seen'[q] = seen[q],
           e = "newline" => pc'[p] = "stat" /\ todo'[p] = todo[p],
           pc'[p] # "write", Fits(p)', Current(p)'
    PROVE  Whole'
<1>0. PICK L : L = Len(log) OBVIOUS
<1>1. /\ log \in Seq(Chunk) /\ log' \in Seq(Chunk) /\ L \in Nat /\ Len(log') = L + 1
      /\ \A i \in 1..L : log'[i] = log[i]
      /\ log'[L + 1].put = next[p] /\ log'[L + 1].end = e
      /\ File \subseteq 1..L /\ File' \subseteq 1..(L + 1)
      /\ \A i \in 1..L : i \in File' <=> i \in File
      /\ raced \subseteq raced' /\ raced \subseteq 1..L
      /\ \A q \in Store \ {p} : InCall(q) => L + 1 \in raced'
  BY <1>0, Appended DEF Whole
<1>2. Inv /\ Pending(p) /\ Fits(p) BY DEF Whole
<1>3. \A n : HasNode(n) => HasNode(n)' 
  <2>1. 1..L \subseteq 1..(L + 1) BY <1>1
  <2> QED BY <1>0, <1>1, <2>1 DEF HasNode, Is
<1>4. \A n : RacedAbout(n) => RacedAbout(n)' BY <1>1 DEF RacedAbout
<1>5. ASSUME NEW q \in Store \ {p} PROVE Fits(q)' /\ Current(q)' /\ Pending(q)'
  <2>1. /\ Fits(q) /\ Current(q) /\ Pending(q)
        /\ pc'[q] = pc[q] /\ todo'[q] = todo[q] /\ next'[q] = next[q] /\ seen'[q] = seen[q]
    BY DEF Whole
  <2>2. Fits(q)' BY <2>1 DEF Fits
  <2>3. pc[q] \in {"write", "stat"} => InCall(q) BY <1>2 DEF Inv, Blind
  <2>4. Current(q)'
    <3> SUFFICES ASSUME Knows(q)' PROVE File' \subseteq seen[q] \cup raced' BY <2>1 DEF Current
    <3>1. Knows(q) /\ InCall(q) BY <2>1, <2>3 DEF Knows, InCall
    <3>2. File \subseteq seen[q] \cup raced /\ L + 1 \in raced' BY <1>1, <2>1, <3>1 DEF Current
    <3> QED BY <1>1, <3>2
  <2>5. Pending(q)'
    <3> SUFFICES ASSUME pc[q] = "write", NEW c, c = next[q]
                 PROVE  /\ c.op \in Edges => HasNode(c.a)' /\ HasNode(c.b)'
                        /\ c.op = "edge" /\ c.a = "file" => \A i \in File' : log'[i].put = c => i \in raced'
                        /\ c.op = "node" /\ c.sup = "no" /\ Flagged(File, c.a)' => RacedAbout(c.a)'
      BY <2>1 DEF Pending
    <3>1. L + 1 \in raced' BY <1>1, <2>3
    <3>2. ASSUME c.op = "edge", c.a = "file", NEW i \in File', log'[i].put = c
          PROVE  i \in raced'
      <4>1. CASE i = L + 1 BY <3>1, <4>1
      <4>2. CASE i \in 1..L BY <1>1, <2>1, <3>2, <4>2 DEF Pending
      <4> QED BY <1>1, <4>1, <4>2
    <3>3. ASSUME c.op = "node", c.sup = "no", Flagged(File, c.a)'
          PROVE  RacedAbout(c.a)'
      <4>1. CASE next[p].a = c.a BY <1>1, <3>1, <4>1 DEF RacedAbout
      <4>2. CASE next[p].a # c.a
        <5>1. Flagged(File, c.a) BY <1>2, <3>3, <4>2, FlagKeeps
        <5> QED BY <1>4, <2>1, <3>3, <5>1 DEF Pending
      <4> QED BY <4>1, <4>2
    <3>4. c.op \in Edges => HasNode(c.a) /\ HasNode(c.b) BY <2>1 DEF Pending
    <3> QED BY <1>3, <3>2, <3>3, <3>4
  <2> QED BY <2>2, <2>4, <2>5
<1>6. Lines'
  <2> SUFFICES ASSUME NEW k \in 1..(L + 1), NEW c, c = log'[k].put
               PROVE  /\ c.op \in Edges => HasNode(c.a)' /\ HasNode(c.b)'
                      /\ c.op = "node" /\ c.sup = "no" /\ Stood(k, c.a)' => RacedAbout(c.a)'
                      /\ torn' = 0 => log'[k].end = "newline"
    BY <1>1 DEF Lines
  <2>1. torn \in Nat BY <1>2 DEF Inv, TypeOK
  <2>2. CASE k \in 1..L
    <3>1. log'[k] = log[k] BY <1>1, <2>2
    <3>2. Stood(k, c.a)' => Stood(k, c.a) BY <1>0, <1>2, StoodKeeps
    <3>3. torn' = 0 => torn = 0 BY <2>1
    <3>4. /\ c.op \in Edges => HasNode(c.a) /\ HasNode(c.b)
          /\ c.op = "node" /\ c.sup = "no" /\ Stood(k, c.a) => RacedAbout(c.a)
          /\ torn = 0 => log[k].end = "newline"
      BY <1>0, <2>2, <3>1 DEF Whole, Lines
    <3> QED BY <1>3, <1>4, <3>1, <3>2, <3>3, <3>4
  <2>3. CASE k = L + 1
    <3>1. Stood(k, c.a)' => Flagged(File, c.a)
      BY <1>0, <1>2, <2>3, StoodKeeps, StoodIsFlagged
    <3>2. torn' = 0 => e = "newline" BY <2>1
    <3>3. c = next[p] BY <1>1, <2>3
    <3>4. /\ c.op \in Edges => HasNode(c.a) /\ HasNode(c.b)
          /\ c.op = "node" /\ c.sup = "no" /\ Flagged(File, c.a) => RacedAbout(c.a)
      BY <1>2, <3>3 DEF Pending
    <3> QED BY <1>1, <1>3, <1>4, <2>3, <3>1, <3>2, <3>4
  <2> QED BY <1>1, <2>2, <2>3
<1>7. OneSpine'
  <2> SUFFICES ASSUME NEW i \in File', NEW j \in File', i < j, log'[i].put = log'[j].put,
                      log'[j].put.op = "edge", log'[j].put.a = "file"
               PROVE  i \in raced' \/ j \in raced'
    BY DEF OneSpine, Is
  <2>1. i \in 1..L /\ i \in File BY <1>1
  <2>2. CASE j \in 1..L BY <1>1, <2>1, <2>2 DEF Whole, OneSpine, Is
  <2>3. CASE j = L + 1 BY <1>1, <1>2, <2>1, <2>3 DEF Pending
  <2> QED BY <1>1, <2>2, <2>3
<1>8. Promised'
  <2> SUFFICES ASSUME raced' = {}, crashes' = 0, torn' = 0,
                      NEW k \in 1..(L + 1), log'[k].put.op = "supersedes", NEW n, n = log'[k].put.b
               PROVE  Flagged(File, n)' \/ \E q \in Store : Owes(q, n)'
    BY <1>1 DEF Promised
  <2>1. raced = {} /\ crashes = 0 /\ torn = 0 /\ e = "newline"
    BY <1>1, <1>2 DEF Inv, TypeOK
  <2>2. CASE k = L + 1
    <3>1. pc'[p] = "stat" /\ todo'[p] = todo[p] BY <2>1
    <3>2. Head(todo[p]).op = "supersedes" /\ Head(todo[p]).b = n
      BY <1>1, <1>2, <2>2 DEF Fits
    <3> QED BY <3>1, <3>2 DEF Owes
  <2>3. CASE k \in 1..L
    <3>1. log'[k] = log[k] BY <1>1, <2>3
    <3>2. CASE Flagged(File, n)
      <4>1. ASSUME next[p].op = "node", next[p].a = n, next[p].sup = "no" PROVE FALSE
        <5>1. RacedAbout(n) BY <1>2, <3>2, <4>1 DEF Pending
        <5> QED BY <2>1, <5>1 DEF RacedAbout
      <4> QED BY <1>2, <3>2, <4>1, FlagKeeps
    <3>3. CASE \E q \in Store : Owes(q, n)
      <4>1. PICK q \in Store : Owes(q, n) BY <3>3
      <4>2. CASE q # p
        <5>1. pc'[q] = pc[q] /\ todo'[q] = todo[q] /\ next'[q] = next[q] BY <4>2
        <5>2. Owes(q, n)' BY <4>1, <5>1 DEF Owes
        <5> QED BY <5>2
      <4>3. CASE q = p
        <5>1. next[p].op = "supersede" /\ next[p].a = n BY <4>1, <4>3 DEF Owes
        <5>2. HasNode(n) BY <1>0, <2>3, <3>1 DEF Whole, Lines, Edges
        <5>3. PICK j \in 1..L : Is(j, "node", n) BY <1>0, <5>2 DEF HasNode
        <5>4. File' = 1..(L + 1)
          <6>1. \A i \in 1..Len(log') : log'[i].end = "newline" BY <1>6, <2>1 DEF Lines
          <6>2. \A i \in 1..(L + 1) : log'[i].end = "newline" BY <1>1, <6>1
          <6>3. \A i \in 2..(L + 1) : log'[i - 1].end = "newline" BY <1>1, <6>2
          <6> QED BY <1>1, <6>2, <6>3 DEF File, Replay, Parsed
        <5>5. j \in File' /\ j < L + 1 /\ Is(j, "node", n)' BY <1>1, <5>3, <5>4 DEF Is
        <5>6. L + 1 \in File' /\ Is(L + 1, "supersede", n)' BY <1>1, <5>1, <5>4 DEF Is
        <5>7. Marks(File, L + 1, n)' BY <5>5, <5>6 DEF Marks
        <5>8. Flagged(File, n)' BY <1>1, <5>6, <5>7 DEF Flagged
        <5> QED BY <5>8
      <4> QED BY <4>2, <4>3
    <3>4. Flagged(File, n) \/ \E q \in Store : Owes(q, n)
      BY <1>0, <2>1, <2>3, <3>1 DEF Whole, Promised
    <3> QED BY <3>2, <3>3, <3>4
  <2> QED BY <1>1, <2>2, <2>3
<1>9. Pending(p)' BY DEF Pending
<1> QED BY <1>5, <1>6, <1>7, <1>8, <1>9 DEF Whole

LEMMA StartWhole == ASSUME Whole, NEW p \in Store, NEW w \in BOOLEAN, Start(p, w) PROVE Whole'
<1>1. Inv /\ Inv' /\ Fits(p) BY StartInv DEF Whole
<1>2. /\ pc[p] = "off" /\ pc' = [pc EXCEPT ![p] = "idle"]
      /\ UNCHANGED <<log, todo, next, raced, crashes, torn>>
      /\ \E s : seen' = [seen EXCEPT ![p] = s]
  BY DEF Start, counts
<1>3. /\ pc \in [Store -> {"off", "idle", "write", "stat"}]
      /\ seen \in [Store -> SUBSET (1..Len(log))]
  BY <1>1 DEF Inv, TypeOK
<1>4. pc'[p] = "idle" /\ todo'[p] = <<>> BY <1>1, <1>2, <1>3 DEF Fits
<1>5. Fits(p)' /\ Current(p)' /\ Pending(p)' BY <1>4, NoSteps DEF Fits, Current, Knows, InCall, Pending
<1>6. \A n : ~Owes(p, n) BY <1>2 DEF Owes
<1> QED BY <1>1, <1>2, <1>3, <1>5, <1>6, QuietWhole

LEMMA BeginWhole ==
    ASSUME Whole, Inv', NEW p \in Store, NEW steps, Free(p), Begin(p, steps),
           StepsFit(steps), Head(steps).once = "no"
    PROVE  Whole'
<1>1. /\ todo \in [Store -> Seq(Step)] /\ pc[p] = "idle"
      /\ todo' = [todo EXCEPT ![p] = steps]
      /\ UNCHANGED <<log, pc, next, seen, raced, crashes, torn>>
  BY DEF Whole, Inv, TypeOK, Begin, Free, disk, memory
<1>2. pc'[p] = "idle" /\ todo'[p] = steps BY <1>1
<1>3. Fits(p)' /\ Current(p)' /\ Pending(p)' BY <1>2 DEF Fits, Current, Knows, Pending
<1>4. \A n : ~Owes(p, n) BY <1>1 DEF Owes
<1> QED BY <1>1, <1>3, <1>4, QuietWhole

LEMMA CallWhole ==
    ASSUME Whole, NEW p \in Store, NEW a \in Fact, NEW b \in Fact, NEW n \in Node,
           AddFact(p, a) \/ AddEdge(p, a, b) \/ Supersede(p, a, b) \/ Pin(p, n)
    PROVE  Whole'
<1>1. Inv' BY CallInv DEF Whole
<1>2. CASE AddFact(p, a)
  <2> DEFINE steps == <<PutNode(a, {}), PutNode("file", {}), Link("file", a)>>
  <2>1. StepsFit(steps) BY CallFits
  <2>2. Head(steps).once = "no" BY DEF PutNode
  <2> QED BY <1>1, <1>2, <2>1, <2>2, BeginWhole DEF AddFact
<1>3. CASE AddEdge(p, a, b)
  <2> DEFINE steps == <<PutEdge("edge", a, b)>>
  <2>1. StepsFit(steps) BY CallFits
  <2>2. Head(steps).once = "no" BY DEF PutEdge
  <2> QED BY <1>1, <1>3, <2>1, <2>2, BeginWhole DEF AddEdge
<1>4. CASE Supersede(p, a, b)
  <2> DEFINE steps == <<PutNode(b, {a}), PutEdge("supersedes", b, a), Flag(a, b)>>
  <2>1. StepsFit(steps) BY CallFits
  <2>2. Head(steps).once = "no" BY DEF PutNode
  <2> QED BY <1>1, <1>4, <2>1, <2>2, BeginWhole DEF Supersede
<1>5. CASE Pin(p, n)
  <2> DEFINE steps == <<PutNode(n, {n})>>
  <2>1. StepsFit(steps) BY CallFits
  <2>2. Head(steps).once = "no" BY DEF PutNode
  <2> QED BY <1>1, <1>5, <2>1, <2>2, BeginWhole DEF Pin
<1> QED BY <1>2, <1>3, <1>4, <1>5

LEMMA SkipLinkWhole == ASSUME Whole, NEW p \in Store, SkipLink(p) PROVE Whole'
<1>1. Inv /\ Inv' /\ Fits(p) /\ Current(p) BY SkipLinkInv DEF Whole
<1>2. /\ pc[p] = "idle" /\ todo[p] # <<>> /\ Head(todo[p]).once = "yes"
      /\ todo' = [todo EXCEPT ![p] = Tail(@)]
      /\ UNCHANGED <<log, snap, pc, next, seen, raced, crashes, torn>>
  BY DEF SkipLink, InCall, disk, memory, counts
<1>3. todo \in [Store -> Seq(Step)] BY <1>1 DEF Inv, TypeOK
<1>4. pc'[p] = "idle" /\ todo'[p] = Tail(todo[p]) BY <1>2, <1>3
<1>5. StepsFit(Tail(todo[p])) BY <1>1, <1>2, <1>3, TailFits DEF Fits
<1>6. File \subseteq seen[p] \cup raced BY <1>1, <1>2 DEF Current, Knows, InCall
<1>7. File' = File BY <1>2 DEF File, Replay, Parsed
<1>8. Fits(p)' /\ Current(p)' /\ Pending(p)'
  BY <1>2, <1>4, <1>5, <1>6, <1>7 DEF Fits, Current, Pending
<1>9. \A n : ~Owes(p, n) BY <1>2 DEF Owes
<1> QED BY <1>1, <1>2, <1>3, <1>8, <1>9, QuietWhole

\* A store that has read all but what raced sees the flag of a node nothing raced
\* about: a plain upsert that it applied, but that no longer counts in the file,
\* was right when it was written.
LEMMA SeesFlag ==
    ASSUME Inv, Lines, NEW n, NEW S \in SUBSET (1..Len(log)), File \subseteq S \cup raced, Flagged(File, n),
           ~RacedAbout(n)
    PROVE  Flagged(S, n)
<1>1. Len(log) \in Nat /\ File \subseteq 1..Len(log) /\ log \in Seq(Chunk) BY FileLines DEF Inv, TypeOK
<1>2. PICK i \in File : Marks(File, i, n) /\ \A k \in File : k > i /\ Is(k, "node", n) => log[k].put.sup = "yes"
  BY DEF Flagged
<1>3. \A k \in File : log[k].put.a = n => k \in S BY DEF RacedAbout
<1>4. log[i].put.a = n BY <1>2 DEF Marks, Is
<1>5. Marks(S, i, n) BY <1>2, <1>3 DEF Marks, Is
<1>6. ASSUME NEW k \in S, k > i, Is(k, "node", n) PROVE log[k].put.sup = "yes"
  <2> SUFFICES ASSUME log[k].put.sup = "no" PROVE FALSE
    <3>1. log[k] \in Chunk BY <1>1
    <3> QED BY <3>1 DEF Chunk, Op
  <2>1. Stood(k, n) BY <1>1, <1>2, <1>6 DEF Stood
  <2> QED BY <1>6, <2>1 DEF Lines, Is
<1> QED BY <1>3, <1>4, <1>5, <1>6 DEF Flagged

LEMMA LookWhole == ASSUME Whole, NEW p \in Store, NEW w \in BOOLEAN, Look(p, w) PROVE Whole'
<1>1. Inv /\ Inv' /\ Fits(p) /\ Current(p) /\ Lines BY LookInv DEF Whole
<1>2. PICK st : st = Head(todo[p]) OBVIOUS
<1>3. /\ pc[p] = "idle" /\ todo[p] # <<>>
      /\ ~(st.once = "yes" /\ HasEdge(seen[p], st.a, st.b))
      /\ UNCHANGED <<log, made, raced, calls, crashes, torn>>
  BY <1>2 DEF Look, InCall, counts
<1>4. /\ log \in Seq(Chunk) /\ todo \in [Store -> Seq(Step)] /\ next \in [Store -> Op]
      /\ pc \in [Store -> {"off", "idle", "write", "stat"}]
      /\ off \in [Store -> 0..Len(log)] /\ seen \in [Store -> SUBSET (1..Len(log))]
  BY <1>1 DEF Inv, TypeOK
<1>5. PICK u \in Upto(off[p]), S \in SUBSET (1..Len(log)) :
        /\ S = seen[p] \cup Parsed(off[p], u)
        /\ seen' = [seen EXCEPT ![p] = S]
        /\ IF Has(st, S)
           THEN next' = [next EXCEPT ![p] = Line(st, S)] /\ pc' = [pc EXCEPT ![p] = "write"] /\ UNCHANGED todo
           ELSE todo' = [todo EXCEPT ![p] = <<>>] /\ UNCHANGED <<next, pc>>
  <2>1. PICK u \in Upto(off[p]) :
          LET S == seen[p] \cup Parsed(off[p], u) IN
          /\ seen' = [seen EXCEPT ![p] = S]
          /\ IF Has(st, S)
             THEN next' = [next EXCEPT ![p] = Line(st, S)] /\ pc' = [pc EXCEPT ![p] = "write"] /\ UNCHANGED todo
             ELSE todo' = [todo EXCEPT ![p] = <<>>] /\ UNCHANGED <<next, pc>>
    BY <1>2 DEF Look
  <2>2. seen[p] \cup Parsed(off[p], u) \in SUBSET (1..Len(log)) BY <1>4, TailCompletes
  <2> QED BY <2>1, <2>2
<1>6. File \subseteq S \cup raced
  <2>1. Replay(off[p]) \subseteq seen[p] \cup raced BY <1>1, <1>3 DEF Inv, MissesOnlyRaced
  <2>2. /\ u \in off[p]..Len(log) /\ off[p] \in 0..Len(log)
        /\ Replay(u) \subseteq Replay(off[p]) \cup Parsed(off[p], u)
        /\ \A i \in (u + 1)..Len(log) : log[i].end = "torn"
    BY <1>4, TailCompletes
  <2>3. \A i \in File : i \in 1..Len(log) /\ (i > u => log[i].end = "torn") BY <1>4, <2>2, FileLines
  <2>4. File \subseteq Replay(u) BY <2>2, <2>3 DEF File, Replay, Parsed
  <2> QED BY <1>5, <2>1, <2>2, <2>4
<1>7. File' = File /\ \A n : Flagged(File, n)' = Flagged(File, n)
  BY <1>3 DEF File, Replay, Parsed, Flagged, Marks, Is
<1>8. \A n : ~Owes(p, n) BY <1>3 DEF Owes
<1>9. CASE ~Has(st, S)
  <2>1. /\ todo' = [todo EXCEPT ![p] = <<>>] /\ next' = next /\ pc' = pc
        /\ seen' = [seen EXCEPT ![p] = S]
    BY <1>5, <1>9
  <2>2. Fits(p)' /\ Current(p)' /\ Pending(p)'
    BY <1>3, <1>4, <2>1, NoSteps DEF Fits, Current, Knows, InCall, Pending
  <2> QED BY <1>1, <1>3, <1>4, <1>8, <2>1, <2>2, QuietWhole
<1>10. CASE Has(st, S)
  <2> DEFINE ln == Line(st, S)
  <2>1. /\ next' = [next EXCEPT ![p] = ln] /\ pc' = [pc EXCEPT ![p] = "write"] /\ todo' = todo
        /\ seen' = [seen EXCEPT ![p] = S]
    BY <1>5, <1>10
  <2>2. /\ ln.op = st.op /\ ln.a = st.a /\ ln.b = st.b
        /\ ln.op = "node" /\ ln.sup = "no" => ~Flagged(S, ln.a)
    BY DEF Line
  <2> HIDE DEF ln
  <2>3. next'[p] = ln /\ pc'[p] = "write" /\ todo'[p] = todo[p] /\ seen'[p] = S BY <1>4, <2>1
  <2>4. Fits(p)' BY <1>1, <1>2, <2>2, <2>3 DEF Fits
  <2>5. Current(p)' BY <1>3, <1>6, <1>7, <2>3 DEF Current
  <2>6. StepsFit(todo[p]) /\ st = todo[p][1] /\ 1 \in 1..Len(todo[p]) BY <1>1, <1>2, <1>3, <1>4 DEF Fits
  <2>7. ln.op \in Edges => HasNode(ln.a) /\ HasNode(ln.b)
    <3>1. ln.op \in Edges => {ln.a, ln.b} \subseteq NodesOf(S) BY <1>10, <2>2, <2>6 DEF StepsFit, Has
    <3> QED BY <1>5, <3>1 DEF NodesOf, HasNode
  <2>8. ASSUME ln.op = "edge", ln.a = "file", NEW i \in File, log[i].put = ln PROVE i \in raced
    <3>1. st.once = "yes" BY <2>2, <2>6, <2>8 DEF StepsFit
    <3>2. i \in seen[p] \/ i \in raced BY <1>1, <1>2, <1>3, <3>1 DEF Current, Knows, InCall
    <3>3. i \notin seen[p] BY <1>3, <2>2, <2>8, <3>1 DEF HasEdge, Is
    <3> QED BY <3>2, <3>3
  <2>9. ASSUME ln.op = "node", ln.sup = "no", Flagged(File, ln.a) PROVE RacedAbout(ln.a)
    BY <1>1, <1>6, <2>2, <2>9, SeesFlag
  <2>10. Pending(p)'
    <3>1. \A n : HasNode(n)' = HasNode(n) /\ RacedAbout(n)' = RacedAbout(n) BY <1>3 DEF HasNode, RacedAbout, Is
    <3> QED BY <1>3, <1>7, <2>3, <2>7, <2>8, <2>9, <3>1 DEF Pending
  <2> QED BY <1>1, <1>3, <1>4, <1>8, <2>1, <2>4, <2>5, <2>10, QuietWhole
<1> QED BY <1>9, <1>10

LEMMA WriteWhole == ASSUME Whole, NEW p \in Store, Write(p) PROVE Whole'
<1>1. Inv /\ Inv' /\ Fits(p) /\ Current(p) BY WriteInv DEF Whole
<1>2. /\ pc[p] = "write" /\ Puts(p, "newline")
      /\ seen' = [seen EXCEPT ![p] = @ \cup {Len(log) + 1}]
      /\ pc' = [pc EXCEPT ![p] = "stat"] /\ next' = [next EXCEPT ![p] = NoOp]
      /\ UNCHANGED <<todo, crashes, torn>>
  BY DEF Write, counts
<1>3. /\ next \in [Store -> Op] /\ pc \in [Store -> {"off", "idle", "write", "stat"}]
      /\ seen \in [Store -> SUBSET (1..Len(log))]
  BY <1>1 DEF Inv, TypeOK
<1>4. pc'[p] = "stat" /\ seen'[p] = seen[p] \cup {Len(log) + 1} /\ todo' = todo BY <1>2, <1>3
<1>5. Fits(p)' BY <1>1, <1>4 DEF Fits
<1>6. /\ Len(log) \in Nat /\ File' \subseteq 1..(Len(log) + 1) /\ raced \subseteq raced'
      /\ \A i \in 1..Len(log) : i \in File' <=> i \in File
  BY <1>1, <1>2, Appended
<1>7. File \subseteq seen[p] \cup raced BY <1>1, <1>2 DEF Current, Knows
<1>8. Current(p)' BY <1>4, <1>6, <1>7 DEF Current
<1> QED BY <1>1, <1>2, <1>3, <1>4, <1>5, <1>8, PutsWhole

LEMMA StatWhole == ASSUME Whole, NEW p \in Store, Stat(p) PROVE Whole'
<1>1. Inv /\ Inv' /\ Fits(p) /\ Current(p) BY StatInv DEF Whole
<1>2. PICK more : more = Tail(todo[p]) OBVIOUS
<1>3. /\ pc[p] = "stat"
      /\ todo' = [todo EXCEPT ![p] = more]
      /\ IF more # <<>> /\ Head(more).op = "supersede"
         THEN next' = [next EXCEPT ![p] = Line(Head(more), seen[p])] /\ pc' = [pc EXCEPT ![p] = "write"]
         ELSE pc' = [pc EXCEPT ![p] = "idle"] /\ UNCHANGED next
      /\ UNCHANGED <<log, seen, raced, crashes, torn>>
  BY <1>2 DEF Stat, disk, counts
<1>4. /\ next \in [Store -> Op] /\ pc \in [Store -> {"off", "idle", "write", "stat"}]
      /\ todo \in [Store -> Seq(Step)] /\ todo[p] # <<>>
  BY <1>1, <1>3 DEF Inv, TypeOK, Blind, InCall
<1>5. StepsFit(todo[p]) /\ StepsFit(more) BY <1>1, <1>2, <1>4, TailFits DEF Fits
<1>6. todo'[p] = more BY <1>3, <1>4
<1>7. File \subseteq seen[p] \cup raced BY <1>1, <1>3 DEF Current, Knows
<1>8. File' = File BY <1>3 DEF File, Replay, Parsed
<1>9. Current(p)' BY <1>3, <1>7, <1>8 DEF Current
<1>10. ASSUME NEW n, Owes(p, n)
       PROVE  more # <<>> /\ Head(more).op = "supersede" /\ Head(more).a = n
  <2>1. Head(todo[p]).op = "supersedes" /\ Head(todo[p]).b = n BY <1>3, <1>10 DEF Owes
  <2> QED BY <1>2, <1>4, <1>5, <2>1, FlagFollows
<1>11. CASE more # <<>> /\ Head(more).op = "supersede"
  <2>1. next' = [next EXCEPT ![p] = Line(Head(more), seen[p])] /\ pc' = [pc EXCEPT ![p] = "write"]
    BY <1>3, <1>11
  <2>2. next'[p] = Line(Head(more), seen[p]) /\ pc'[p] = "write" BY <1>4, <2>1
  <2>3. next'[p].op = "supersede" /\ next'[p].a = Head(more).a /\ next'[p].b = Head(more).b
    BY <1>11, <2>2 DEF Line
  <2>4. Fits(p)' BY <1>5, <1>6, <1>11, <2>2, <2>3 DEF Fits
  <2>5. Pending(p)' BY <2>3 DEF Pending, Edges
  <2>6. \A n : Owes(p, n) => Owes(p, n)' BY <1>10, <2>2, <2>3 DEF Owes
  <2>7. \A q \in Store \ {p} : pc'[q] = pc[q] /\ todo'[q] = todo[q] /\ next'[q] = next[q] /\ seen'[q] = seen[q]
    BY <1>3, <1>4, <2>1
  <2> QED BY <1>1, <1>3, <1>9, <2>4, <2>5, <2>6, <2>7, QuietWhole
<1>12. CASE ~(more # <<>> /\ Head(more).op = "supersede")
  <2>1. pc' = [pc EXCEPT ![p] = "idle"] /\ next' = next BY <1>3, <1>12
  <2>2. pc'[p] = "idle" BY <1>4, <2>1
  <2>3. Fits(p)' /\ Pending(p)' BY <1>5, <1>6, <2>2 DEF Fits, Pending
  <2>4. \A n : ~Owes(p, n) BY <1>10, <1>12
  <2>5. \A q \in Store \ {p} : pc'[q] = pc[q] /\ todo'[q] = todo[q] /\ next'[q] = next[q] /\ seen'[q] = seen[q]
    BY <1>3, <1>4, <2>1
  <2> QED BY <1>1, <1>3, <1>9, <2>3, <2>4, <2>5, QuietWhole
<1> QED BY <1>11, <1>12

LEMMA GoneWhole == ASSUME Whole, NEW p \in Store, Crash(p) \/ Tear(p) PROVE Whole'
<1>1. Inv /\ Inv' BY GoneInv DEF Whole
<1>2. /\ pc' = [pc EXCEPT ![p] = "off"]
      /\ todo' = [todo EXCEPT ![p] = <<>>] /\ next' = [next EXCEPT ![p] = NoOp]
      /\ seen' = [seen EXCEPT ![p] = {}]
  BY DEF Crash, Tear, Gone
<1>3. /\ next \in [Store -> Op] /\ pc \in [Store -> {"off", "idle", "write", "stat"}]
      /\ todo \in [Store -> Seq(Step)] /\ seen \in [Store -> SUBSET (1..Len(log))]
      /\ crashes \in Nat
  BY <1>1 DEF Inv, TypeOK
<1>4. pc'[p] = "off" /\ todo'[p] = <<>> BY <1>2, <1>3
<1>5. Fits(p)' /\ Current(p)' /\ Pending(p)' BY <1>4, NoSteps DEF Fits, Current, Knows, Pending
<1>6. \A q \in Store \ {p} : pc'[q] = pc[q] /\ todo'[q] = todo[q] /\ next'[q] = next[q] /\ seen'[q] = seen[q]
  BY <1>2, <1>3
<1>7. CASE Crash(p)
  <2>1. UNCHANGED <<log, raced, torn>> /\ crashes' = crashes + 1 BY <1>7 DEF Crash
  <2>2. crashes' # crashes BY <1>3, <2>1
  <2> QED BY <1>1, <1>5, <1>6, <2>1, <2>2, QuietWhole
<1>8. CASE Tear(p)
  <2>1. pc[p] = "write" /\ Puts(p, "torn") /\ crashes' = crashes /\ torn' = torn + 1 BY <1>8 DEF Tear
  <2> QED BY <1>1, <1>4, <1>5, <1>6, <2>1, PutsWhole
<1> QED BY <1>7, <1>8

LEMMA NextWhole == Whole /\ [Next]_vars => Whole'
<1> SUFFICES ASSUME Whole, [Next]_vars PROVE Whole' OBVIOUS
<1>1. CASE Next
  <2>1. PICK p \in Store :
          \/ \E w \in BOOLEAN : Start(p, w) \/ Look(p, w)
          \/ SkipLink(p) \/ Write(p) \/ Stat(p) \/ Crash(p) \/ Tear(p)
          \/ \E c \in Fact : AddFact(p, c)
          \/ \E a, b \in Fact : AddEdge(p, a, b) \/ Supersede(p, a, b)
          \/ \E n \in Node : Pin(p, n)
    BY <1>1 DEF Next
  <2>2. CASE \E w \in BOOLEAN : Start(p, w) \/ Look(p, w) BY <2>2, StartWhole, LookWhole
  <2>3. CASE SkipLink(p) \/ Write(p) \/ Stat(p) BY <2>3, SkipLinkWhole, WriteWhole, StatWhole
  <2>4. CASE Crash(p) \/ Tear(p) BY <2>4, GoneWhole
  <2>5. CASE \E c \in Fact : AddFact(p, c) BY <2>5, CallWhole, NodeType
  <2>6. CASE \E a, b \in Fact : AddEdge(p, a, b) \/ Supersede(p, a, b) BY <2>6, CallWhole, NodeType
  <2>7. CASE \E n \in Node : Pin(p, n)
    <3>1. PICK n \in Node : Pin(p, n) BY <2>7
    <3>2. Inv' BY <1>1, NextInv DEF Whole
    <3>3. StepsFit(<<PutNode(n, {n})>>)
      BY DEF StepsFit, PutNode, Edges
    <3>4. Head(<<PutNode(n, {n})>>).once = "no" BY DEF PutNode
    <3> QED BY <3>1, <3>2, <3>3, <3>4, BeginWhole DEF Pin
  <2> QED BY <2>1, <2>2, <2>3, <2>4, <2>5, <2>6, <2>7
<1>2. CASE UNCHANGED vars
  <2>1. /\ UNCHANGED <<log, raced, torn, crashes, pc, todo, next, seen>> /\ Inv'
    BY <1>2, NextInv DEF Whole, vars, disk, memory, control, counts
  <2>2. File' = File /\ \A n : Flagged(File, n)' = Flagged(File, n)
    BY <2>1 DEF File, Replay, Parsed, Flagged, Marks, Is
  <2>3. \A k, n : Stood(k, n)' = Stood(k, n) /\ HasNode(n)' = HasNode(n) /\ RacedAbout(n)' = RacedAbout(n)
    BY <2>1, <2>2 DEF Stood, HasNode, RacedAbout, Marks, Is
  <2>4. \A p \in Store : Fits(p)' /\ Current(p)' /\ Pending(p)'
    BY <2>1, <2>2, <2>3 DEF Whole, Fits, Current, Knows, Pending, InCall
  <2>5. Lines' BY <2>1, <2>3 DEF Whole, Lines
  <2>6. OneSpine' BY <2>1, <2>2 DEF Whole, OneSpine, Is
  <2>7. \A p, n : Owes(p, n)' = Owes(p, n) BY <2>1 DEF Owes
  <2>8. Promised' BY <2>1, <2>2, <2>7 DEF Whole, Promised
  <2> QED BY <2>1, <2>4, <2>5, <2>6, <2>8 DEF Whole
<1> QED BY <1>1, <1>2

-----------------------------------------------------------------------------
LEMMA EndsAreThere == Whole => EdgesHaveEnds
<1> SUFFICES ASSUME Whole, NEW i \in File, log[i].put.op \in Edges, NEW n \in {log[i].put.a, log[i].put.b}
             PROVE  n \in NodesOf(File) \/ \E j \in 1..Len(log) : Is(j, "node", n) /\ j \notin File
  BY DEF EdgesHaveEnds
<1>1. log \in Seq(Chunk) /\ i \in 1..Len(log) BY FileLines DEF Whole, Inv, TypeOK
<1>2. HasNode(n) BY <1>1 DEF Whole, Lines
<1>3. n \in Node
  <2>1. log[i] \in Chunk BY <1>1
  <2> QED BY <2>1 DEF Chunk, Op
<1> QED BY <1>2, <1>3 DEF HasNode, NodesOf

LEMMA PromisesKept == Whole => FlagsFollow
<1> SUFFICES ASSUME Whole, \A p \in Store : ~InCall(p), crashes = 0, torn = 0, raced = {},
                    NEW i \in File, log[i].put.op = "supersedes"
             PROVE  Flagged(File, log[i].put.b)
  BY DEF FlagsFollow
<1>1. i \in 1..Len(log) BY FileLines DEF Whole, Inv, TypeOK
<1>2. \A p \in Store : \A n : ~Owes(p, n) BY DEF Whole, Inv, Blind, Owes
<1> QED BY <1>1, <1>2 DEF Whole, Promised

LEMMA FlagStep == Whole /\ [Next]_vars => [UnflaggedByRace]_vars
<1> SUFFICES ASSUME Whole, Next, NEW n \in Node, Flagged(File, n), ~Flagged(File, n)'
             PROVE  \E i \in raced' : log'[i].put.a = n
  BY DEF UnflaggedByRace
<1>1. log' # log
  <2> SUFFICES ASSUME log' = log PROVE FALSE OBVIOUS
  <2>1. File' = File BY DEF File, Replay, Parsed
  <2>2. Flagged(File, n)' <=> Flagged(File, n) BY <2>1, Zenon DEF Flagged, Marks, Is
  <2> QED BY <2>2
<1>2. PICK p \in Store : Write(p) \/ Tear(p)
  BY <1>1 DEF Next, Start, Look, SkipLink, Stat, Crash, AddFact, AddEdge, Supersede, Pin, Begin, disk
<1>3. PICK e \in {"newline", "torn"} : Puts(p, e) BY <1>2 DEF Write, Tear
<1>4. pc[p] = "write" /\ Inv /\ Pending(p) BY <1>2 DEF Write, Tear, Whole
<1>5. next[p].op = "node" /\ next[p].a = n /\ next[p].sup = "no" BY <1>3, <1>4, FlagKeeps
<1>6. RacedAbout(n) BY <1>4, <1>5 DEF Pending
<1>7. raced \subseteq raced' /\ raced \subseteq 1..Len(log) /\ \A i \in 1..Len(log) : log'[i] = log[i]
  BY <1>3, <1>4, Appended
<1> QED BY <1>6, <1>7 DEF RacedAbout

\* Edges have their nodes, a replaced node its flag, and an edge of the spine no
\* equal, but for lines that raced or were torn.
THEOREM GraphHoldsCorrect == Spec => []GraphHolds
<1>1. Whole => GraphHolds BY EndsAreThere, PromisesKept DEF GraphHolds, Whole, Inv
<1> QED BY InitWhole, NextWhole, <1>1, PTL DEF Spec

\* A flag is taken back only where a line about the node raced.
THEOREM FlagsStayCorrect == Spec => FlagsStay
<1> QED BY InitWhole, NextWhole, FlagStep, PTL DEF Spec, FlagsStay
-----------------------------------------------------------------------------
(* Backups on the same disk. *)

Stages == {"none", "files", "manifest", "traces", "upload", "download", "hangs",
           "extract", "identity", "state", "back"}

Archives == [who : {"me", "other", "nobody", "broken"}, saved : 0..BkMaxNow,
             stamp : [of : {"none", "me", "other"}, at : 0..BkMaxNow],
             traces : SUBSET (1..BkMaxNow), connected : 0..BkMaxNow,
             captured : {"none", "yes", "failed", "holes"}, at : 0..BkMaxNow]

Names == {"me", "other", "nobody", "broken"}

Jobs == [st : Stages, arch : Archives, kept : Names]

BkTypes ==
    /\ bkWho \in {"me", "other", "nobody", "broken"}
    /\ bkSaved \in 0..BkMaxNow /\ bkTraces \in SUBSET (1..BkMaxNow) /\ bkNow \in 2..BkMaxNow
    /\ bkStamp \in [of : {"none", "me", "other"}, at : 0..BkMaxNow]
    /\ bkJob \in [BkJob -> Jobs] /\ bkServer \in SUBSET Archives
    /\ bkTorn \in SUBSET {"identity", "session"}

\* A stamp of this agent's speaks of an archive the office has, wherever it is
\* kept: in the workspace, in an archive, or in one that is read.
Backed(stamp) == stamp.of = "me" => \E a \in bkServer : a.at = stamp.at

StampInv ==
    /\ Backed(bkStamp)
    /\ \A a \in bkServer : a.who = "nobody" /\ Backed(a.stamp)
    /\ \A j \in BkJob : /\ Backed(bkJob[j].arch.stamp)
                        /\ bkJob[j].st \in {"manifest", "traces", "upload"} => bkJob[j].arch.who = "nobody"

\* The identity a restore will put back is this agent's.
SelfInv ==
    /\ bkWho \in {"me", "broken"} \/ \E j \in BkJob : bkJob[j].st = "identity"
    /\ \A j \in BkJob : bkJob[j].st \in {"extract", "identity"} => bkJob[j].kept = "me"

\* The session saved is one the providers have, but in a restore between the
\* files and the session state; traces are only added.
ConnInv ==
    /\ bkSaved \in bkTraces \cup {0} \/ \E j \in BkJob : bkJob[j].st \in {"identity", "state"}
    /\ \A j \in BkJob :
        /\ bkJob[j].st = "traces" => bkJob[j].arch.connected \in bkTraces \cup {0}
        /\ bkJob[j].st = "upload" => Accounted(bkJob[j].arch)
    /\ \A a \in bkServer : Accounted(a)

\* A loop that was killed has nothing under way.
DownIdle == ~bkUp => \A j \in BkJob : bkJob[j].st = "none"

\* No restore left the identity, or the session state, undone.
Named == "identity" \notin bkTorn
Fresh == "session" \notin bkTorn

BkInv == BkTypes /\ StampInv /\ DownIdle /\ (Named => SelfInv) /\ (Fresh => ConnInv)

LEMMA BkInvHolds == BkInv => BackupHolds
  BY BkBounds DEF BkInv, BkTypes, Jobs, Stages, Archives, StampInv, Backed, SelfInv, ConnInv,
     Named, Fresh, BackupHolds, BkTypeOK, StaysItself, ConnectedIsThere, StampIsTrue

LEMMA NoJobIs == NoJob \in Jobs /\ NoJob.st = "none" /\ NoJob.arch.stamp.of = "none"
  BY BkBounds DEF NoJob, NoArchive, Jobs, Names, Stages, Archives

LEMMA BkStarts == BkInit => BkInv
<1> SUFFICES ASSUME BkInit PROVE BkInv
  OBVIOUS
<1>1. BkTypes
  BY NoJobIs, BkBounds DEF BkInit, BkTypes
<1>2. StampInv /\ DownIdle
  BY NoJobIs DEF BkInit, StampInv, Backed, DownIdle
<1>3. SelfInv /\ ConnInv
  BY NoJobIs DEF BkInit, SelfInv, ConnInv
<1> QED BY <1>1, <1>2, <1>3 DEF BkInv

\* A job that is another: what the function is then.
LEMMA JobIs ==
    ASSUME BkTypes, NEW j \in BkJob, NEW r \in Jobs, bkJob' = [bkJob EXCEPT ![j] = r]
    PROVE  /\ bkJob' \in [BkJob -> Jobs] /\ bkJob'[j] = r
           /\ \A i \in BkJob : i # j => bkJob'[i] = bkJob[i]
  BY DEF BkTypes

LEMMA GoesOn ==
    ASSUME BkTypes, NEW j \in BkJob, NEW st \in Stages
    PROVE  /\ [bkJob[j] EXCEPT !.st = st] \in Jobs
           /\ [bkJob[j] EXCEPT !.st = st].st = st
           /\ [bkJob[j] EXCEPT !.st = st].arch = bkJob[j].arch
           /\ [bkJob[j] EXCEPT !.st = st].kept = bkJob[j].kept
           /\ [bkJob EXCEPT ![j].st = st] = [bkJob EXCEPT ![j] = [bkJob[j] EXCEPT !.st = st]]
  BY DEF BkTypes, Jobs

LEMMA BothFields ==
    ASSUME NEW x \in Jobs, NEW st \in Stages, NEW arch \in Archives
    PROVE  [[x EXCEPT !.st = st] EXCEPT !.arch = arch] = [st |-> st, arch |-> arch, kept |-> x.kept]
<1>1. [x EXCEPT !.st = st] = [st |-> st, arch |-> x.arch, kept |-> x.kept]
  BY DEF Jobs
<1>2. [[st |-> st, arch |-> x.arch, kept |-> x.kept] EXCEPT !.arch = arch]
          = [st |-> st, arch |-> arch, kept |-> x.kept]
  OBVIOUS
<1> QED BY ONLY <1>1, <1>2

LEMMA CollectsOn ==
    ASSUME BkTypes, NEW j \in BkJob, NEW from \in Stages, NEW to \in Stages, NEW arch \in Archives,
           Collects(j, from, to, arch)
    PROVE  \E r \in Jobs : /\ bkJob' = [bkJob EXCEPT ![j] = r]
                           /\ r.st = to /\ r.arch = arch /\ r.kept = bkJob[j].kept
<1> DEFINE r == [st |-> to, arch |-> arch, kept |-> bkJob[j].kept]
<1>1. bkJob[j] \in Jobs
  BY DEF BkTypes
<1>2. r \in Jobs
  BY <1>1 DEF Jobs
<1>3. [[bkJob[j] EXCEPT !.st = to] EXCEPT !.arch = arch] = r
  BY <1>1, BothFields
<1>4. [[bkJob EXCEPT ![j].st = to] EXCEPT ![j].arch = arch] = [bkJob EXCEPT ![j] = r]
  BY <1>3 DEF BkTypes
<1>5. bkJob' = [bkJob EXCEPT ![j] = r]
  BY <1>4 DEF Collects
<1> QED BY <1>2, <1>5

\* Steps of one job that touch neither the workspace nor the office's archives.
LEMMA JobMoves ==
    ASSUME BkInv, NEW j \in BkJob, NEW r \in Jobs, bkJob' = [bkJob EXCEPT ![j] = r],
           UNCHANGED <<bkWho, bkSaved, bkStamp, bkTraces, bkServer>>, bkNow' \in 2..BkMaxNow,
           bkTorn \subseteq bkTorn', bkTorn' \in SUBSET {"identity", "session"}, bkUp => bkUp', bkUp' \/ r.st = "none",
           Backed(r.arch.stamp),
           r.st \in {"manifest", "traces", "upload"} => r.arch.who = "nobody",
           bkJob[j].st \notin {"identity", "state"},
           Named' => (r.st \in {"extract", "identity"} => r.kept = "me"),
           Fresh' => /\ r.st = "traces" => r.arch.connected \in bkTraces \cup {0}
                     /\ r.st = "upload" => Accounted(r.arch)
    PROVE  BkInv'
<1>0. BkTypes /\ StampInv /\ DownIdle
  BY DEF BkInv
<1>1. /\ bkJob' \in [BkJob -> Jobs] /\ bkJob'[j] = r
      /\ \A i \in BkJob : i # j => bkJob'[i] = bkJob[i]
  BY <1>0, JobIs
<1>2. BkTypes'
  BY <1>0, <1>1 DEF BkTypes
<1>3. StampInv'
  BY <1>0, <1>1 DEF StampInv, Backed
<1>4. DownIdle'
  BY <1>0, <1>1 DEF DownIdle
<1>5. (Named => SelfInv)'
  BY <1>1 DEF BkInv, Named, SelfInv
<1>6. (Fresh => ConnInv)'
  BY <1>1 DEF BkInv, Fresh, ConnInv, Accounted
<1> QED BY <1>2, <1>3, <1>4, <1>5, <1>6 DEF BkInv

\* Something under way needs a loop that is up.
LEMMA BusyUp == ASSUME BkInv, NEW j \in BkJob, bkJob[j].st # "none" PROVE bkUp
  BY DEF BkInv, DownIdle

LEMMA AskedKeeps == ASSUME BkInv, NEW j \in BkJob, ExportAsked(j) PROVE BkInv'
<1> DEFINE r == [bkJob[j] EXCEPT !.st = "files"]
<1>0. BkTypes /\ StampInv
  BY DEF BkInv
<1>1. r \in Jobs /\ r.st = "files" /\ r.arch = bkJob[j].arch /\ bkJob' = [bkJob EXCEPT ![j] = r]
  BY <1>0, GoesOn DEF ExportAsked, Goes, Stages
<1>2. /\ bkJob[j].st = "none" /\ bkUp /\ bkUp' /\ Backed(r.arch.stamp)
      /\ UNCHANGED <<bkWho, bkSaved, bkStamp, bkTraces, bkServer, bkNow, bkTorn>>
  BY <1>0, <1>1 DEF ExportAsked, Goes, Stays, StampInv
<1>3. bkNow' \in 2..BkMaxNow /\ bkTorn' \in SUBSET {"identity", "session"}
  BY <1>0, <1>2 DEF BkTypes
<1> HIDE DEF r
<1> QED BY <1>1, <1>2, <1>3, JobMoves

LEMMA FilesKeeps == ASSUME BkInv, NEW j \in BkJob, ExportFiles(j) PROVE BkInv'
<1> DEFINE a == [bkJob[j].arch EXCEPT !.who = Sanitized(bkWho), !.saved = bkSaved, !.stamp = bkStamp]
<1>0. BkTypes /\ StampInv
  BY DEF BkInv
<1>1. a \in Archives /\ a.who = "nobody" /\ a.stamp = bkStamp
  BY <1>0 DEF BkTypes, Jobs, Archives, Sanitized
<1>2. Collects(j, "files", "manifest", a)
  BY DEF ExportFiles
<1> HIDE DEF a
<1>3. PICK r \in Jobs : bkJob' = [bkJob EXCEPT ![j] = r] /\ r.st = "manifest" /\ r.arch = a
  BY <1>0, <1>1, <1>2, CollectsOn DEF Stages
<1>4. /\ bkJob[j].st = "files" /\ bkNow' \in 2..BkMaxNow /\ bkTorn' \in SUBSET {"identity", "session"}
      /\ UNCHANGED <<bkWho, bkSaved, bkStamp, bkTraces, bkServer, bkTorn, bkUp>>
  BY <1>0, <1>2 DEF Collects, Stays, BkTypes
<1>5. bkUp /\ Backed(r.arch.stamp)
  BY <1>0, <1>1, <1>3, <1>4, BusyUp DEF StampInv
<1> QED BY <1>1, <1>3, <1>4, <1>5, JobMoves DEF Named, Fresh

LEMMA ManifestKeeps == ASSUME BkInv, NEW j \in BkJob, ExportManifest(j) PROVE BkInv'
<1> DEFINE a == [bkJob[j].arch EXCEPT !.connected = bkSaved]
<1>0. BkTypes /\ StampInv
  BY DEF BkInv
<1>1. a \in Archives /\ a.who = bkJob[j].arch.who /\ a.stamp = bkJob[j].arch.stamp /\ a.connected = bkSaved
  BY <1>0 DEF BkTypes, Jobs, Archives
<1>2. Collects(j, "manifest", "traces", a)
  BY DEF ExportManifest
<1> HIDE DEF a
<1>3. PICK r \in Jobs : bkJob' = [bkJob EXCEPT ![j] = r] /\ r.st = "traces" /\ r.arch = a
  BY <1>0, <1>1, <1>2, CollectsOn DEF Stages
<1>4. /\ bkJob[j].st = "manifest" /\ bkNow' \in 2..BkMaxNow /\ Alone(j)
      /\ bkTorn' \in SUBSET {"identity", "session"}
      /\ UNCHANGED <<bkWho, bkSaved, bkStamp, bkTraces, bkServer, bkTorn, bkUp>>
  BY <1>0, <1>2 DEF Collects, Stays, BkTypes
<1>5. bkUp /\ Backed(r.arch.stamp) /\ r.arch.who = "nobody"
  BY <1>0, <1>1, <1>3, <1>4, BusyUp DEF StampInv
<1>6. Fresh => bkSaved \in bkTraces \cup {0}
  BY <1>4 DEF BkInv, ConnInv, Alone, Holds
<1> QED BY <1>1, <1>3, <1>4, <1>5, <1>6, JobMoves DEF Named, Fresh

LEMMA TracedKeeps ==
    ASSUME BkInv, NEW j \in BkJob, NEW got \in SUBSET Collected,
           NEW said \in {"none", "yes", "failed", "holes"}, Traced(j, got, said),
           LET c == bkJob[j].arch.connected IN
             \/ c \in Collected \ got /\ said \in {"failed", "holes"}
             \/ c \notin Collected \ got /\ said = Captured(c)
    PROVE  BkInv'
<1> DEFINE a == [bkJob[j].arch EXCEPT !.traces = got, !.captured = said]
<1>0. BkTypes /\ StampInv
  BY DEF BkInv
<1>1. /\ a \in Archives /\ a.who = bkJob[j].arch.who /\ a.stamp = bkJob[j].arch.stamp
      /\ a.connected = bkJob[j].arch.connected /\ a.traces = got /\ a.captured = said
  BY <1>0 DEF BkTypes, Jobs, Archives, Collected
<1>2. Collects(j, "traces", "upload", a)
  BY DEF Traced
<1> HIDE DEF a
<1>3. PICK r \in Jobs : bkJob' = [bkJob EXCEPT ![j] = r] /\ r.st = "upload" /\ r.arch = a
  BY <1>0, <1>1, <1>2, CollectsOn DEF Stages
<1>4. /\ bkJob[j].st = "traces" /\ bkNow' \in 2..BkMaxNow /\ bkTorn' \in SUBSET {"identity", "session"}
      /\ UNCHANGED <<bkWho, bkSaved, bkStamp, bkTraces, bkServer, bkTorn, bkUp>>
  BY <1>0, <1>2 DEF Collects, Stays, BkTypes
<1>5. bkUp /\ Backed(r.arch.stamp) /\ r.arch.who = "nobody"
  BY <1>0, <1>1, <1>3, <1>4, BusyUp DEF StampInv
<1>6. Fresh => Accounted(a)
  <2>1. Fresh => bkJob[j].arch.connected \in bkTraces \cup {0}
    BY <1>4 DEF BkInv, ConnInv
  <2> QED BY <1>1, <2>1 DEF Accounted, Captured, Collected
<1> QED BY <1>1, <1>3, <1>4, <1>5, <1>6, JobMoves DEF Fresh, Named

LEMMA TracesKeeps == ASSUME BkInv, NEW j \in BkJob, ExportTraces(j) PROVE BkInv'
<1> DEFINE c == bkJob[j].arch.connected
<1>1. Captured(c) \in {"none", "yes", "failed", "holes"}
  BY DEF Captured
<1>2. CASE Traced(j, Collected, Captured(c))
  BY <1>1, <1>2, TracedKeeps
<1>3. ASSUME NEW got \in SUBSET Collected, c \in Collected \ got,
             NEW said \in {"failed", "holes"}, Traced(j, got, said)
      PROVE  BkInv'
  BY <1>3, TracedKeeps
<1>4. ASSUME NEW got \in SUBSET Collected, c \notin Collected \ got, Traced(j, got, Captured(c))
      PROVE  BkInv'
  BY <1>1, <1>4, TracedKeeps
<1> QED BY <1>2, <1>3, <1>4 DEF ExportTraces

LEMMA OverKeeps == ASSUME BkInv, NEW j \in BkJob, bkJob' = [bkJob EXCEPT ![j] = NoJob],
                          bkJob[j].st \notin {"identity", "state"},
                          Stays, UNCHANGED <<bkNow, bkUp, bkServer, bkTorn>>
                   PROVE BkInv'
<1>1. /\ bkNow' \in 2..BkMaxNow /\ bkTorn' \in SUBSET {"identity", "session"}
      /\ UNCHANGED <<bkWho, bkSaved, bkStamp, bkTraces, bkServer>>
  BY DEF BkInv, BkTypes, Stays
<1>2. NoJob \in Jobs /\ NoJob.st = "none" /\ Backed(NoJob.arch.stamp)
  BY NoJobIs DEF Backed
<1> QED BY <1>1, <1>2, JobMoves

LEMMA OthersAre ==
    ASSUME NEW a \in Others
    PROVE  a \in Archives /\ a.stamp.of = "other"
<1>1. PICK w \in {"other", "nobody"} :
          a = [NoArchive EXCEPT !.who = w, !.saved = 1, !.stamp = [of |-> "other", at |-> 2],
                                !.traces = {1}, !.connected = 1, !.captured = "yes"]
  BY DEF Others
<1>2. a = [who |-> w, saved |-> 1, stamp |-> [of |-> "other", at |-> 2], traces |-> {1},
           connected |-> 1, captured |-> "yes", at |-> 0]
  BY <1>1 DEF NoArchive
<1>3. [of |-> "other", at |-> 2] \in [of : {"none", "me", "other"}, at : 0..BkMaxNow]
  BY BkBounds
<1>4. {1} \in SUBSET (1..BkMaxNow) /\ 1 \in 0..BkMaxNow /\ 0 \in 0..BkMaxNow
  BY BkBounds
<1> QED BY <1>2, <1>3, <1>4 DEF Archives

LEMMA RestoreAskedKeeps == ASSUME BkInv, NEW j \in BkJob, RestoreAsked(j) PROVE BkInv'
<1>0. BkTypes /\ StampInv
  BY DEF BkInv
<1>1. PICK a \in bkServer \cup Others :
          bkJob' = [bkJob EXCEPT ![j] = [st |-> "download", arch |-> a, kept |-> "nobody"]]
  BY DEF RestoreAsked
<1> DEFINE r == [st |-> "download", arch |-> a, kept |-> "nobody"]
<1>2. a \in Archives /\ Backed(a.stamp)
  BY <1>0, OthersAre DEF BkTypes, StampInv, Backed
<1>3. r \in Jobs /\ r.st = "download" /\ r.arch = a
  BY <1>2 DEF Jobs, Names, Stages
<1>4. /\ bkJob[j].st = "none" /\ bkUp /\ bkUp' /\ bkNow' \in 2..BkMaxNow
      /\ bkTorn' \in SUBSET {"identity", "session"}
      /\ UNCHANGED <<bkWho, bkSaved, bkStamp, bkTraces, bkServer, bkTorn>>
  BY <1>0 DEF RestoreAsked, Stays, BkTypes
<1>5. bkJob' = [bkJob EXCEPT ![j] = r]
  BY <1>1
<1> HIDE DEF r
<1> QED BY <1>2, <1>3, <1>4, <1>5, JobMoves

LEMMA DownloadFailsKeeps == ASSUME BkInv, NEW j \in BkJob, DownloadFails(j) PROVE BkInv'
<1>0. BkTypes /\ StampInv
  BY DEF BkInv
<1>1. CASE bkJob' = [bkJob EXCEPT ![j] = NoJob]
  BY <1>1, OverKeeps DEF DownloadFails
<1>2. CASE bkJob' = [bkJob EXCEPT ![j].st = "hangs"]
  <2> DEFINE r == [bkJob[j] EXCEPT !.st = "hangs"]
  <2>1. r \in Jobs /\ r.st = "hangs" /\ r.arch = bkJob[j].arch /\ bkJob' = [bkJob EXCEPT ![j] = r]
    BY <1>0, <1>2, GoesOn DEF Stages
  <2>2. /\ bkJob[j].st = "download" /\ bkNow' \in 2..BkMaxNow /\ Backed(r.arch.stamp)
        /\ bkTorn' \in SUBSET {"identity", "session"}
        /\ UNCHANGED <<bkWho, bkSaved, bkStamp, bkTraces, bkServer, bkTorn, bkUp>>
    BY <1>0, <2>1 DEF DownloadFails, Stays, BkTypes, StampInv
  <2>3. bkUp
    BY <2>2, BusyUp
  <2> HIDE DEF r
  <2> QED BY <2>1, <2>2, <2>3, JobMoves
<1> QED BY <1>1, <1>2 DEF DownloadFails

LEMMA KeepFields ==
    ASSUME NEW x \in Jobs, NEW st \in Stages, NEW kept \in Names
    PROVE  [[x EXCEPT !.st = st] EXCEPT !.kept = kept] = [st |-> st, arch |-> x.arch, kept |-> kept]
<1>1. [x EXCEPT !.st = st] = [st |-> st, arch |-> x.arch, kept |-> x.kept]
  BY DEF Jobs
<1>2. [[st |-> st, arch |-> x.arch, kept |-> x.kept] EXCEPT !.kept = kept]
          = [st |-> st, arch |-> x.arch, kept |-> kept]
  OBVIOUS
<1> QED BY ONLY <1>1, <1>2

LEMMA KeepsOn ==
    ASSUME BkTypes, NEW j \in BkJob, RestoreKeeps(j)
    PROVE  \E r \in Jobs : /\ bkJob' = [bkJob EXCEPT ![j] = r]
                           /\ r.st = "extract" /\ r.arch = bkJob[j].arch /\ r.kept = Keeps
<1>0. Keeps \in Names /\ "extract" \in Stages
  BY DEF BkTypes, Keeps, Names, Stages
<1>1. PICK kept \in Names : kept = Keeps
  BY <1>0
<1>2. PICK st \in Stages : st = "extract"
  BY <1>0
<1> DEFINE r == [st |-> st, arch |-> bkJob[j].arch, kept |-> kept]
<1>3. bkJob[j] \in Jobs
  BY DEF BkTypes
<1>4. r \in Jobs
  BY <1>3 DEF Jobs
<1>5. [[bkJob[j] EXCEPT !.st = st] EXCEPT !.kept = kept] = r
  BY <1>3, KeepFields
<1>6. [[bkJob EXCEPT ![j].st = st] EXCEPT ![j].kept = kept] = [bkJob EXCEPT ![j] = r]
  BY <1>5 DEF BkTypes
<1>7. bkJob' = [bkJob EXCEPT ![j] = r]
  BY <1>1, <1>2, <1>6 DEF RestoreKeeps
<1> QED BY <1>1, <1>2, <1>4, <1>7

LEMMA KeepsKeeps == ASSUME BkInv, NEW j \in BkJob, RestoreKeeps(j) PROVE BkInv'
<1>0. BkTypes /\ StampInv
  BY DEF BkInv
<1>1. PICK r \in Jobs : /\ bkJob' = [bkJob EXCEPT ![j] = r]
                        /\ r.st = "extract" /\ r.arch = bkJob[j].arch /\ r.kept = Keeps
  BY <1>0, KeepsOn
<1>2. /\ bkJob[j].st = "download" /\ bkNow' \in 2..BkMaxNow /\ Backed(r.arch.stamp) /\ Alone(j)
      /\ UNCHANGED <<bkWho, bkSaved, bkStamp, bkTraces, bkServer, bkUp>>
      /\ bkTorn \subseteq bkTorn' /\ bkTorn' \in SUBSET {"identity", "session"}
      /\ Named' => Named /\ bkWho # "broken"
  BY <1>0, <1>1 DEF RestoreKeeps, Stays, BkTypes, StampInv, Named
<1>3. bkUp
  BY <1>2, BusyUp
<1>4. Named' => Keeps = "me"
  BY <1>2 DEF BkInv, SelfInv, Alone, Holds, Keeps
<1> QED BY <1>1, <1>2, <1>3, <1>4, JobMoves

LEMMA StartsKeeps == ASSUME BkInv, LoopStarts PROVE BkInv'
<1>0. BkTypes /\ StampInv
  BY DEF BkInv
<1>1. PICK j \in BkJob : bkJob' = [bkJob EXCEPT ![j].st = IF Due THEN "files" ELSE "none"]
  BY DEF LoopStarts
<1>2. PICK st \in Stages : st = (IF Due THEN "files" ELSE "none")
  BY DEF Stages
<1> DEFINE r == [bkJob[j] EXCEPT !.st = st]
<1>3. r \in Jobs /\ r.st = st /\ r.arch = bkJob[j].arch /\ bkJob' = [bkJob EXCEPT ![j] = r]
  BY <1>0, <1>1, <1>2, GoesOn
<1>4. st \in {"files", "none"}
  BY <1>2
<1>5. /\ bkJob[j].st = "none" /\ bkUp' /\ bkNow' \in 2..BkMaxNow /\ Backed(r.arch.stamp)
      /\ bkTorn' \in SUBSET {"identity", "session"}
      /\ UNCHANGED <<bkWho, bkSaved, bkStamp, bkTraces, bkServer, bkTorn>>
  BY <1>0, <1>3 DEF LoopStarts, Stays, BkTypes, StampInv, BkInv, DownIdle
<1> HIDE DEF r
<1> QED BY <1>3, <1>4, <1>5, JobMoves

LEMMA UploadFailsKeeps == ASSUME BkInv, NEW j \in BkJob, UploadFails(j) PROVE BkInv'
  BY OverKeeps DEF UploadFails

LEMMA UploadDoneKeeps == ASSUME BkInv, NEW j \in BkJob, UploadDone(j) PROVE BkInv'
<1> DEFINE a == [bkJob[j].arch EXCEPT !.at = bkNow]
<1>0. BkTypes /\ StampInv /\ DownIdle
  BY DEF BkInv
<1>1. /\ a \in Archives /\ a.at = bkNow /\ a.who = bkJob[j].arch.who /\ a.stamp = bkJob[j].arch.stamp
      /\ a.connected = bkJob[j].arch.connected /\ a.traces = bkJob[j].arch.traces
      /\ a.captured = bkJob[j].arch.captured
  BY <1>0 DEF BkTypes, Jobs, Archives
<1>2. /\ bkServer' = bkServer \cup {a} /\ bkStamp' = Stamped /\ bkJob[j].st = "upload"
      /\ bkJob' = [bkJob EXCEPT ![j] = NoJob]
      /\ UNCHANGED <<bkWho, bkSaved, bkTraces, bkNow, bkUp, bkTorn>>
  BY DEF UploadDone
<1> HIDE DEF a
<1>3. /\ bkJob' \in [BkJob -> Jobs] /\ bkJob'[j] = NoJob
      /\ \A i \in BkJob : i # j => bkJob'[i] = bkJob[i]
  BY <1>0, <1>2, NoJobIs, JobIs
<1>4. BkTypes'
  BY <1>0, <1>1, <1>2, <1>3 DEF BkTypes, Stamped
<1>5. StampInv'
  <2>1. bkServer \subseteq bkServer' /\ a \in bkServer'
    BY <1>2
  <2>2. \A s : Backed(s) => Backed(s)'
    BY <2>1 DEF Backed
  <2>3. Backed(bkStamp)'
    BY <1>1, <1>2, <2>1 DEF Backed, Stamped
  <2>4. \A b \in bkServer' : b.who = "nobody" /\ Backed(b.stamp)'
    BY <1>0, <1>1, <1>2, <2>2 DEF StampInv
  <2>5. ASSUME NEW i \in BkJob
        PROVE  /\ Backed(bkJob[i].arch.stamp)'
               /\ bkJob'[i].st \in {"manifest", "traces", "upload"} => bkJob'[i].arch.who = "nobody"
    <3>1. CASE i = j
      BY <1>3, <3>1, NoJobIs DEF Backed
    <3>2. CASE i # j
      BY <1>0, <1>3, <2>1, <3>2 DEF StampInv, Backed
    <3> QED BY <3>1, <3>2
  <2>6. (\A i \in BkJob : /\ Backed(bkJob[i].arch.stamp)
                          /\ bkJob[i].st \in {"manifest", "traces", "upload"}
                               => bkJob[i].arch.who = "nobody")'
    BY <2>5
  <2>7. (\A b \in bkServer : b.who = "nobody" /\ Backed(b.stamp))'
    BY <2>4 DEF Backed
  <2> QED BY <2>3, <2>6, <2>7 DEF StampInv
<1>6. DownIdle'
  BY <1>0, <1>2, <1>3, NoJobIs DEF DownIdle
<1>7. (Named => SelfInv)'
  BY <1>2, <1>3, NoJobIs DEF BkInv, Named, SelfInv
<1>8. (Fresh => ConnInv)'
  BY <1>1, <1>2, <1>3, NoJobIs DEF BkInv, Fresh, ConnInv, Accounted
<1> QED BY <1>4, <1>5, <1>6, <1>7, <1>8 DEF BkInv

\* Steps of the workspace that leave jobs and archives alone.
LEMMA WorkspaceKeeps ==
    ASSUME BkInv, UNCHANGED <<bkStamp, bkJob, bkServer, bkUp, bkTorn>>,
           bkWho' \in {bkWho, "broken"}, bkNow' \in 2..BkMaxNow, bkSaved' \in 0..BkMaxNow,
           bkTraces \subseteq bkTraces', bkTraces' \in SUBSET (1..BkMaxNow),
           bkSaved' \in bkTraces \cup {0, bkSaved}
    PROVE  BkInv'
<1>1. BkTypes'
  BY DEF BkInv, BkTypes
<1>2. StampInv' /\ DownIdle'
  BY DEF BkInv, StampInv, Backed, DownIdle
<1>3. (Named => SelfInv)' /\ (Fresh => ConnInv)'
  BY DEF BkInv, SelfInv, ConnInv, Named, Fresh, Accounted
<1> QED BY <1>1, <1>2, <1>3 DEF BkInv

LEMMA RestoresIs ==
    ASSUME BkTypes, NEW j \in BkJob, NEW from \in Stages, NEW to \in Stages, Restores(j, from, to)
    PROVE  /\ bkJob' \in [BkJob -> Jobs] /\ bkJob[j].st = from
           /\ bkJob'[j].st = to /\ bkJob'[j].arch = bkJob[j].arch /\ bkJob'[j].kept = bkJob[j].kept
           /\ \A i \in BkJob : i # j => bkJob'[i] = bkJob[i]
           /\ \A i \in BkJob : i # j => bkJob[i].st \notin {"extract", "identity", "state"}
           /\ UNCHANGED <<bkNow, bkUp, bkServer>>
<1> DEFINE r == [bkJob[j] EXCEPT !.st = to]
<1>1. /\ r \in Jobs /\ r.st = to /\ r.arch = bkJob[j].arch /\ r.kept = bkJob[j].kept
      /\ bkJob' = [bkJob EXCEPT ![j] = r]
  BY GoesOn DEF Restores, Goes
<1>2. bkJob[j].st = from /\ Alone(j) /\ UNCHANGED <<bkNow, bkUp, bkServer>>
  BY DEF Restores, Goes
<1> HIDE DEF r
<1>3. /\ bkJob' \in [BkJob -> Jobs] /\ bkJob'[j] = r
      /\ \A i \in BkJob : i # j => bkJob'[i] = bkJob[i]
  BY <1>1, JobIs
<1> QED BY <1>1, <1>2, <1>3 DEF Alone, Holds

\* What a restore that reads archive a may have put on disk.
LEMMA ReplacedIs ==
    ASSUME BkTypes, StampInv, NEW j \in BkJob, NEW f \in SUBSET Files, Replaced(f, bkJob[j].arch),
           UNCHANGED bkServer
    PROVE  /\ bkWho' \in {"me", "other", "nobody", "broken"} /\ bkSaved' \in 0..BkMaxNow
           /\ bkStamp' \in [of : {"none", "me", "other"}, at : 0..BkMaxNow] /\ Backed(bkStamp)'
           /\ "settings" \notin f => bkWho' = bkWho
           /\ "session" \notin f => bkSaved' = bkSaved
<1>1. bkJob[j].arch \in Archives
  BY DEF BkTypes, Jobs
<1> QED BY <1>1 DEF Replaced, BkTypes, Archives, StampInv, Backed

LEMMA ExtractsAllKeeps ==
    ASSUME BkInv, NEW j \in BkJob, Restores(j, "extract", "identity"),
           NEW f \in SUBSET Files, Replaced(f, bkJob[j].arch), UNCHANGED <<bkTraces, bkTorn>>
    PROVE  BkInv'
<1>0. BkTypes /\ StampInv /\ DownIdle
  BY DEF BkInv
<1>1. /\ bkJob' \in [BkJob -> Jobs] /\ bkJob[j].st = "extract"
      /\ bkJob'[j].st = "identity" /\ bkJob'[j].arch = bkJob[j].arch /\ bkJob'[j].kept = bkJob[j].kept
      /\ \A i \in BkJob : i # j => bkJob'[i] = bkJob[i]
      /\ UNCHANGED <<bkNow, bkUp, bkServer>>
  BY <1>0, RestoresIs DEF Stages
<1>2. /\ bkWho' \in {"me", "other", "nobody", "broken"} /\ bkSaved' \in 0..BkMaxNow
      /\ bkStamp' \in [of : {"none", "me", "other"}, at : 0..BkMaxNow] /\ Backed(bkStamp)'
  BY <1>0, <1>1, ReplacedIs
<1>3. BkTypes'
  BY <1>0, <1>1, <1>2 DEF BkTypes
<1>4. StampInv' /\ DownIdle'
  BY <1>0, <1>1, <1>2 DEF StampInv, Backed, DownIdle
<1>5. (Named => SelfInv)'
  BY <1>1 DEF BkInv, Named, SelfInv
<1>6. (Fresh => ConnInv)'
  BY <1>1 DEF BkInv, Fresh, ConnInv, Accounted
<1> QED BY <1>3, <1>4, <1>5, <1>6 DEF BkInv

LEMMA ExtractThrowsKeeps ==
    ASSUME BkInv, NEW j \in BkJob, RestoreThrows(j, "extract"), NEW f \in SUBSET Files,
           Replaced(f, bkJob[j].arch), bkTorn' = bkTorn \cup ToDo(f), UNCHANGED bkTraces
    PROVE  BkInv'
<1>0. BkTypes /\ StampInv /\ DownIdle
  BY DEF BkInv
<1>1. /\ bkJob' = [bkJob EXCEPT ![j] = NoJob] /\ bkJob[j].st = "extract" /\ Alone(j)
      /\ UNCHANGED <<bkNow, bkUp, bkServer>>
  BY DEF RestoreThrows
<1>2. /\ bkJob' \in [BkJob -> Jobs] /\ bkJob'[j] = NoJob
      /\ \A i \in BkJob : i # j => bkJob'[i] = bkJob[i]
  BY <1>0, <1>1, NoJobIs, JobIs
<1>3. /\ bkWho' \in {"me", "other", "nobody", "broken"} /\ bkSaved' \in 0..BkMaxNow
      /\ bkStamp' \in [of : {"none", "me", "other"}, at : 0..BkMaxNow] /\ Backed(bkStamp)'
      /\ "settings" \notin f => bkWho' = bkWho
      /\ "session" \notin f => bkSaved' = bkSaved
  BY <1>0, <1>1, ReplacedIs
<1>4. bkTorn' \in SUBSET {"identity", "session"}
  BY <1>0 DEF BkTypes, ToDo
<1>5. BkTypes'
  BY <1>0, <1>1, <1>2, <1>3, <1>4 DEF BkTypes
<1>6. StampInv' /\ DownIdle'
  BY <1>0, <1>1, <1>2, <1>3, NoJobIs DEF StampInv, Backed, DownIdle
<1>7. \A i \in BkJob : bkJob[i].st \notin {"identity", "state"}
  BY <1>1 DEF Alone, Holds
<1>8. (Named => SelfInv)'
  <2>1. Named' => Named /\ "settings" \notin f
    BY DEF Named, ToDo
  <2> QED BY <1>2, <1>3, <1>7, <2>1, NoJobIs DEF BkInv, SelfInv
<1>9. (Fresh => ConnInv)'
  <2>1. Fresh' => Fresh /\ "session" \notin f
    BY DEF Fresh, ToDo
  <2> QED BY <1>1, <1>2, <1>3, <1>7, <2>1, NoJobIs DEF BkInv, ConnInv, Accounted
<1> QED BY <1>5, <1>6, <1>8, <1>9 DEF BkInv

LEMMA ExtractsKeeps == ASSUME BkInv, NEW j \in BkJob, RestoreExtracts(j) PROVE BkInv'
<1> DEFINE a == bkJob[j].arch
<1>1. CASE Restores(j, "extract", "identity") /\ Replaced(Files, a) /\ UNCHANGED bkTorn
  BY <1>1, ExtractsAllKeeps DEF RestoreExtracts
<1>2. ASSUME NEW f \in SUBSET Files, Restores(j, "extract", "identity"), UNCHANGED bkTorn, Replaced(f, a)
      PROVE  BkInv'
  BY <1>2, ExtractsAllKeeps DEF RestoreExtracts
<1>3. ASSUME NEW f \in SUBSET Files, RestoreThrows(j, "extract"), Replaced(f, a),
             bkTorn' = bkTorn \cup ToDo(f)
      PROVE  BkInv'
  BY <1>3, ExtractThrowsKeeps DEF RestoreExtracts
<1> QED BY <1>1, <1>2, <1>3 DEF RestoreExtracts

LEMMA IdentityKeeps == ASSUME BkInv, NEW j \in BkJob, RestoreIdentity(j) PROVE BkInv'
<1>0. BkTypes /\ StampInv /\ DownIdle
  BY DEF BkInv
<1>1. /\ bkJob' \in [BkJob -> Jobs] /\ bkJob[j].st = "identity"
      /\ bkJob'[j].st = "state" /\ bkJob'[j].arch = bkJob[j].arch /\ bkJob'[j].kept = bkJob[j].kept
      /\ \A i \in BkJob : i # j => bkJob'[i] = bkJob[i]
      /\ UNCHANGED <<bkNow, bkUp, bkServer>>
  BY <1>0, RestoresIs DEF RestoreIdentity, Stages
<1>2. /\ \/ bkWho' = (IF bkJob[j].kept = "nobody" \/ bkWho = "broken" THEN bkWho ELSE bkJob[j].kept)
            /\ bkTorn' = bkTorn
         \/ bkWho' \in {bkWho, "broken"} /\ bkTorn' = bkTorn \cup {"identity"}
      /\ UNCHANGED <<bkSaved, bkStamp, bkTraces>>
  BY DEF RestoreIdentity
<1>3. bkJob[j].kept \in Names
  BY <1>0 DEF BkTypes, Jobs
<1>4. BkTypes'
  BY <1>0, <1>1, <1>2, <1>3 DEF BkTypes, Names
<1>5. StampInv'
  BY <1>0, <1>1, <1>2 DEF StampInv, Backed
<1>6. DownIdle'
  BY <1>0, <1>1 DEF DownIdle
<1>7. (Named => SelfInv)'
  <2>1. Named' => /\ Named
                  /\ bkWho' = (IF bkJob[j].kept = "nobody" \/ bkWho = "broken" THEN bkWho ELSE bkJob[j].kept)
    BY <1>2 DEF Named
  <2> QED BY <1>1, <2>1 DEF BkInv, SelfInv
<1>8. (Fresh => ConnInv)'
  BY <1>1, <1>2 DEF BkInv, Fresh, ConnInv, Accounted
<1> QED BY <1>4, <1>5, <1>6, <1>7, <1>8 DEF BkInv

LEMMA StateKeeps == ASSUME BkInv, NEW j \in BkJob, RestoreState(j) PROVE BkInv'
<1>0. BkTypes /\ StampInv /\ DownIdle
  BY DEF BkInv
<1>1. /\ bkJob' \in [BkJob -> Jobs] /\ bkJob[j].st = "state"
      /\ bkJob'[j].st = "back" /\ bkJob'[j].arch = bkJob[j].arch /\ bkJob'[j].kept = bkJob[j].kept
      /\ \A i \in BkJob : i # j => bkJob'[i] = bkJob[i]
      /\ UNCHANGED <<bkNow, bkUp, bkServer>>
  BY <1>0, RestoresIs DEF RestoreState, Stages
<1>2. /\ \/ bkSaved' = 0 /\ bkTorn' = bkTorn
         \/ bkSaved' = bkSaved /\ bkTorn' = bkTorn \cup {"session"}
      /\ UNCHANGED <<bkWho, bkStamp, bkTraces>>
  BY DEF RestoreState
<1>3. bkSaved' \in 0..BkMaxNow /\ bkTorn' \in SUBSET {"identity", "session"}
  <2>1. bkSaved \in 0..BkMaxNow /\ 0 \in 0..BkMaxNow /\ bkTorn \in SUBSET {"identity", "session"}
    BY <1>0, BkBounds DEF BkTypes
  <2> QED BY <1>2, <2>1
<1>4. BkTypes'
  BY <1>0, <1>1, <1>2, <1>3 DEF BkTypes
<1>5. StampInv'
  BY <1>0, <1>1, <1>2 DEF StampInv, Backed
<1>6. DownIdle'
  BY <1>0, <1>1 DEF DownIdle
<1>7. (Named => SelfInv)'
  BY <1>1, <1>2 DEF BkInv, Named, SelfInv
<1>8. (Fresh => ConnInv)'
  BY <1>1, <1>2 DEF BkInv, Fresh, ConnInv, Accounted
<1> QED BY <1>4, <1>5, <1>6, <1>7, <1>8 DEF BkInv

LEMMA PutBackKeeps == ASSUME BkInv, NEW j \in BkJob, RestoreTraces(j) PROVE BkInv'
<1>0. BkTypes /\ StampInv /\ DownIdle
  BY DEF BkInv
<1>1. /\ bkJob' = [bkJob EXCEPT ![j] = NoJob] /\ bkJob[j].st = "back"
      /\ UNCHANGED <<bkWho, bkSaved, bkStamp, bkNow, bkUp, bkServer, bkTorn>>
  BY DEF RestoreTraces
<1>2. /\ bkJob' \in [BkJob -> Jobs] /\ bkJob'[j] = NoJob
      /\ \A i \in BkJob : i # j => bkJob'[i] = bkJob[i]
  BY <1>0, <1>1, NoJobIs, JobIs
<1>3. PICK back \in SUBSET bkJob[j].arch.traces : bkTraces' = bkTraces \cup back
  BY DEF RestoreTraces, PutBack
<1>4. bkJob[j].arch.traces \in SUBSET (1..BkMaxNow)
  BY <1>0 DEF BkTypes, Jobs, Archives
<1>5. BkTypes'
  BY <1>0, <1>1, <1>2, <1>3, <1>4 DEF BkTypes
<1>6. StampInv'
  BY <1>0, <1>1, <1>2, NoJobIs DEF StampInv, Backed
<1>7. DownIdle'
  BY <1>0, <1>1, <1>2, NoJobIs DEF DownIdle
<1>8. (Named => SelfInv)'
  BY <1>1, <1>2, NoJobIs DEF BkInv, Named, SelfInv
<1>9. (Fresh => ConnInv)'
  BY <1>1, <1>2, <1>3, NoJobIs DEF BkInv, Fresh, ConnInv, Accounted
<1> QED BY <1>5, <1>6, <1>7, <1>8, <1>9 DEF BkInv

LEMMA KilledKeeps == ASSUME BkInv, LoopKilled PROVE BkInv'
<1>0. BkTypes /\ StampInv /\ DownIdle
  BY DEF BkInv
<1>1. /\ bkJob' = [j \in BkJob |-> NoJob]
      /\ UNCHANGED <<bkWho, bkSaved, bkStamp, bkTraces, bkNow, bkServer>>
      /\ bkTorn' = bkTorn \cup {what \in {"identity", "session"} : \E j \in BkJob : what \in Left(bkJob[j].st)}
  BY DEF LoopKilled, Stays
<1>2. bkJob' \in [BkJob -> Jobs] /\ \A i \in BkJob : bkJob'[i] = NoJob
  BY <1>1, NoJobIs
<1>3. BkTypes'
  BY <1>0, <1>1, <1>2 DEF BkTypes
<1>4. StampInv' /\ DownIdle'
  BY <1>0, <1>1, <1>2, NoJobIs DEF StampInv, Backed, DownIdle
<1>5. (Named => SelfInv)'
  <2>1. Named' => Named /\ \A j \in BkJob : bkJob[j].st # "identity"
    BY <1>1 DEF Named, Left
  <2> QED BY <1>1, <1>2, <2>1, NoJobIs DEF BkInv, SelfInv
<1>6. (Fresh => ConnInv)'
  <2>1. Fresh' => Fresh /\ \A j \in BkJob : bkJob[j].st \notin {"identity", "state"}
    BY <1>1 DEF Fresh, Left
  <2> QED BY <1>1, <1>2, <2>1, NoJobIs DEF BkInv, ConnInv, Accounted
<1> QED BY <1>3, <1>4, <1>5, <1>6 DEF BkInv

LEMMA BkStep == BkInv /\ [BkNext]_bkVars => BkInv'
<1> SUFFICES ASSUME BkInv, [BkNext]_bkVars PROVE BkInv'
  OBVIOUS
<1>0. BkTypes
  BY DEF BkInv
<1>1. CASE BkTurnBegins
  BY <1>0, <1>1, WorkspaceKeeps, BkBounds DEF BkTurnBegins, Ticks, BkTypes
<1>2. CASE BkTurnEnds
  <2>1. bkSaved' \in bkTraces /\ bkSaved' \in 0..BkMaxNow
    BY <1>0, <1>2 DEF BkTurnEnds, BkTypes
  <2> QED BY <1>0, <1>2, <2>1, WorkspaceKeeps DEF BkTurnEnds, BkTypes
<1>3. ASSUME NEW j \in BkJob,
             \/ ExportAsked(j) \/ ExportFiles(j) \/ ExportManifest(j) \/ ExportTraces(j)
             \/ UploadDone(j) \/ UploadFails(j)
      PROVE  BkInv'
  BY <1>3, AskedKeeps, FilesKeeps, ManifestKeeps, TracesKeeps, UploadDoneKeeps, UploadFailsKeeps
<1>4. ASSUME NEW j \in BkJob,
             \/ RestoreAsked(j) \/ DownloadFails(j) \/ RestoreKeeps(j) \/ RestoreExtracts(j)
             \/ RestoreIdentity(j) \/ RestoreState(j) \/ RestoreTraces(j)
      PROVE  BkInv'
  BY <1>4, RestoreAskedKeeps, DownloadFailsKeeps, KeepsKeeps, ExtractsKeeps, IdentityKeeps,
     StateKeeps, PutBackKeeps
<1>5. CASE ExportConfig
  BY <1>0, <1>5, WorkspaceKeeps DEF ExportConfig, Stays, BkTypes
<1>6. CASE LoopKilled
  BY <1>6, KilledKeeps
<1>7. CASE LoopStarts
  BY <1>7, StartsKeeps
<1>8. CASE SettingsBreak
  BY <1>0, <1>8, WorkspaceKeeps DEF SettingsBreak, BkTypes
<1>9. CASE UNCHANGED bkVars
  BY <1>0, <1>9, WorkspaceKeeps DEF bkVars, BkTypes
<1> QED BY <1>1, <1>2, <1>3, <1>4, <1>5, <1>6, <1>7, <1>8, <1>9 DEF BkNext

\* Through exports, uploads and restores in any order, with as many requests as
\* there may be, the agent keeps its identity, an archive holds the session it
\* calls connected and names no agent, and a stamp speaks of an archive the
\* office has; but for what a restore left undone and for sessions that could
\* not be, or are never, collected (agentBackup/).
THEOREM BackupCorrect == BkSpec => []BackupHolds
<1>1. BkInit => BkInv
  BY BkStarts
<1>2. BkInv /\ [BkNext]_bkVars => BkInv'
  BY BkStep
<1>3. BkInv => BackupHolds
  BY BkInvHolds
<1> QED BY <1>1, <1>2, <1>3, PTL DEF BkSpec
=============================================================================
