-------------------------- MODULE TaskDeliveryProofs --------------------------
(***************************************************************************)
(* Proofs about TaskDelivery for every set of tasks and delivery ids and   *)
(* every value of the bounds, and about the other work that reaches the    *)
(* loop in MCTaskDelivery: the verify gate, instant steers and the inbound *)
(* pollers, for every number of tasks, steers, messages and faults.        *)
(***************************************************************************)
EXTENDS MCTaskDelivery, FiniteSetTheorems, SequenceTheorems,
        WellFoundedInduction, TLAPS

\* The list of delivery ids stays finite, which its bound needs.
TypeInv == TypeOK /\ IsFiniteSet(seen)

\* Remembering one more id keeps the list within its bound
\* (WebSocketPoller._markSeenDelivery).
LEMMA RememberedBound ==
    ASSUME NEW S, IsFiniteSet(S), Cardinality(S) <= MaxSeen,
           NEW d, NEW R \in Remembered(S, d)
    PROVE  IsFiniteSet(R) /\ Cardinality(R) <= MaxSeen /\ R \subseteq S \cup {d}
<1>1. /\ IsFiniteSet(S \cup {d})
      /\ Cardinality(S \cup {d}) \in Nat
      /\ Cardinality(S) \in Nat
      /\ Cardinality(S \cup {d}) <= Cardinality(S) + 1
  <2>1. Cardinality(S) \in Nat
    BY FS_CardinalityType
  <2>2. /\ IsFiniteSet(S \cup {d})
        /\ \/ Cardinality(S \cup {d}) = Cardinality(S)
           \/ Cardinality(S \cup {d}) = Cardinality(S) + 1
    BY FS_AddElement
  <2> QED
    BY <2>1, <2>2
<1>2. CASE Cardinality(S \cup {d}) <= MaxSeen
  BY <1>1, <1>2 DEF Remembered
<1>3. CASE ~(Cardinality(S \cup {d}) <= MaxSeen)
  <2>1. PICK e \in S \ {d} : R = (S \cup {d}) \ {e}
    BY <1>3 DEF Remembered
  <2>2. IsFiniteSet(R) /\ Cardinality(R) = Cardinality(S \cup {d}) - 1
    BY <1>1, <2>1, FS_RemoveElement
  <2>3. MaxSeen \in Nat
    BY DeliveryAssumption
  <2> QED
    BY <1>1, <2>1, <2>2, <2>3
<1> QED
  BY <1>2, <1>3

\* A tick keeps every count below the threshold (TodoTaskVerifier.tick).
LEMMA TickType ==
    ASSUME TypeInv, Tick
    PROVE  TypeInv'
<1> USE DeliveryAssumption DEF TypeInv, TypeOK, Marks, NoTurn, Untracked
<1>1. tracked' \in [Task -> Untracked..(ConfirmTicks - 1)]
  <2> SUFFICES ASSUME NEW t \in Task
               PROVE  (IF t \in Settled \/ tracked[t] = Untracked THEN Untracked
                       ELSE IF t \in Missing THEN 0
                       ELSE tracked[t] + 1) \in Untracked..(ConfirmTicks - 1)
    BY DEF Tick
  <2>1. CASE t \in Settled \/ tracked[t] = Untracked
    BY <2>1
  <2>2. CASE ~(t \in Settled \/ tracked[t] = Untracked) /\ t \notin Missing
    <3>1. todo[t] = "open" /\ tracked[t] >= 0 /\ tracked[t] + 1 < ConfirmTicks
      BY <2>2 DEF Settled, Confirmed, Missing, IsTracked
    <3> QED
      BY <2>2, <3>1
  <2> QED
    BY <2>1, <2>2
<1>2. age' \in NoTurn..Window
  BY DEF Tick
<1>3. todo' \in [Task -> Marks]
  BY DEF Tick, Appended
<1>4. delivered' \subseteq Task /\ faults' \in 0..MaxFaults
  BY DEF Tick, Acks, Settled, Confirmed, IsTracked
<1>5. rested' = "yes" /\ UNCHANGED <<view, seen, inflight, finished, link, restarted>>
  BY DEF Tick
<1> QED
  BY <1>1, <1>2, <1>3, <1>4, <1>5

\* A delivery keeps the types, whichever of its three outcomes it has
\* (WebSocketPoller._onFrame).
LEMMA ReceiveType ==
    ASSUME TypeInv, NEW t \in Task, NEW k \in Delivery, Receive(t, k)
    PROVE  TypeInv'
<1> USE DeliveryAssumption DEF TypeInv, TypeOK, Marks, NoTurn, Untracked
<1>1. inflight' \subseteq Task \X Delivery /\ UNCHANGED <<agent, rested, link, restarted>>
  BY DEF Receive
<1>2. CASE Replayed(t, k)
  BY <1>1, <1>2 DEF Replayed, Acks, file, agent
<1>3. CASE Appends(t, k)
  <2>1. /\ IsFiniteSet(seen') /\ Cardinality(seen') <= MaxSeen
        /\ seen' \subseteq seen \cup {<<t, k>>}
    BY <1>3, RememberedBound DEF Appends
  <2>2. todo' \in [Task -> Marks]
    BY <1>3 DEF Appends, Appended
  <2>3. tracked' \in [Task -> Untracked..(ConfirmTicks - 1)]
    BY <1>3 DEF Appends, Track
  <2> QED
    BY <1>1, <1>3, <2>1, <2>2, <2>3 DEF Appends, agent
<1>4. CASE AppendFails(t, k)
  BY <1>1, <1>4 DEF AppendFails, file, agent
<1> QED
  BY <1>2, <1>3, <1>4 DEF Receive

\* The empty list of delivery ids is finite and within its bound.
LEMMA InitType == Init => TypeInv
<1> SUFFICES ASSUME Init PROVE TypeInv
  OBVIOUS
<1>1. IsFiniteSet({}) /\ Cardinality({}) = 0
  BY FS_EmptySet
<1> QED
  BY <1>1, DeliveryAssumption
  DEF Init, TypeInv, TypeOK, Marks, Nothing, NoTurn, Untracked

\* Every step keeps the types and the bound on the delivery ids.
LEMMA TypeStep ==
    ASSUME TypeInv, [Next]_vars
    PROVE  TypeInv'
<1> USE DeliveryAssumption DEF TypeInv, TypeOK, Marks, NoTurn, Untracked
<1>1. ASSUME NEW t \in Task, Finish(t) PROVE TypeInv'
  BY <1>1 DEF Finish, agent
<1>2. ASSUME NEW t \in Task, Push(t) PROVE TypeInv'
  BY <1>2 DEF Push, agent, file
<1>3. CASE Prune
  BY <1>3 DEF Prune, Pruned, agent
<1>4. CASE AgentReads
  BY <1>4 DEF AgentReads, file
<1>5. CASE AgentWrites
  <2>1. todo' \in [Task -> Marks] /\ finished' \subseteq Task
    BY <1>5 DEF AgentWrites
  <2> QED
    BY <1>5, <2>1 DEF AgentWrites, Nothing
<1>6. CASE LinkDown
  BY <1>6 DEF LinkDown, file, agent
<1>7. CASE LinkUp
  BY <1>7 DEF LinkUp, file, agent
<1>8. CASE Restart
  BY <1>8 DEF Restart, file, agent
<1>9. CASE UNCHANGED vars
  BY <1>9 DEF vars
<1> QED
  BY <1>1, <1>2, <1>3, <1>4, <1>5, <1>6, <1>7, <1>8, <1>9, TickType, ReceiveType DEF Next

\* Every reachable state has the types and bounds of TypeOK: the office link,
\* the verifier's counts and the bounded list of delivery ids.
THEOREM TypeCorrect == Spec => []TypeOK
<1>1. TypeInv => TypeOK
  BY DEF TypeInv
<1> QED
  BY <1>1, InitType, TypeStep, PTL DEF Spec
-----------------------------------------------------------------------------
(* The acknowledgement.  A line is safe from the agent when the copy it may
   still write back has the line too. *)

Safe(t) ==
    \/ t \in finished
    \/ todo[t] # "absent" /\ (age # NoTurn => view[t] # "absent")

\* A completed line is a finished task, in the file and in the agent's copy.
DoneIsFinished ==
    \A t \in Task : todo[t] = "done" \/ view[t] = "done" => t \in finished

\* The verifier has given the task up, or the office has.
LetGo(t) ==
    \/ t \in delivered
    \/ tracked[t] = Untracked /\ \E k \in Delivery : <<t, k>> \in seen

LetGoIsSafe == \A t \in Task : LetGo(t) => Safe(t)

\* A count does not outrun the turn of an agent whose copy lacks the line, and
\* a count left over from before a rewrite is reset before the next turn.
CountIsFresh ==
    \A t \in Task :
        t \in finished \/ tracked[t] <= 0 \/
            /\ age # NoTurn /\ view[t] = "absent" => tracked[t] <= age
            /\ todo[t] = "absent" => rested = "no"

KeptInv ==
    /\ TypeOK
    /\ DoneIsFinished
    /\ restarted = "no" => LetGoIsSafe /\ CountIsFresh

\* Only a rewrite by the agent and a tick have more to show than that nothing
\* gets absent, unsafe or let go.
LEMMA Undisturbed ==
    ASSUME KeptInv, TypeOK',
           UNCHANGED <<view, age, rested, restarted>>,
           finished \subseteq finished',
           \A t \in Task : todo'[t] = "absent" => todo[t] = "absent" \/ t \in finished',
           \A t \in Task : todo'[t] = "done" => t \in finished',
           \A t \in Task : tracked'[t] <= 0 \/ tracked'[t] = tracked[t],
           restarted = "no" => \A t \in Task : LetGo(t)' => LetGo(t) \/ Safe(t)'
    PROVE  KeptInv'
<1>1. DoneIsFinished'
  BY DEF KeptInv, DoneIsFinished
<1>2. ASSUME restarted = "no" PROVE CountIsFresh'
  BY <1>2 DEF KeptInv, CountIsFresh
<1>3. ASSUME restarted = "no", NEW t \in Task, Safe(t) PROVE Safe(t)'
  BY <1>3 DEF Safe
<1>4. ASSUME restarted = "no" PROVE LetGoIsSafe'
  BY <1>3, <1>4 DEF KeptInv, LetGoIsSafe
<1> QED
  BY <1>1, <1>2, <1>4 DEF KeptInv

\* What changes neither TODO.md, nor the agent, nor the verifier.
LEMMA Quiet ==
    ASSUME KeptInv, TypeOK',
           UNCHANGED <<todo, finished, view, age, rested, restarted, tracked, seen, delivered>>
    PROVE  KeptInv'
<1>1. \A t \in Task : todo'[t] = "done" => t \in finished'
  BY DEF KeptInv, DoneIsFinished
<1>2. \A t \in Task : LetGo(t)' => LetGo(t)
  BY DEF LetGo
<1> QED
  BY <1>1, <1>2, Undisturbed

\* A delivery lets go of a task only by acknowledging again one that the
\* verifier no longer tracks (WebSocketPoller._onFrame).
LEMMA ReceiveKept ==
    ASSUME KeptInv, TypeInv, TypeInv', NEW t \in Task, NEW k \in Delivery, Receive(t, k)
    PROVE  KeptInv'
<1> USE DEF TypeInv
<1>1. CASE Replayed(t, k)
  <2>1. \A u \in Task : LetGo(u)' => LetGo(u)
    <3>1. delivered' = delivered \/ (delivered' = delivered \cup {t} /\ tracked[t] = Untracked)
      BY <1>1 DEF Replayed, Reack, Acks
    <3>2. <<t, k>> \in seen /\ UNCHANGED <<tracked, seen>>
      BY <1>1 DEF Replayed
    <3> QED
      BY <3>1, <3>2 DEF LetGo
  <2>2. UNCHANGED <<todo, finished, tracked, view, age, rested, restarted>>
    BY <1>1 DEF Replayed, Receive, file, agent
  <2>3. \A u \in Task : todo'[u] = "done" => u \in finished'
    BY <2>2 DEF KeptInv, DoneIsFinished
  <2> QED
    BY <2>1, <2>2, <2>3, Undisturbed
<1>2. CASE Appends(t, k)
  <2>1. seen' \subseteq seen \cup {<<t, k>>}
    BY <1>2, RememberedBound DEF Appends, TypeOK
  <2>2. tracked'[t] # Untracked /\ \A u \in Task : u # t => tracked'[u] = tracked[u]
    BY <1>2, DeliveryAssumption DEF Appends, Track, TypeOK, Untracked
  <2>3. \A u \in Task : LetGo(u)' => LetGo(u)
    BY <1>2, <2>1, <2>2 DEF LetGo, Appends
  <2>4. UNCHANGED <<finished, view, age, rested, restarted>>
    BY <1>2 DEF Appends, Receive, agent
  <2>5. \A u \in Task : todo'[u] = todo[u] \/ todo'[u] = "open"
    BY <1>2 DEF Appends, Appended
  <2>6. \A u \in Task : todo'[u] = "done" => u \in finished'
    BY <2>4, <2>5 DEF KeptInv, DoneIsFinished
  <2>7. \A u \in Task : tracked'[u] <= 0 \/ tracked'[u] = tracked[u]
    BY <1>2 DEF Appends, Track, TypeOK, Untracked
  <2> QED
    BY <2>3, <2>4, <2>5, <2>6, <2>7, Undisturbed
<1>3. CASE AppendFails(t, k)
  <2>1. UNCHANGED <<todo, finished, tracked, seen, delivered, view, age, rested, restarted>>
    BY <1>3 DEF AppendFails, Receive, file, agent
  <2>2. \A u \in Task : todo'[u] = "done" => u \in finished'
    BY <2>1 DEF KeptInv, DoneIsFinished
  <2>3. \A u \in Task : LetGo(u)' => LetGo(u)
    BY <2>1 DEF LetGo
  <2> QED
    BY <2>1, <2>2, <2>3, Undisturbed
<1> QED
  BY <1>1, <1>2, <1>3 DEF Receive

\* A rewrite by the agent takes away only what is absent from its copy, and
\* what was let go is in every copy that is still held.
LEMMA AgentWritesKept ==
    ASSUME KeptInv, TypeInv, TypeInv', AgentWrites
    PROVE  KeptInv'
<1> USE DEF TypeInv
<1>1. /\ UNCHANGED <<tracked, seen, delivered, restarted>>
      /\ rested' = "no" /\ age' = NoTurn /\ age # NoTurn
      /\ \A t \in Task : view'[t] = "absent"
  BY DEF AgentWrites, Nothing
<1>2. /\ finished \subseteq finished'
      /\ \A t \in Task : todo'[t] = view[t] \/ (todo'[t] = "done" /\ t \in finished')
  BY DEF AgentWrites
<1>3. DoneIsFinished'
  BY <1>1, <1>2 DEF KeptInv, DoneIsFinished
<1>4. ASSUME restarted = "no" PROVE LetGoIsSafe'
  <2>1. \A t \in Task : LetGo(t)' => LetGo(t)
    BY <1>1 DEF LetGo
  <2>2. \A t \in Task : Safe(t) => Safe(t)'
    BY <1>1, <1>2 DEF Safe
  <2> QED
    BY <1>4, <2>1, <2>2 DEF KeptInv, LetGoIsSafe
<1>5. CountIsFresh'
  BY <1>1 DEF CountIsFresh
<1> QED
  BY <1>1, <1>3, <1>4, <1>5 DEF KeptInv

\* A new copy contains what TODO.md contains.
LEMMA AgentReadsKept ==
    ASSUME KeptInv, TypeInv, TypeInv', AgentReads
    PROVE  KeptInv'
<1> USE DEF TypeInv
<1>1. /\ UNCHANGED <<todo, finished, tracked, seen, delivered, rested, restarted>>
      /\ rested = "yes" /\ view' = todo /\ age' = 0
  BY DEF AgentReads, file
<1>2. DoneIsFinished'
  BY <1>1 DEF KeptInv, DoneIsFinished
<1>3. ASSUME restarted = "no" PROVE LetGoIsSafe'
  BY <1>1, <1>3 DEF KeptInv, LetGoIsSafe, LetGo, Safe
<1>4. ASSUME restarted = "no" PROVE CountIsFresh'
  BY <1>1, <1>4 DEF KeptInv, CountIsFresh
<1> QED
  BY <1>1, <1>2, <1>3, <1>4 DEF KeptInv

\* What a tick acknowledges is safe: a count that reaches the threshold is
\* longer than the turn of any agent that could take the line away.
LEMMA TickKept ==
    ASSUME Window < ConfirmTicks, KeptInv, TypeInv, TypeInv', Tick
    PROVE  KeptInv'
<1> USE DeliveryAssumption DEF TypeInv
<1>1. /\ UNCHANGED <<view, seen, finished, restarted>>
      /\ rested' = "yes"
      /\ age < Window
      /\ age = NoTurn => age' = NoTurn
      /\ age # NoTurn => age' = age + 1
  BY DEF Tick
<1>2. \A t \in Task : todo'[t] = todo[t] \/ (todo[t] = "absent" /\ todo'[t] = "open")
  BY DEF Tick, Appended
<1>3. delivered' \subseteq delivered \cup Settled
  BY DEF Tick, Acks
<1>4. \A t \in Task :
        /\ t \in Settled \/ tracked[t] = Untracked => tracked'[t] = Untracked
        /\ t \in Missing /\ ~(t \in Settled \/ tracked[t] = Untracked) => tracked'[t] = 0
        /\ ~(t \in Settled \/ tracked[t] = Untracked \/ t \in Missing)
             => tracked'[t] = tracked[t] + 1
  BY DEF Tick
<1>5. DoneIsFinished'
  BY <1>1, <1>2 DEF KeptInv, DoneIsFinished
<1>6. ASSUME restarted = "no" PROVE LetGoIsSafe'
  <2>1. ASSUME NEW t \in Task, t \in Settled PROVE Safe(t)
    <3>1. CASE todo[t] = "done"
      BY <3>1 DEF KeptInv, DoneIsFinished, Safe
    <3>2. CASE todo[t] # "done" /\ t \notin finished /\ age # NoTurn /\ view[t] = "absent"
      <4>1. todo[t] = "open" /\ tracked[t] # Untracked /\ tracked[t] + 1 >= ConfirmTicks
        BY <2>1, <3>2 DEF Settled, Confirmed, IsTracked
      <4>2. /\ tracked[t] \in Int /\ tracked[t] >= 0
            /\ age \in Int /\ age >= 0 /\ age < Window
        BY <1>1, <3>2, <4>1 DEF TypeOK, Untracked, NoTurn
      <4>3. tracked[t] <= 0 \/ tracked[t] <= age
        BY <1>6, <3>2 DEF KeptInv, CountIsFresh
      <4> QED
        BY <4>1, <4>2, <4>3
    <3>3. CASE todo[t] # "done" /\ ~(t \notin finished /\ age # NoTurn /\ view[t] = "absent")
      BY <2>1, <3>3 DEF Settled, Confirmed, IsTracked, Safe
    <3> QED
      BY <3>1, <3>2, <3>3
  <2>2. ASSUME NEW t \in Task, LetGo(t)' PROVE LetGo(t) \/ t \in Settled
    <3>1. CASE t \in delivered'
      BY <1>3, <3>1 DEF LetGo
    <3>2. CASE t \notin delivered' /\ t \notin Settled
      <4>1. tracked'[t] = Untracked /\ \E k \in Delivery : <<t, k>> \in seen
        BY <1>1, <2>2, <3>2 DEF LetGo
      <4>2. tracked[t] \in Int /\ tracked[t] >= Untracked
        BY DEF TypeOK, Untracked
      <4>3. tracked[t] = Untracked
        BY <1>4, <3>2, <4>1, <4>2 DEF Untracked
      <4> QED
        BY <4>1, <4>3 DEF LetGo
    <3> QED
      BY <3>1, <3>2
  <2>3. ASSUME NEW t \in Task, Safe(t) PROVE Safe(t)'
    BY <1>1, <1>2, <2>3 DEF Safe
  <2> QED
    BY <1>6, <2>1, <2>2, <2>3 DEF KeptInv, LetGoIsSafe
<1>7. ASSUME restarted = "no" PROVE CountIsFresh'
  <2>0. \A t \in Task : tracked'[t] \in Int
    BY DEF TypeOK, Untracked
  <2> SUFFICES ASSUME NEW t \in Task, t \notin finished, tracked'[t] > 0
               PROVE  /\ age' # NoTurn /\ view'[t] = "absent" => tracked'[t] <= age'
                      /\ todo'[t] # "absent"
    BY <1>1, <2>0 DEF CountIsFresh
  <2>1. ~(t \in Settled \/ tracked[t] = Untracked \/ t \in Missing) /\ tracked'[t] = tracked[t] + 1
    BY <1>4 DEF Untracked
  <2>2. todo[t] # "absent"
    BY <2>1 DEF Missing, IsTracked
  <2>3. tracked[t] \in Int /\ tracked[t] >= 0 /\ age \in Int /\ (age # NoTurn => age >= 0)
    BY <2>1 DEF TypeOK, Untracked, NoTurn
  <2>4. age # NoTurn /\ view[t] = "absent" => tracked[t] <= age
    BY <1>7, <2>3 DEF KeptInv, CountIsFresh
  <2> QED
    BY <1>1, <1>2, <2>1, <2>2, <2>3, <2>4 DEF NoTurn
<1> QED
  BY <1>1, <1>5, <1>6, <1>7 DEF KeptInv

\* The acknowledgement of a task means that it stays: for every number of tasks
\* and delivery ids, every threshold and every sequence of lost links, failed
\* writes and lost acknowledgements, as long as the agent's rewrites are shorter
\* than the threshold and the CLI is not restarted (TodoTaskVerifier.tick,
\* WebSocketPoller._onFrame).
THEOREM AckedKept ==
    ASSUME Window < ConfirmTicks
    PROVE  Spec => []AckedIsKept
<1> DEFINE Inv == TypeInv /\ KeptInv
<1>1. Init => Inv
  <2> SUFFICES ASSUME Init PROVE Inv
    OBVIOUS
  <2>1. TypeInv
    BY InitType
  <2>2. DoneIsFinished
    BY DEF Init, DoneIsFinished, Nothing
  <2>3. LetGoIsSafe
    BY DEF Init, LetGoIsSafe, LetGo
  <2>4. CountIsFresh
    BY DEF Init, CountIsFresh, Untracked
  <2> QED
    BY <2>1, <2>2, <2>3, <2>4 DEF TypeInv, KeptInv
<1>2. Inv /\ [Next]_vars => Inv'
  <2> SUFFICES ASSUME TypeInv, KeptInv, [Next]_vars PROVE Inv'
    OBVIOUS
  <2> USE DEF TypeInv
  <2>0. TypeInv'
    BY TypeStep
  <2>1. ASSUME NEW t \in Task, Finish(t) PROVE KeptInv'
    <3>1. /\ UNCHANGED <<view, age, rested, restarted, tracked, seen, delivered>>
          /\ finished' = finished \cup {t}
          /\ \A u \in Task : todo'[u] = todo[u] \/ (u = t /\ todo'[u] = "done")
      BY <2>1 DEF Finish, agent, TypeOK
    <3>2. \A u \in Task : todo'[u] = "done" => u \in finished'
      BY <3>1 DEF KeptInv, DoneIsFinished
    <3>3. \A u \in Task : LetGo(u)' => LetGo(u)
      BY <3>1 DEF LetGo
    <3> QED
      BY <2>0, <3>1, <3>2, <3>3, Undisturbed
  <2>2. ASSUME NEW t \in Task, Push(t) PROVE KeptInv'
    <3>1. UNCHANGED <<todo, finished, view, age, rested, restarted, tracked, seen, delivered>>
      BY <2>2 DEF Push, file, agent
    <3> QED
      BY <2>0, <3>1, Quiet
  <2>3. CASE Prune
    <3>1. /\ UNCHANGED <<finished, view, age, rested, restarted, tracked, seen, delivered>>
          /\ \A u \in Task : todo'[u] = IF todo[u] = "done" THEN "absent" ELSE todo[u]
      BY <2>3 DEF Prune, Pruned, agent
    <3>2. /\ \A u \in Task : todo'[u] = "absent" => todo[u] = "absent" \/ u \in finished'
          /\ \A u \in Task : todo'[u] = "done" => u \in finished'
      BY <3>1 DEF KeptInv, DoneIsFinished
    <3>3. \A u \in Task : LetGo(u)' => LetGo(u)
      BY <3>1 DEF LetGo
    <3> QED
      BY <2>0, <3>1, <3>2, <3>3, Undisturbed
  <2>4. CASE AgentReads
    BY <2>0, <2>4, AgentReadsKept
  <2>5. CASE AgentWrites
    BY <2>0, <2>5, AgentWritesKept
  <2>6. CASE LinkDown
    <3>1. UNCHANGED <<todo, finished, view, age, rested, restarted, tracked, seen, delivered>>
      BY <2>6 DEF LinkDown, file, agent
    <3> QED
      BY <2>0, <3>1, Quiet
  <2>7. CASE LinkUp
    <3>1. UNCHANGED <<todo, finished, view, age, rested, restarted, tracked, seen, delivered>>
      BY <2>7 DEF LinkUp, file, agent
    <3> QED
      BY <2>0, <3>1, Quiet
  <2>8. CASE Tick
    BY <2>0, <2>8, TickKept
  <2>9. CASE Restart
    <3>1. restarted' = "yes" /\ UNCHANGED <<todo, finished, view>>
      BY <2>9 DEF Restart, file, agent
    <3> QED
      BY <2>0, <3>1 DEF KeptInv, DoneIsFinished
  <2>10. ASSUME NEW t \in Task, NEW k \in Delivery, Receive(t, k) PROVE KeptInv'
    BY <2>0, <2>10, ReceiveKept
  <2>11. CASE UNCHANGED vars
    <3>1. UNCHANGED <<todo, finished, view, age, rested, restarted, tracked, seen, delivered>>
      BY <2>11 DEF vars
    <3> QED
      BY <2>0, <3>1, Quiet
  <2> QED
    BY <2>0, <2>1, <2>2, <2>3, <2>4, <2>5, <2>6, <2>7, <2>8, <2>9, <2>10, <2>11 DEF Next
<1>3. Inv => AckedIsKept
  BY DEF TypeInv, TypeOK, KeptInv, LetGoIsSafe, LetGo, Safe, AckedIsKept
<1> QED
  BY <1>1, <1>2, <1>3, PTL DEF Spec

(***************************************************************************)
(* The verify gate.                                                        *)
(***************************************************************************)
InHandOfGate == step \in {"turn", "gate"}

\* The task in hand is marked, and the hint is for a task that is open.
GateMarks ==
  /\ cur # 0 <=> InHandOfGate
  /\ step = "turn" => item[cur] = "going"
  /\ step = "gate" => item[cur] = "done"
  /\ hint # 0 => item[hint] = "todo"

\* One task has a snapshot, the one in hand if there is one.
SingleSnapshot == \A t, u \in 1..VgTask : snap[t] # 0 /\ snap[u] # 0 => t = u
HandHasSnapshot == InHandOfGate => snap[cur] # 0

\* What a task did is younger than its snapshot: without one it has done nothing yet, or
\* is over.
NotBegun ==
  \A t \in 1..VgTask : snap[t] = 0 /\ item[t] # "done" =>
    /\ \A c \in work : c.task # t
    /\ \A n \in 1..Len(store) : \A c \in store[n] : c.task # t
SnapshotIsOlder == \A t \in 1..VgTask : snap[t] # 0 => \A c \in store[snap[t]] : c.task # t

\* A task that is not over has no row in the journal.
NoVerdictYet ==
  \A t \in 1..VgTask : item[t] # "done" \/ t = cur => verdict[t] = "none" /\ kept[t] = {}

\* The discarded are not in the tree that a reset brings back, the kept are.
ResetIsSafe ==
  \A t, u \in 1..VgTask : snap[u] # 0 =>
    /\ verdict[t] = "discard" => \A c \in store[snap[u]] : c.task = t => c.on = "file"
    /\ kept[t] \subseteq store[snap[u]]

KeptIsOwn == \A t \in 1..VgTask : \A c \in kept[t] : c.task = t

VgInv ==
  /\ V!VgTypeOK /\ store \in Seq(SUBSET V!Change) /\ GateMarks /\ KeptIsOwn /\ V!ClosedByVerdict
  /\ amiss = {} =>
       /\ SingleSnapshot /\ HandHasSnapshot /\ NotBegun /\ SnapshotIsOlder
       /\ NoVerdictYet /\ ResetIsSafe /\ V!DiscardIsClean /\ V!KeptStays

(***************************************************************************)
(* Instant steers.                                                         *)
(***************************************************************************)
\* What is in memory came from the office.
HeldIsSent ==
  /\ \A s \in IsSteer : isTyping[s] > 0 => s \in isSent
  /\ \A i \in DOMAIN isBuffer : isBuffer[i] \in isSent
  /\ \A i \in DOMAIN isBatch : isBatch[i] \in isSent

\* A steer is acknowledged when it is given, or taken for a replay.
AckedWhy == \A s \in isSeen : s \in isEarly \/ isGiven[s] > 0

\* A steer of the same text was given, or is on its way in memory: I!AckedIsHeld, a text
\* at a time.
HoldsSteer(q, s) == \E i \in DOMAIN q : q[i] = s
Carried(s) == isGiven[s] > 0 \/ isTyping[s] > 0 \/ HoldsSteer(isBuffer, s) \/ HoldsSteer(isBatch, s)
AckedHeld == \A s \in isSeen \ isGone : \E t \in IsSteer : I!Same(s, t) /\ Carried(t)

IsInv == I!IsTypeOK /\ HeldIsSent /\ AckedWhy /\ AckedHeld /\ I!OncePerFrame

(***************************************************************************)
(* The other pollers.                                                      *)
(***************************************************************************)
Msgs == 1..MaxMsg
At(p) == poll[p].at
InMsg(p, m) == poll[p].msg = m
InRest(p, m) == m \in poll[p].rest

\* What each poller's polls do.
Stages == [webhook |-> {"idle", "detail", "append"},
           discord |-> {"idle", "next", "attachment", "append"},
           email |-> {"idle", "next", "append", "flag"}]

Shaped(p) ==
  /\ At(p) \in Stages[source]
  /\ At(p) = "idle" => poll[p].rest = {}
  /\ At(p) \in {"idle", "next"} <=> poll[p].msg = P!None
  /\ source = "webhook" => poll[p].rest = {}
  /\ poll[p].msg \notin poll[p].rest

\* One poll at a time, but in a channel.
Alone == source # "discord" => queue = <<>> /\ \A p, q \in Poll : At(p) # "idle" /\ At(q) # "idle" => p = q

PollShapes ==
  /\ \A p \in Poll : Shaped(p)
  /\ life = "down" => queue = <<>> /\ \A p \in Poll : At(p) = "idle"
  /\ source # "webhook" => patch = {}
  /\ Alone

Held(p, m) == InMsg(p, m) \/ InRest(p, m)
Queued(m) == \E i \in 1..Len(queue) : queue[i] = m
Single(m) == \A i, j \in 1..Len(queue) : queue[i] = m /\ queue[j] = m => i = j

\* All of it is about messages there are.
PollKnows ==
  /\ cursor <= sent
  /\ \A m \in told \cup patch : m <= sent
  /\ \A m \in Msgs : Queued(m) => m <= sent
  /\ \A p \in Poll : \A m \in Msgs : InMsg(p, m) \/ InRest(p, m) => m <= sent
  /\ \A m \in Msgs : m > sent => what[m] = "other" /\ effect[m] = 0

\* Webhook: what lies behind a log that is in hand is marked, what was acknowledged had its
\* effect or met an error, and a log in hand has had none unless a crash came between.
WebGoes ==
  /\ \A p \in Poll : At(p) # "idle" =>
       /\ cursor < poll[p].msg
       /\ \A k \in Msgs : k < poll[p].msg => k \in told
       /\ effect[poll[p].msg] > 0 => "crash" \in trouble[poll[p].msg]
  /\ \A m \in Msgs : (m \in told \cup patch \/ m <= cursor) /\ what[m] # "other" =>
       effect[m] > 0 \/ "error body" \in trouble[m]
  /\ \A m \in Msgs : effect[m] > 0 => m \in told \/ m <= cursor \/ "crash" \in trouble[m]

\* Discord: acted on, or met with a mishap.
Dealt(m) == effect[m] > 0 \/ trouble[m] \cap P!LossOf["discord"] # {}

\* Discord: a poll passes no message that is beyond the cursor, and what is not is in hand,
\* was acted on or met with a mishap.
DiscordPasses ==
  /\ \A p \in Poll : \A m, k \in Msgs : InRest(p, m) /\ cursor < k /\ k < m => InRest(p, k)
  /\ \A p \in Poll : \A m \in Msgs : InMsg(p, m) => m <= cursor
  /\ \A m \in Msgs : Queued(m) => m <= cursor
  /\ \A m \in Msgs : m <= cursor /\ what[m] # "other" =>
       Dealt(m) \/ Queued(m) \/ \E p \in Poll : InMsg(p, m)

\* Discord: a message whose polls did not overlap is at one place at most.
OnePlace(m) ==
  /\ effect[m] <= 1
  /\ effect[m] > 0 => ~Queued(m) /\ \A p \in Poll : ~Held(p, m)
  /\ effect[m] > 0 /\ life = "up" => m <= cursor
  /\ Queued(m) => \A p \in Poll : ~Held(p, m)
  /\ Single(m)
  /\ \A p, q \in Poll : Held(p, m) /\ Held(q, m) => p = q

DiscordOnce == \A m \in Msgs : trouble[m] \cap P!CopyOf["discord"] = {} => OnePlace(m)

\* Mail: of no interest, acted on, or met with a mishap.
MailDealt(m) == what[m] = "other" \/ effect[m] > 0 \/ trouble[m] \cap P!LossOf["email"] # {}
MayCopy(m) == trouble[m] \cap P!CopyOf["email"] # {}
ToFlag(m) == \E p \in Poll : At(p) = "flag" /\ InMsg(p, m)
ToDo(m) == \E p \in Poll : InRest(p, m) \/ (At(p) = "append" /\ InMsg(p, m))

\* Mail: what was flagged, or is about to be, is dealt with; what had its effect is flagged,
\* or about to be, unless a crash or a lost connection came between.
MailGoes ==
  /\ \A m \in Msgs : m \in told \/ ToFlag(m) => MailDealt(m)
  /\ \A m \in Msgs : effect[m] > 0 => m \in told \/ MayCopy(m) \/ ToFlag(m)
  /\ \A m \in Msgs : ToDo(m) => m \notin told /\ (effect[m] > 0 => MayCopy(m))

PollInv ==
  /\ P!TypeOK /\ PollShapes /\ PollKnows /\ P!CopiesComeFrom
  /\ source = "webhook" => WebGoes
  /\ source = "discord" => DiscordPasses /\ DiscordOnce
  /\ source = "email" => MailGoes

-----------------------------------------------------------------------------
\* The bounds, one by one.
LEMMA Bounds ==
    /\ MaxMsg \in Nat /\ MaxCopies \in Nat /\ PollFaults \in Nat
    /\ IsMaxFaults \in Nat /\ IsMaxTurn \in Nat
    /\ VgTask \in Nat /\ VgMaxTries \in Nat /\ VgMaxFaults \in Nat
  BY WorkBounds

\* A set of numbers has a least one.
LEMMA LeastNat ==
    ASSUME NEW S, S \subseteq Nat, S # {}
    PROVE  \E x \in S : \A y \in S : x <= y
<1>1. PICK x \in S : \A y \in S : <<y, x>> \notin OpToRel(<, Nat)
  <2>1. \E x \in S : \A y \in S : ~ (<<y, x>> \in OpToRel(<, Nat))
    BY NatLessThanWellFounded, WFMin
  <2> QED BY <2>1
<1>2. ASSUME NEW y \in S, y < x PROVE FALSE
  <2>1. <<y, x>> \in OpToRel(<, Nat)
    BY <1>2 DEF OpToRel
  <2> QED BY <2>1, <1>1
<1> QED BY <1>2

GateTypes == V!VgTypeOK /\ store \in Seq(SUBSET V!Change)

\* A commit of everything in the tree.
LEMMA CommitLeaves ==
    ASSUME GateTypes, V!Committed
    PROVE  /\ store' \in Seq(SUBSET V!Change) /\ head' \in 1..Len(store') /\ staged' = {}
           /\ Len(store) <= Len(store') /\ Len(store') \in Nat
           /\ \A n \in 1..Len(store) : store'[n] = store[n]
           /\ \A n \in 1..Len(store') : n \in 1..Len(store) \/ store'[n] = work
           /\ store'[head'] = work
<1> USE DEF GateTypes, V!VgTypeOK
<1>0. store \in Seq(SUBSET V!Change) /\ Len(store) \in Nat /\ work \in SUBSET V!Change /\ head \in 1..Len(store)
  OBVIOUS
<1>1. CASE work = V!Tree
  BY <1>0, <1>1 DEF V!Committed, V!Tree
<1>2. CASE work # V!Tree
  <2>1. store' = Append(store, work) /\ head' = Len(store) + 1 /\ staged' = {}
    BY <1>2 DEF V!Committed
  <2>2. /\ store' \in Seq(SUBSET V!Change) /\ Len(store') = Len(store) + 1
        /\ \A n \in 1..Len(store) : store'[n] = store[n]
        /\ store'[Len(store) + 1] = work
    BY <1>0, <2>1
  <2> QED BY <1>0, <2>1, <2>2
<1> QED BY <1>1, <1>2

\* A task picked is one of the open ones, or one left in progress.
LEMMA PickedIs ==
    ASSUME V!Open \cup V!Left # {}
    PROVE  V!Picked \in 1..VgTask /\ item[V!Picked] \in {"todo", "going"}
<1>1. ASSUME NEW S, S \subseteq 1..VgTask, S # {} PROVE V!FirstOf(S) \in S
  <2>1. \E x \in S : \A y \in S : x <= y
    <3>1. S \subseteq Nat
      BY <1>1, Bounds
    <3> QED BY <1>1, <3>1, LeastNat
  <2> QED BY <2>1 DEF V!FirstOf
<1>2. V!Open \subseteq 1..VgTask /\ V!Left \subseteq 1..VgTask
  BY DEF V!Open, V!Left, V!VgTasks
<1>3. V!Picked \in V!Open \/ V!Picked \in V!Left
  BY <1>1, <1>2 DEF V!Picked
<1> QED BY <1>2, <1>3 DEF V!Open, V!Left, V!VgTasks

\* What a discarded task leaves, whatever git does.
Discarded(t) ==
    /\ item' = [item EXCEPT ![t] = "done"] /\ snap' = [snap EXCEPT ![t] = 0]
    /\ verdict' = [verdict EXCEPT ![t] = "discard"] /\ tries' = [tries EXCEPT ![t] = 0]
    /\ hint' = 0 /\ kept' = kept /\ store' = store
    /\ head' \in 1..Len(store) /\ work' \subseteq V!Change /\ staged' \subseteq work'
    /\ amiss \subseteq amiss' /\ amiss' \subseteq {"restart", "git", "entangled"}
    /\ vgFaults' \in 0..VgMaxFaults
    /\ amiss' = {} => \/ snap[t] = 0 /\ head' = head /\ work' = work
                      \/ /\ snap[t] # 0 /\ head' = snap[t]
                         /\ store[snap[t]] \subseteq work'
                         /\ \A c \in work' : c \in store[snap[t]] \/ (c \in work /\ c.on = "file")

LEMMA DiscardLeaves ==
    ASSUME GateTypes, NEW t \in 1..VgTask, V!DiscardAndMoveOn(t)
    PROVE  Discarded(t)
<1> USE DEF GateTypes, V!VgTypeOK, V!VgTasks
<1>0. VgMaxFaults \in Nat /\ Len(store) \in Nat
  BY Bounds
<1>1. V!Revert(t)
  BY DEF V!DiscardAndMoveOn
<1>2. /\ store' = store /\ head' \in 1..Len(store) /\ work' \subseteq V!Change /\ staged' \subseteq work'
      /\ amiss \subseteq amiss' /\ amiss' \subseteq {"restart", "git", "entangled"}
      /\ vgFaults' \in 0..VgMaxFaults
      /\ amiss' = {} => \/ snap[t] = 0 /\ head' = head /\ work' = work
                        \/ /\ snap[t] # 0 /\ head' = snap[t]
                           /\ store[snap[t]] \subseteq work'
                           /\ \A c \in work' : c \in store[snap[t]] \/ (c \in work /\ c.on = "file")
  <2>1. CASE snap[t] # 0 /\ V!ResetHard(snap[t]) /\ UNCHANGED <<amiss, vgFaults>>
    <3>1. /\ head' = snap[t] /\ work' = store[snap[t]] \cup V!Unknown /\ staged' = {}
          /\ store' = store /\ amiss' = amiss /\ vgFaults' = vgFaults
      BY <2>1 DEF V!ResetHard
    <3>2. snap[t] \in 1..Len(store) /\ store[snap[t]] \subseteq V!Change
      BY <2>1, <1>0
    <3>3. V!Unknown \subseteq work /\ \A c \in V!Unknown : c.on = "file"
      BY DEF V!Unknown
    <3> QED BY <2>1, <3>1, <3>2, <3>3, <1>0
  <2>2. CASE snap[t] = 0 /\ UNCHANGED <<store, head, work, staged, amiss, vgFaults>>
    BY <2>2, <1>0
  <2>3. CASE snap[t] # 0 /\ V!Mishap /\ amiss' = amiss \cup {"git"} /\ UNCHANGED <<store, head, work, staged>>
    BY <2>3, <1>0 DEF V!Mishap
  <2> QED BY <1>1, <2>1, <2>2, <2>3 DEF V!Revert
<1> QED BY <1>2 DEF V!DiscardAndMoveOn, V!Journal, Discarded

GateFacts ==
  /\ VgMaxFaults \in Nat /\ VgTask \in Nat /\ VgMaxTries \in Nat /\ Len(store) \in Nat
  /\ item \in [1..VgTask -> {"todo", "going", "blocked", "done"}]
  /\ step \in {"pick", "turn", "gate", "off"} /\ cur \in 0..VgTask /\ tries \in [1..VgTask -> 0..VgMaxTries]
  /\ snap \in [1..VgTask -> 0..Len(store)] /\ hint \in 0..VgTask
  /\ store \in Seq(SUBSET V!Change) /\ \A n \in 1..Len(store) : store[n] \subseteq V!Change
  /\ head \in 1..Len(store) /\ work \subseteq V!Change /\ staged \subseteq work /\ edited \in BOOLEAN
  /\ verdict \in [1..VgTask -> {"none", "keep", "discard"}] /\ kept \in [1..VgTask -> SUBSET V!Change]
  /\ amiss \subseteq {"restart", "git", "entangled"} /\ vgFaults \in 0..VgMaxFaults

LEMMA GateFactsAre == VgInv => GateFacts
<1> SUFFICES ASSUME VgInv PROVE GateFacts
  OBVIOUS
<1>1. VgMaxFaults \in Nat /\ VgTask \in Nat /\ VgMaxTries \in Nat
  BY Bounds
<1>2. V!VgTypeOK /\ store \in Seq(SUBSET V!Change)
  BY DEF VgInv
<1>3. Len(store) \in Nat
  BY <1>2
<1>4. /\ item \in [1..VgTask -> {"todo", "going", "blocked", "done"}]
      /\ step \in {"pick", "turn", "gate", "off"} /\ cur \in 0..VgTask /\ tries \in [1..VgTask -> 0..VgMaxTries]
      /\ snap \in [1..VgTask -> 0..Len(store)] /\ hint \in 0..VgTask /\ edited \in BOOLEAN
      /\ verdict \in [1..VgTask -> {"none", "keep", "discard"}] /\ kept \in [1..VgTask -> SUBSET V!Change]
  BY <1>2 DEF V!VgTypeOK, V!VgTasks
<1>5. /\ \A n \in 1..Len(store) : store[n] \subseteq V!Change
      /\ head \in 1..Len(store) /\ work \subseteq V!Change /\ staged \subseteq work
      /\ amiss \subseteq {"restart", "git", "entangled"} /\ vgFaults \in 0..VgMaxFaults
  BY <1>2 DEF V!VgTypeOK, V!VgTasks
<1> QED BY <1>1, <1>2, <1>3, <1>4, <1>5 DEF GateFacts

\* The attempts are used up.
LEMMA ExhaustedKeeps ==
    ASSUME VgInv, V!Exhausted
    PROVE  VgInv'
<1>0. GateFacts /\ VgInv
  BY GateFactsAre
<1>t. GateFacts
  BY <1>0
<1>a. /\ V!Picked \in 1..VgTask /\ item[V!Picked] \in {"todo", "going"} /\ V!DiscardAndMoveOn(V!Picked)
      /\ step = "pick" /\ step' = step /\ cur' = cur /\ edited' = edited
  BY <1>0, PickedIs DEF GateFacts, V!Exhausted
<1>1. PICK t \in 1..VgTask : Discarded(t) /\ item[t] \in {"todo", "going"}
  BY <1>0, <1>a, DiscardLeaves DEF GateFacts, VgInv, GateTypes
<1>2. \A u \in 1..VgTask : /\ u # t => item'[u] = item[u] /\ snap'[u] = snap[u] /\ verdict'[u] = verdict[u]
                           /\ u = t => item'[u] = "done" /\ snap'[u] = 0 /\ verdict'[u] = "discard"
  BY <1>0, <1>1 DEF GateFacts, Discarded
<1>3. cur = 0 /\ cur' = 0
  BY <1>0, <1>a DEF GateFacts, VgInv, GateMarks, InHandOfGate
<1>5. /\ store' = store /\ head' \in 1..Len(store) /\ work' \subseteq V!Change /\ staged' \subseteq work'
      /\ amiss \subseteq amiss' /\ amiss' \subseteq {"restart", "git", "entangled"}
      /\ vgFaults' \in 0..VgMaxFaults /\ hint' = 0 /\ kept' = kept
      /\ item' \in [1..VgTask -> {"todo", "going", "blocked", "done"}] /\ tries' \in [1..VgTask -> 0..VgMaxTries]
      /\ snap' \in [1..VgTask -> 0..Len(store)] /\ verdict' \in [1..VgTask -> {"none", "keep", "discard"}]
  BY <1>0, <1>1 DEF GateFacts, Discarded
<1>6. amiss' = {} => \/ snap[t] = 0 /\ head' = head /\ work' = work
                     \/ /\ snap[t] # 0 /\ head' = snap[t]
                        /\ store[snap[t]] \subseteq work'
                        /\ \A c \in work' : c \in store[snap[t]] \/ (c \in work /\ c.on = "file")
  BY <1>1 DEF GateFacts, Discarded
<1>s. Len(store) <= Len(store') /\ \A n \in 1..Len(store) : store'[n] = store[n]
  BY <1>t, <1>a, <1>1, <1>2, <1>3, <1>5, <1>6 DEF GateFacts
<1>20. GateTypes'
  <2>1. item' \in [1..VgTask -> {"todo", "going", "blocked", "done"}]
    BY <1>t, <1>a, <1>1, <1>2, <1>3, <1>5, <1>6 DEF GateFacts
  <2>2. step' \in {"pick", "turn", "gate", "off"} /\ edited' \in BOOLEAN
    BY <1>t, <1>a, <1>1, <1>2, <1>3, <1>5, <1>6 DEF GateFacts
  <2>3. cur' \in 0..VgTask /\ hint' \in 0..VgTask
    BY <1>t, <1>a, <1>1, <1>2, <1>3, <1>5, <1>6 DEF GateFacts
  <2>4. tries' \in [1..VgTask -> 0..VgMaxTries]
    BY <1>t, <1>a, <1>1, <1>2, <1>3, <1>5, <1>6 DEF GateFacts
  <2>5. snap' \in [1..VgTask -> 0..Len(store')]
    BY <1>t, <1>a, <1>1, <1>2, <1>3, <1>5, <1>6 DEF GateFacts
  <2>6. store' \in Seq(SUBSET V!Change) /\ \A n \in 1..Len(store') : store'[n] \subseteq V!Change
    BY <1>t, <1>a, <1>1, <1>2, <1>3, <1>5, <1>6 DEF GateFacts
  <2>7. head' \in 1..Len(store')
    BY <1>t, <1>a, <1>1, <1>2, <1>3, <1>5, <1>6 DEF GateFacts
  <2>8. work' \subseteq V!Change /\ staged' \subseteq work'
    BY <1>t, <1>a, <1>1, <1>2, <1>3, <1>5, <1>6 DEF GateFacts
  <2>9. verdict' \in [1..VgTask -> {"none", "keep", "discard"}]
    BY <1>t, <1>a, <1>1, <1>2, <1>3, <1>5, <1>6 DEF GateFacts
  <2>10. kept' \in [1..VgTask -> SUBSET V!Change]
    BY <1>t, <1>a, <1>1, <1>2, <1>3, <1>5, <1>6 DEF GateFacts
  <2>11. amiss' \subseteq {"restart", "git", "entangled"} /\ vgFaults' \in 0..VgMaxFaults
    BY <1>t, <1>a, <1>1, <1>2, <1>3, <1>5, <1>6 DEF GateFacts
  <2> QED BY <2>1, <2>2, <2>3, <2>4, <2>5, <2>6, <2>7, <2>8, <2>9, <2>10, <2>11 DEF GateTypes, V!VgTypeOK, V!VgTasks
<1>m. GateMarks /\ KeptIsOwn /\ V!ClosedByVerdict
  BY <1>0 DEF VgInv
<1>21. GateMarks'
  BY <1>t, <1>m, <1>a, <1>1, <1>2, <1>3, <1>5, <1>6 DEF GateFacts, GateMarks, InHandOfGate
<1>22. KeptIsOwn'
  BY <1>t, <1>m, <1>a, <1>1, <1>2, <1>3, <1>5, <1>6 DEF GateFacts, KeptIsOwn
<1>23. V!ClosedByVerdict'
  BY <1>t, <1>m, <1>a, <1>1, <1>2, <1>3, <1>5, <1>6 DEF GateFacts, V!ClosedByVerdict, V!VgTasks, GateMarks, InHandOfGate
<1>c. ASSUME amiss' = {}
      PROVE  /\ SingleSnapshot' /\ HandHasSnapshot' /\ NotBegun' /\ SnapshotIsOlder'
             /\ NoVerdictYet' /\ ResetIsSafe' /\ V!DiscardIsClean' /\ V!KeptStays'
  <2>0. amiss = {}
    BY <1>c, <1>a, <1>1, <1>2, <1>3, <1>5, <1>6
  <2>i. /\ SingleSnapshot /\ HandHasSnapshot /\ NotBegun /\ SnapshotIsOlder
        /\ NoVerdictYet /\ ResetIsSafe /\ V!DiscardIsClean /\ V!KeptStays
    BY <1>0, <2>0 DEF VgInv
  <2>1. SingleSnapshot'
    BY <1>1, <1>2, <2>i DEF SingleSnapshot
  <2>2. HandHasSnapshot'
    BY <1>t, <1>m, <1>c, <2>0, <2>i, <1>a, <1>1, <1>2, <1>3, <1>5, <1>6 DEF GateFacts, HandHasSnapshot, InHandOfGate, GateMarks, SingleSnapshot
  <2>3. NotBegun'
    <3> SUFFICES ASSUME NEW u \in 1..VgTask, snap'[u] = 0, item'[u] # "done"
                 PROVE  /\ \A c \in work' : c.task # u
                        /\ \A n \in 1..Len(store') : \A c \in store'[n] : c.task # u
      BY DEF NotBegun
    <3>a. snap[u] = 0
      BY <1>t, <1>c, <2>i, <1>a, <1>1, <1>2, <1>3, <1>5, <1>6 DEF GateFacts
    <3>b. u # cur
      BY <1>t, <1>m, <1>c, <2>i, <3>a, <1>a, <1>1, <1>2, <1>3, <1>5, <1>6 DEF HandHasSnapshot, InHandOfGate, GateMarks
    <3>1. snap[u] = 0 /\ item[u] # "done" /\ u # cur
      BY <1>t, <1>c, <3>a, <3>b, <1>a, <1>1, <1>2, <1>3, <1>5, <1>6 DEF GateFacts
    <3>2. (\A c \in work : c.task # u) /\ \A n \in 1..Len(store) : \A c \in store[n] : c.task # u
      BY <2>i, <3>1 DEF NotBegun
    <3>3. \A c \in work' : c.task # u
      <4> SUFFICES ASSUME NEW c \in work' PROVE c.task # u
        OBVIOUS
      <4>1. CASE c \in work
        BY <3>2, <4>1
      <4>2. CASE c \notin work
        <5>1. snap[t] # 0 /\ c \in store[snap[t]]
          BY <1>c, <1>6, <4>2
        <5>2. snap[t] \in 1..Len(store)
          BY <1>t, <5>1 DEF GateFacts
        <5> QED BY <3>2, <5>1, <5>2
      <4> QED BY <4>1, <4>2
    <3>4. ASSUME NEW n \in 1..Len(store') PROVE \A c \in store'[n] : c.task # u
      <4>1. store'[n] = work \/ (n \in 1..Len(store) /\ store'[n] = store[n])
        BY <1>t, <1>c, <1>s, <1>a, <1>1, <1>2, <1>3, <1>5, <1>6 DEF GateFacts
      <4> QED BY <3>2, <4>1
    <3> QED BY <3>3, <3>4
  <2>4. SnapshotIsOlder'
    <3> SUFFICES ASSUME NEW u \in 1..VgTask, snap'[u] # 0 PROVE \A c \in store'[snap'[u]] : c.task # u
      BY DEF SnapshotIsOlder
    <3>1. \/ snap'[u] = snap[u]
          \/ snap[u] = 0 /\ snap'[u] = head /\ item[u] # "done" /\ store' = store
      BY <1>t, <1>c, <1>a, <1>1, <1>2, <1>3, <1>5, <1>6 DEF GateFacts
    <3>2. CASE snap'[u] = snap[u]
      <4>1. snap[u] \in 1..Len(store)
        BY <1>t, <3>2 DEF GateFacts
      <4>2. store'[snap[u]] = store[snap[u]]
        BY <1>s, <4>1
      <4> QED BY <2>i, <3>2, <4>2 DEF SnapshotIsOlder
    <3>3. CASE snap[u] = 0 /\ snap'[u] = head /\ item[u] # "done" /\ store' = store
      <4>1. head \in 1..Len(store)
        BY <1>t DEF GateFacts
      <4> QED BY <2>i, <3>3, <4>1 DEF NotBegun
    <3> QED BY <3>1, <3>2, <3>3
  <2>5. NoVerdictYet'
    <3> SUFFICES ASSUME NEW u \in 1..VgTask, item'[u] # "done" \/ u = cur'
                 PROVE  verdict'[u] = "none" /\ kept'[u] = {}
      BY DEF NoVerdictYet
    <3>1. cur' = 0 /\ u # 0
      BY <1>t, <1>a, <1>1, <1>2, <1>3, <1>5, <1>6 DEF GateFacts
    <3>2. u # t
      BY <1>2, <3>1
    <3>3. item[u] # "done" /\ verdict'[u] = verdict[u] /\ kept'[u] = kept[u]
      BY <1>2, <1>5, <3>1, <3>2
    <3> QED BY <2>i, <3>3 DEF NoVerdictYet
  <2>6. ResetIsSafe'
    <3> SUFFICES ASSUME NEW v \in 1..VgTask, NEW u \in 1..VgTask, snap'[u] # 0
                 PROVE  /\ verdict'[v] = "discard" => \A c \in store[snap[u]] : c.task = v => c.on = "file"
                        /\ kept[v] \subseteq store[snap[u]]
      BY <1>2, <1>5 DEF ResetIsSafe
    <3>1. u # t /\ snap[u] # 0
      BY <1>2
    <3>2. kept[v] \subseteq store[snap[u]] /\ snap[u] \in 1..Len(store)
      <4>1. kept[v] \subseteq store[snap[u]]
        BY <2>i, <3>1 DEF ResetIsSafe
      <4>2. snap \in [1..VgTask -> 0..Len(store)] /\ Len(store) \in Nat
        BY <1>t DEF GateFacts
      <4>3. snap[u] \in 0..Len(store)
        BY <4>2
      <4> QED BY <3>1, <4>1, <4>2, <4>3
    <3>3. CASE v = t
      <4>1. snap[t] = 0
        BY <2>i, <3>1 DEF SingleSnapshot
      <4>2. item[t] # "done"
        BY <2>i, <4>1, <1>a, <1>1, <1>2, <1>3, <1>5, <1>6 DEF HandHasSnapshot, InHandOfGate
      <4> QED BY <2>i, <3>2, <3>3, <4>1, <4>2 DEF NotBegun
    <3>4. CASE v # t
      BY <1>2, <2>i, <3>1, <3>2, <3>4 DEF ResetIsSafe
    <3> QED BY <3>3, <3>4
  <2>7. V!DiscardIsClean'
    <3> SUFFICES ASSUME NEW u \in 1..VgTask, verdict'[u] = "discard", NEW c \in work' \cup store'[head'], c.task = u
                 PROVE  c.on = "file"
      BY DEF V!DiscardIsClean, V!Tree, V!VgTasks
    <3>1. snap[t] = 0 => item[t] # "done"
      BY <1>t, <1>m, <2>i, <1>a, <1>1, <1>2, <1>3, <1>5, <1>6 DEF GateFacts, HandHasSnapshot, InHandOfGate
    <3>2. u # t => verdict[u] = "discard"
      BY <1>2
    <3>3. CASE snap[t] = 0 /\ head' = head /\ work' = work
      <4>1. c \in work \cup store[head] /\ head \in 1..Len(store)
        BY <1>t, <1>5, <3>3 DEF GateFacts
      <4>2. CASE u = t
        BY <2>i, <3>1, <3>3, <4>1, <4>2 DEF NotBegun
      <4>3. CASE u # t
        BY <2>0, <2>i, <3>2, <4>1, <4>3 DEF V!DiscardIsClean, V!Tree, V!VgTasks
      <4> QED BY <4>2, <4>3
    <3>4. CASE /\ snap[t] # 0 /\ head' = snap[t]
               /\ \A d \in work' : d \in store[snap[t]] \/ (d \in work /\ d.on = "file")
      <4>1. c \in store[snap[t]] \/ c.on = "file"
        BY <1>5, <3>4
      <4>2. CASE u = t /\ c \in store[snap[t]]
        BY <2>i, <3>4, <4>2 DEF SnapshotIsOlder
      <4>3. CASE u # t /\ c \in store[snap[t]]
        BY <2>i, <3>2, <3>4, <4>3 DEF ResetIsSafe
      <4> QED BY <4>1, <4>2, <4>3
    <3> QED BY <1>c, <1>6, <3>3, <3>4
  <2>8. V!KeptStays'
    BY <1>t, <1>m, <1>c, <2>0, <2>i, <1>a, <1>1, <1>2, <1>3, <1>5, <1>6 DEF GateFacts, V!KeptStays, KeptIsOwn, NoVerdictYet, ResetIsSafe, V!Tree, V!VgTasks
  <2> QED BY <2>1, <2>2, <2>3, <2>4, <2>5, <2>6, <2>7, <2>8
<1> QED BY <1>20, <1>21, <1>22, <1>23, <1>c DEF VgInv, GateTypes

\* Over budget, or a guarded file was touched.
LEMMA GateDiscardsKeeps ==
    ASSUME VgInv, V!GateDiscards \/ V!OverBudget
    PROVE  VgInv'
<1>0. GateFacts /\ VgInv
  BY GateFactsAre
<1>t. GateFacts
  BY <1>0
<1>a. /\ cur \in 1..VgTask /\ V!DiscardAndMoveOn(cur) /\ step = "gate" /\ item[cur] = "done"
      /\ step' = "pick" /\ cur' = 0 /\ edited' = edited
  BY <1>0 DEF GateFacts, VgInv, V!GateDiscards, V!OverBudget, V!GateCloses, GateMarks, InHandOfGate
<1>1. PICK t \in 1..VgTask : Discarded(t) /\ t = cur
  BY <1>0, <1>a, DiscardLeaves DEF GateFacts, VgInv, GateTypes
<1>2. \A u \in 1..VgTask : /\ u # t => item'[u] = item[u] /\ snap'[u] = snap[u] /\ verdict'[u] = verdict[u]
                           /\ u = t => item'[u] = "done" /\ snap'[u] = 0 /\ verdict'[u] = "discard"
  BY <1>0, <1>1 DEF GateFacts, Discarded
<1>5. /\ store' = store /\ head' \in 1..Len(store) /\ work' \subseteq V!Change /\ staged' \subseteq work'
      /\ amiss \subseteq amiss' /\ amiss' \subseteq {"restart", "git", "entangled"}
      /\ vgFaults' \in 0..VgMaxFaults /\ hint' = 0 /\ kept' = kept
      /\ item' \in [1..VgTask -> {"todo", "going", "blocked", "done"}] /\ tries' \in [1..VgTask -> 0..VgMaxTries]
      /\ snap' \in [1..VgTask -> 0..Len(store)] /\ verdict' \in [1..VgTask -> {"none", "keep", "discard"}]
  BY <1>0, <1>1 DEF GateFacts, Discarded
<1>6. amiss' = {} => \/ snap[t] = 0 /\ head' = head /\ work' = work
                     \/ /\ snap[t] # 0 /\ head' = snap[t]
                        /\ store[snap[t]] \subseteq work'
                        /\ \A c \in work' : c \in store[snap[t]] \/ (c \in work /\ c.on = "file")
  BY <1>1 DEF GateFacts, Discarded
<1>s. Len(store) <= Len(store') /\ \A n \in 1..Len(store) : store'[n] = store[n]
  BY <1>t, <1>a, <1>1, <1>2, <1>5, <1>6 DEF GateFacts
<1>20. GateTypes'
  <2>1. item' \in [1..VgTask -> {"todo", "going", "blocked", "done"}]
    BY <1>t, <1>a, <1>1, <1>2, <1>5, <1>6 DEF GateFacts
  <2>2. step' \in {"pick", "turn", "gate", "off"} /\ edited' \in BOOLEAN
    BY <1>t, <1>a, <1>1, <1>2, <1>5, <1>6 DEF GateFacts
  <2>3. cur' \in 0..VgTask /\ hint' \in 0..VgTask
    BY <1>t, <1>a, <1>1, <1>2, <1>5, <1>6 DEF GateFacts
  <2>4. tries' \in [1..VgTask -> 0..VgMaxTries]
    BY <1>t, <1>a, <1>1, <1>2, <1>5, <1>6 DEF GateFacts
  <2>5. snap' \in [1..VgTask -> 0..Len(store')]
    BY <1>t, <1>a, <1>1, <1>2, <1>5, <1>6 DEF GateFacts
  <2>6. store' \in Seq(SUBSET V!Change) /\ \A n \in 1..Len(store') : store'[n] \subseteq V!Change
    BY <1>t, <1>a, <1>1, <1>2, <1>5, <1>6 DEF GateFacts
  <2>7. head' \in 1..Len(store')
    BY <1>t, <1>a, <1>1, <1>2, <1>5, <1>6 DEF GateFacts
  <2>8. work' \subseteq V!Change /\ staged' \subseteq work'
    BY <1>t, <1>a, <1>1, <1>2, <1>5, <1>6 DEF GateFacts
  <2>9. verdict' \in [1..VgTask -> {"none", "keep", "discard"}]
    BY <1>t, <1>a, <1>1, <1>2, <1>5, <1>6 DEF GateFacts
  <2>10. kept' \in [1..VgTask -> SUBSET V!Change]
    BY <1>t, <1>a, <1>1, <1>2, <1>5, <1>6 DEF GateFacts
  <2>11. amiss' \subseteq {"restart", "git", "entangled"} /\ vgFaults' \in 0..VgMaxFaults
    BY <1>t, <1>a, <1>1, <1>2, <1>5, <1>6 DEF GateFacts
  <2> QED BY <2>1, <2>2, <2>3, <2>4, <2>5, <2>6, <2>7, <2>8, <2>9, <2>10, <2>11 DEF GateTypes, V!VgTypeOK, V!VgTasks
<1>m. GateMarks /\ KeptIsOwn /\ V!ClosedByVerdict
  BY <1>0 DEF VgInv
<1>21. GateMarks'
  BY <1>t, <1>m, <1>a, <1>1, <1>2, <1>5, <1>6 DEF GateFacts, GateMarks, InHandOfGate
<1>22. KeptIsOwn'
  BY <1>t, <1>m, <1>a, <1>1, <1>2, <1>5, <1>6 DEF GateFacts, KeptIsOwn
<1>23. V!ClosedByVerdict'
  BY <1>t, <1>m, <1>a, <1>1, <1>2, <1>5, <1>6 DEF GateFacts, V!ClosedByVerdict, V!VgTasks, GateMarks, InHandOfGate
<1>c. ASSUME amiss' = {}
      PROVE  /\ SingleSnapshot' /\ HandHasSnapshot' /\ NotBegun' /\ SnapshotIsOlder'
             /\ NoVerdictYet' /\ ResetIsSafe' /\ V!DiscardIsClean' /\ V!KeptStays'
  <2>0. amiss = {}
    BY <1>c, <1>a, <1>1, <1>2, <1>5, <1>6
  <2>i. /\ SingleSnapshot /\ HandHasSnapshot /\ NotBegun /\ SnapshotIsOlder
        /\ NoVerdictYet /\ ResetIsSafe /\ V!DiscardIsClean /\ V!KeptStays
    BY <1>0, <2>0 DEF VgInv
  <2>1. SingleSnapshot'
    BY <1>t, <1>m, <1>c, <2>0, <2>i, <1>a, <1>1, <1>2, <1>5, <1>6 DEF GateFacts, SingleSnapshot
  <2>2. HandHasSnapshot'
    BY <1>t, <1>m, <1>c, <2>0, <2>i, <1>a, <1>1, <1>2, <1>5, <1>6 DEF GateFacts, HandHasSnapshot, InHandOfGate, GateMarks, SingleSnapshot
  <2>3. NotBegun'
    <3> SUFFICES ASSUME NEW u \in 1..VgTask, snap'[u] = 0, item'[u] # "done"
                 PROVE  /\ \A c \in work' : c.task # u
                        /\ \A n \in 1..Len(store') : \A c \in store'[n] : c.task # u
      BY DEF NotBegun
    <3>a. snap[u] = 0
      BY <1>t, <1>c, <2>i, <1>a, <1>1, <1>2, <1>5, <1>6 DEF GateFacts
    <3>b. u # cur
      BY <1>t, <1>m, <1>c, <2>i, <3>a, <1>a, <1>1, <1>2, <1>5, <1>6 DEF HandHasSnapshot, InHandOfGate, GateMarks
    <3>1. snap[u] = 0 /\ item[u] # "done" /\ u # cur
      BY <1>t, <1>c, <3>a, <3>b, <1>a, <1>1, <1>2, <1>5, <1>6 DEF GateFacts
    <3>2. (\A c \in work : c.task # u) /\ \A n \in 1..Len(store) : \A c \in store[n] : c.task # u
      BY <2>i, <3>1 DEF NotBegun
    <3>3. \A c \in work' : c.task # u
      <4> SUFFICES ASSUME NEW c \in work' PROVE c.task # u
        OBVIOUS
      <4>1. CASE c \in work
        BY <3>2, <4>1
      <4>2. CASE c \notin work
        <5>1. snap[t] # 0 /\ c \in store[snap[t]]
          BY <1>c, <1>6, <4>2
        <5>2. snap[t] \in 1..Len(store)
          BY <1>t, <5>1 DEF GateFacts
        <5> QED BY <3>2, <5>1, <5>2
      <4> QED BY <4>1, <4>2
    <3>4. ASSUME NEW n \in 1..Len(store') PROVE \A c \in store'[n] : c.task # u
      <4>1. store'[n] = work \/ (n \in 1..Len(store) /\ store'[n] = store[n])
        BY <1>t, <1>c, <1>s, <1>a, <1>1, <1>2, <1>5, <1>6 DEF GateFacts
      <4> QED BY <3>2, <4>1
    <3> QED BY <3>3, <3>4
  <2>4. SnapshotIsOlder'
    <3> SUFFICES ASSUME NEW u \in 1..VgTask, snap'[u] # 0 PROVE \A c \in store'[snap'[u]] : c.task # u
      BY DEF SnapshotIsOlder
    <3>1. \/ snap'[u] = snap[u]
          \/ snap[u] = 0 /\ snap'[u] = head /\ item[u] # "done" /\ store' = store
      BY <1>t, <1>c, <1>a, <1>1, <1>2, <1>5, <1>6 DEF GateFacts
    <3>2. CASE snap'[u] = snap[u]
      <4>1. snap[u] \in 1..Len(store)
        BY <1>t, <3>2 DEF GateFacts
      <4>2. store'[snap[u]] = store[snap[u]]
        BY <1>s, <4>1
      <4> QED BY <2>i, <3>2, <4>2 DEF SnapshotIsOlder
    <3>3. CASE snap[u] = 0 /\ snap'[u] = head /\ item[u] # "done" /\ store' = store
      <4>1. head \in 1..Len(store)
        BY <1>t DEF GateFacts
      <4> QED BY <2>i, <3>3, <4>1 DEF NotBegun
    <3> QED BY <3>1, <3>2, <3>3
  <2>5. NoVerdictYet'
    <3> SUFFICES ASSUME NEW u \in 1..VgTask, item'[u] # "done" \/ u = cur'
                 PROVE  verdict'[u] = "none" /\ kept'[u] = {}
      BY DEF NoVerdictYet
    <3>1. cur' = 0 /\ u # 0
      BY <1>t, <1>a, <1>1, <1>2, <1>5, <1>6 DEF GateFacts
    <3>2. u # t
      BY <1>2, <3>1
    <3>3. item[u] # "done" /\ verdict'[u] = verdict[u] /\ kept'[u] = kept[u]
      BY <1>2, <1>5, <3>1, <3>2
    <3> QED BY <2>i, <3>3 DEF NoVerdictYet
  <2>6. ResetIsSafe'
    <3> SUFFICES ASSUME NEW v \in 1..VgTask, NEW u \in 1..VgTask, snap'[u] # 0
                 PROVE  /\ verdict'[v] = "discard" => \A c \in store[snap[u]] : c.task = v => c.on = "file"
                        /\ kept[v] \subseteq store[snap[u]]
      BY <1>2, <1>5 DEF ResetIsSafe
    <3>1. u # t /\ snap[u] # 0
      BY <1>2
    <3>2. kept[v] \subseteq store[snap[u]] /\ snap[u] \in 1..Len(store)
      <4>1. kept[v] \subseteq store[snap[u]]
        BY <2>i, <3>1 DEF ResetIsSafe
      <4>2. snap \in [1..VgTask -> 0..Len(store)] /\ Len(store) \in Nat
        BY <1>t DEF GateFacts
      <4>3. snap[u] \in 0..Len(store)
        BY <4>2
      <4> QED BY <3>1, <4>1, <4>2, <4>3
    <3>3. CASE v = t
      <4>1. snap[t] = 0
        BY <2>i, <3>1 DEF SingleSnapshot
      <4>2. item[t] # "done"
        BY <2>i, <4>1, <1>a, <1>1, <1>2, <1>5, <1>6 DEF HandHasSnapshot, InHandOfGate
      <4> QED BY <2>i, <3>2, <3>3, <4>1, <4>2 DEF NotBegun
    <3>4. CASE v # t
      BY <1>2, <2>i, <3>1, <3>2, <3>4 DEF ResetIsSafe
    <3> QED BY <3>3, <3>4
  <2>7. V!DiscardIsClean'
    <3> SUFFICES ASSUME NEW u \in 1..VgTask, verdict'[u] = "discard", NEW c \in work' \cup store'[head'], c.task = u
                 PROVE  c.on = "file"
      BY DEF V!DiscardIsClean, V!Tree, V!VgTasks
    <3>1. snap[t] = 0 => item[t] # "done"
      BY <1>t, <1>m, <2>i, <1>a, <1>1, <1>2, <1>5, <1>6 DEF GateFacts, HandHasSnapshot, InHandOfGate
    <3>2. u # t => verdict[u] = "discard"
      BY <1>2
    <3>3. CASE snap[t] = 0 /\ head' = head /\ work' = work
      <4>1. c \in work \cup store[head] /\ head \in 1..Len(store)
        BY <1>t, <1>5, <3>3 DEF GateFacts
      <4>2. CASE u = t
        BY <2>i, <3>1, <3>3, <4>1, <4>2 DEF NotBegun
      <4>3. CASE u # t
        BY <2>0, <2>i, <3>2, <4>1, <4>3 DEF V!DiscardIsClean, V!Tree, V!VgTasks
      <4> QED BY <4>2, <4>3
    <3>4. CASE /\ snap[t] # 0 /\ head' = snap[t]
               /\ \A d \in work' : d \in store[snap[t]] \/ (d \in work /\ d.on = "file")
      <4>1. c \in store[snap[t]] \/ c.on = "file"
        BY <1>5, <3>4
      <4>2. CASE u = t /\ c \in store[snap[t]]
        BY <2>i, <3>4, <4>2 DEF SnapshotIsOlder
      <4>3. CASE u # t /\ c \in store[snap[t]]
        BY <2>i, <3>2, <3>4, <4>3 DEF ResetIsSafe
      <4> QED BY <4>1, <4>2, <4>3
    <3> QED BY <1>c, <1>6, <3>3, <3>4
  <2>8. V!KeptStays'
    BY <1>t, <1>m, <1>c, <2>0, <2>i, <1>a, <1>1, <1>2, <1>5, <1>6 DEF GateFacts, V!KeptStays, KeptIsOwn, NoVerdictYet, ResetIsSafe, V!Tree, V!VgTasks
  <2> QED BY <2>1, <2>2, <2>3, <2>4, <2>5, <2>6, <2>7, <2>8
<1> QED BY <1>20, <1>21, <1>22, <1>23, <1>c DEF VgInv, GateTypes

\* A task is dispatched.
LEMMA DispatchKeeps ==
    ASSUME VgInv, V!Dispatch
    PROVE  VgInv'
<1>0. GateFacts /\ VgInv
  BY GateFactsAre
<1>t. GateFacts
  BY <1>0
<1> DEFINE t == V!Picked
<1>1. /\ t \in 1..VgTask /\ item[t] \in {"todo", "going"} /\ step = "pick" /\ tries[t] < VgMaxTries
      /\ step' = "turn" /\ cur' = t /\ tries' = [tries EXCEPT ![t] = tries[t] + 1]
      /\ snap' = V!Snapshot(t) /\ hint' = IF hint = t THEN 0 ELSE hint
      /\ item' = [item EXCEPT ![t] = "going"] /\ edited' = FALSE
      /\ amiss' = IF \E u \in 1..VgTask \ {t} : snap[u] # 0 THEN amiss \cup {"entangled"} ELSE amiss
      /\ UNCHANGED <<store, head, work, staged, verdict, kept, vgFaults>>
  BY <1>0, PickedIs DEF GateFacts, V!Dispatch, V!VgTasks
<1>2. cur = 0
  BY <1>0, <1>1 DEF GateFacts, VgInv, GateMarks, InHandOfGate
<1> HIDE DEF t
<1>3. /\ \A u \in 1..VgTask : u # t => item'[u] = item[u] /\ snap'[u] = snap[u]
      /\ item'[t] = "going" /\ snap'[t] = (IF snap[t] = 0 THEN head ELSE snap[t]) /\ snap'[t] # 0
      /\ snap' \in [1..VgTask -> 0..Len(store)] /\ tries' \in [1..VgTask -> 0..VgMaxTries]
  <2>1. /\ t \in 1..VgTask /\ head # 0 /\ head \in 0..Len(store) /\ VgMaxTries \in Nat /\ tries[t] + 1 \in 0..VgMaxTries
        /\ snap \in [1..VgTask -> 0..Len(store)] /\ tries \in [1..VgTask -> 0..VgMaxTries]
        /\ item \in [1..VgTask -> {"todo", "going", "blocked", "done"}]
    BY <1>0, <1>1 DEF GateFacts
  <2>2. /\ \A u \in 1..VgTask : u # t => item'[u] = item[u]
        /\ item'[t] = "going" /\ tries' \in [1..VgTask -> 0..VgMaxTries]
    BY <1>1, <2>1
  <2>3. CASE snap[t] = 0
    <3>1. snap' = [snap EXCEPT ![t] = head]
      BY <1>1, <2>3 DEF V!Snapshot
    <3> QED BY <2>1, <2>2, <2>3, <3>1
  <2>4. CASE snap[t] # 0
    <3>1. snap' = snap
      BY <1>1, <2>4 DEF V!Snapshot
    <3> QED BY <2>1, <2>2, <2>4, <3>1
  <2> QED BY <2>3, <2>4
<1>4. amiss' = {} => \A u \in 1..VgTask : u # t => snap[u] = 0
  BY <1>1
<1>s. Len(store) <= Len(store') /\ \A n \in 1..Len(store) : store'[n] = store[n]
  BY <1>t, <1>1, <1>2, <1>3, <1>4 DEF GateFacts
<1>20. GateTypes'
  <2>1. item' \in [1..VgTask -> {"todo", "going", "blocked", "done"}]
    BY <1>t, <1>1, <1>2, <1>3, <1>4 DEF GateFacts
  <2>2. step' \in {"pick", "turn", "gate", "off"} /\ edited' \in BOOLEAN
    BY <1>t, <1>1, <1>2, <1>3, <1>4 DEF GateFacts
  <2>3. cur' \in 0..VgTask /\ hint' \in 0..VgTask
    BY <1>t, <1>1, <1>2, <1>3, <1>4 DEF GateFacts
  <2>4. tries' \in [1..VgTask -> 0..VgMaxTries]
    BY <1>t, <1>1, <1>2, <1>3, <1>4 DEF GateFacts
  <2>5. snap' \in [1..VgTask -> 0..Len(store')]
    BY <1>t, <1>1, <1>2, <1>3, <1>4 DEF GateFacts
  <2>6. store' \in Seq(SUBSET V!Change) /\ \A n \in 1..Len(store') : store'[n] \subseteq V!Change
    BY <1>t, <1>1, <1>2, <1>3, <1>4 DEF GateFacts
  <2>7. head' \in 1..Len(store')
    BY <1>t, <1>1, <1>2, <1>3, <1>4 DEF GateFacts
  <2>8. work' \subseteq V!Change /\ staged' \subseteq work'
    BY <1>t, <1>1, <1>2, <1>3, <1>4 DEF GateFacts
  <2>9. verdict' \in [1..VgTask -> {"none", "keep", "discard"}]
    BY <1>t, <1>1, <1>2, <1>3, <1>4 DEF GateFacts
  <2>10. kept' \in [1..VgTask -> SUBSET V!Change]
    BY <1>t, <1>1, <1>2, <1>3, <1>4 DEF GateFacts
  <2>11. amiss' \subseteq {"restart", "git", "entangled"} /\ vgFaults' \in 0..VgMaxFaults
    BY <1>t, <1>1, <1>2, <1>3, <1>4 DEF GateFacts
  <2> QED BY <2>1, <2>2, <2>3, <2>4, <2>5, <2>6, <2>7, <2>8, <2>9, <2>10, <2>11 DEF GateTypes, V!VgTypeOK, V!VgTasks
<1>m. GateMarks /\ KeptIsOwn /\ V!ClosedByVerdict
  BY <1>0 DEF VgInv
<1>21. GateMarks'
  BY <1>t, <1>m, <1>1, <1>2, <1>3, <1>4 DEF GateFacts, GateMarks, InHandOfGate
<1>22. KeptIsOwn'
  BY <1>t, <1>m, <1>1, <1>2, <1>3, <1>4 DEF GateFacts, KeptIsOwn
<1>23. V!ClosedByVerdict'
  BY <1>t, <1>m, <1>1, <1>2, <1>3, <1>4 DEF GateFacts, V!ClosedByVerdict, V!VgTasks, GateMarks, InHandOfGate
<1>c. ASSUME amiss' = {}
      PROVE  /\ SingleSnapshot' /\ HandHasSnapshot' /\ NotBegun' /\ SnapshotIsOlder'
             /\ NoVerdictYet' /\ ResetIsSafe' /\ V!DiscardIsClean' /\ V!KeptStays'
  <2>0. amiss = {}
    BY <1>c, <1>1, <1>2, <1>3, <1>4
  <2>i. /\ SingleSnapshot /\ HandHasSnapshot /\ NotBegun /\ SnapshotIsOlder
        /\ NoVerdictYet /\ ResetIsSafe /\ V!DiscardIsClean /\ V!KeptStays
    BY <1>0, <2>0 DEF VgInv
  <2>1. SingleSnapshot'
    BY <1>t, <1>m, <1>c, <2>0, <2>i, <1>1, <1>2, <1>3, <1>4 DEF GateFacts, SingleSnapshot
  <2>2. HandHasSnapshot'
    BY <1>t, <1>m, <1>c, <2>0, <2>i, <1>1, <1>2, <1>3, <1>4 DEF GateFacts, HandHasSnapshot, InHandOfGate, GateMarks, SingleSnapshot
  <2>3. NotBegun'
    <3> SUFFICES ASSUME NEW u \in 1..VgTask, snap'[u] = 0, item'[u] # "done"
                 PROVE  /\ \A c \in work' : c.task # u
                        /\ \A n \in 1..Len(store') : \A c \in store'[n] : c.task # u
      BY DEF NotBegun
    <3>a. snap[u] = 0
      BY <1>t, <1>c, <2>i, <1>1, <1>2, <1>3, <1>4 DEF GateFacts
    <3>b. u # cur
      BY <1>t, <1>m, <1>c, <2>i, <3>a, <1>1, <1>2, <1>3, <1>4 DEF HandHasSnapshot, InHandOfGate, GateMarks
    <3>1. snap[u] = 0 /\ item[u] # "done" /\ u # cur
      BY <1>t, <1>c, <3>a, <3>b, <1>1, <1>2, <1>3, <1>4 DEF GateFacts
    <3>2. (\A c \in work : c.task # u) /\ \A n \in 1..Len(store) : \A c \in store[n] : c.task # u
      BY <2>i, <3>1 DEF NotBegun
    <3>3. \A c \in work' : c.task # u
      BY <1>t, <1>c, <3>1, <3>2, <1>1, <1>2, <1>3, <1>4 DEF GateFacts
    <3>4. ASSUME NEW n \in 1..Len(store') PROVE \A c \in store'[n] : c.task # u
      <4>1. store'[n] = work \/ (n \in 1..Len(store) /\ store'[n] = store[n])
        BY <1>t, <1>c, <1>s, <1>1, <1>2, <1>3, <1>4 DEF GateFacts
      <4> QED BY <3>2, <4>1
    <3> QED BY <3>3, <3>4
  <2>4. SnapshotIsOlder'
    <3> SUFFICES ASSUME NEW u \in 1..VgTask, snap'[u] # 0 PROVE \A c \in store'[snap'[u]] : c.task # u
      BY DEF SnapshotIsOlder
    <3>1. \/ snap'[u] = snap[u]
          \/ snap[u] = 0 /\ snap'[u] = head /\ item[u] # "done" /\ store' = store
      BY <1>t, <1>c, <1>1, <1>2, <1>3, <1>4 DEF GateFacts
    <3>2. CASE snap'[u] = snap[u]
      <4>1. snap[u] \in 1..Len(store)
        BY <1>t, <3>2 DEF GateFacts
      <4>2. store'[snap[u]] = store[snap[u]]
        BY <1>s, <4>1
      <4> QED BY <2>i, <3>2, <4>2 DEF SnapshotIsOlder
    <3>3. CASE snap[u] = 0 /\ snap'[u] = head /\ item[u] # "done" /\ store' = store
      <4>1. head \in 1..Len(store)
        BY <1>t DEF GateFacts
      <4> QED BY <2>i, <3>3, <4>1 DEF NotBegun
    <3> QED BY <3>1, <3>2, <3>3
  <2>5. NoVerdictYet'
    <3> SUFFICES ASSUME NEW u \in 1..VgTask, item'[u] # "done" \/ u = cur'
                 PROVE  verdict'[u] = "none" /\ kept'[u] = {}
      BY DEF NoVerdictYet
    <3>1. (item[u] # "done" \/ u = cur) /\ verdict'[u] = verdict[u] /\ kept'[u] = kept[u]
      BY <1>t, <1>m, <1>c, <1>1, <1>2, <1>3, <1>4 DEF GateFacts, GateMarks, InHandOfGate
    <3> QED BY <2>i, <3>1 DEF NoVerdictYet
  <2>6. ResetIsSafe'
    <3> SUFFICES ASSUME NEW v \in 1..VgTask, NEW u \in 1..VgTask, snap'[u] # 0
                 PROVE  /\ verdict'[v] = "discard" => \A c \in store'[snap'[u]] : c.task = v => c.on = "file"
                        /\ kept'[v] \subseteq store'[snap'[u]]
      BY DEF ResetIsSafe
    <3>1. /\ \/ snap'[u] = snap[u]
             \/ snap[u] = 0 /\ snap'[u] = head /\ store' = store
          /\ kept'[v] = kept[v] /\ (verdict'[v] = "discard" => verdict[v] = "discard")
      BY <1>t, <1>m, <1>c, <2>i, <1>1, <1>2, <1>3, <1>4 DEF GateFacts, SingleSnapshot, HandHasSnapshot, InHandOfGate, GateMarks
    <3>2. CASE snap'[u] = snap[u]
      <4>1. snap[u] \in 1..Len(store)
        BY <1>t, <3>2 DEF GateFacts
      <4>2. store'[snap[u]] = store[snap[u]]
        BY <1>s, <4>1
      <4> QED BY <2>i, <3>1, <3>2, <4>2 DEF ResetIsSafe
    <3>3. CASE snap[u] = 0 /\ snap'[u] = head /\ store' = store
      <4>1. store'[snap'[u]] = V!Tree
        BY <3>3 DEF V!Tree
      <4>2. verdict'[v] = "discard" => \A c \in V!Tree : c.task = v => c.on = "file"
        BY <2>0, <2>i, <3>1 DEF V!DiscardIsClean, V!VgTasks
      <4>3. kept'[v] \subseteq V!Tree
        BY <2>0, <2>i, <3>1 DEF V!KeptStays, V!VgTasks
      <4> QED BY <4>1, <4>2, <4>3
    <3> QED BY <3>1, <3>2, <3>3
  <2>7. V!DiscardIsClean'
    BY <1>t, <1>m, <1>c, <2>0, <2>i, <1>1, <1>2, <1>3, <1>4 DEF GateFacts, V!DiscardIsClean, NoVerdictYet, ResetIsSafe, SnapshotIsOlder, NotBegun, V!Tree, V!VgTasks
  <2>8. V!KeptStays'
    BY <1>t, <1>m, <1>c, <2>0, <2>i, <1>1, <1>2, <1>3, <1>4 DEF GateFacts, V!KeptStays, KeptIsOwn, NoVerdictYet, ResetIsSafe, V!Tree, V!VgTasks
  <2> QED BY <2>1, <2>2, <2>3, <2>4, <2>5, <2>6, <2>7, <2>8
<1> QED BY <1>20, <1>21, <1>22, <1>23, <1>c DEF VgInv, GateTypes

\* The agent changes something.
LEMMA ChangesKeeps ==
    ASSUME VgInv, V!Changes
    PROVE  VgInv'
<1>0. GateFacts /\ VgInv
  BY GateFactsAre
<1>t. GateFacts
  BY <1>0
<1>1. PICK c \in V!Change : c.task = cur /\ work' = work \cup {c}
  BY <1>0 DEF GateFacts, V!Changes
<1>2. /\ step = "turn" /\ edited' = TRUE /\ cur \in 1..VgTask /\ item[cur] = "going"
      /\ UNCHANGED <<item, step, cur, tries, snap, hint, store, head, staged, verdict, kept, amiss, vgFaults>>
  BY <1>0 DEF GateFacts, VgInv, V!Changes, GateMarks, InHandOfGate
<1>20. GateTypes'
  BY <1>t, <1>1, <1>2 DEF GateFacts, GateTypes, V!VgTypeOK, V!VgTasks
<1>m. GateMarks /\ KeptIsOwn /\ V!ClosedByVerdict
  BY <1>0 DEF VgInv
<1>21. GateMarks'
  BY <1>t, <1>m, <1>1, <1>2 DEF GateFacts, GateMarks, InHandOfGate
<1>22. KeptIsOwn'
  BY <1>t, <1>m, <1>1, <1>2 DEF GateFacts, KeptIsOwn
<1>23. V!ClosedByVerdict'
  BY <1>t, <1>m, <1>1, <1>2 DEF GateFacts, V!ClosedByVerdict, V!VgTasks, GateMarks, InHandOfGate
<1>c. ASSUME amiss' = {}
      PROVE  /\ SingleSnapshot' /\ HandHasSnapshot' /\ NotBegun' /\ SnapshotIsOlder'
             /\ NoVerdictYet' /\ ResetIsSafe' /\ V!DiscardIsClean' /\ V!KeptStays'
  <2>0. amiss = {}
    BY <1>c, <1>1, <1>2
  <2>i. /\ SingleSnapshot /\ HandHasSnapshot /\ NotBegun /\ SnapshotIsOlder
        /\ NoVerdictYet /\ ResetIsSafe /\ V!DiscardIsClean /\ V!KeptStays
    BY <1>0, <2>0 DEF VgInv
  <2>1. SingleSnapshot'
    BY <1>t, <1>m, <1>c, <2>0, <2>i, <1>1, <1>2 DEF GateFacts, SingleSnapshot
  <2>2. HandHasSnapshot'
    BY <1>t, <1>m, <1>c, <2>0, <2>i, <1>1, <1>2 DEF GateFacts, HandHasSnapshot, InHandOfGate, GateMarks, SingleSnapshot
  <2>3. NotBegun'
    BY <1>t, <1>m, <1>c, <2>0, <2>i, <1>1, <1>2 DEF GateFacts, NotBegun, HandHasSnapshot, InHandOfGate, GateMarks
  <2>4. SnapshotIsOlder'
    BY <1>t, <1>m, <1>c, <2>0, <2>i, <1>1, <1>2 DEF GateFacts, SnapshotIsOlder, NotBegun, HandHasSnapshot, InHandOfGate
  <2>5. NoVerdictYet'
    BY <1>t, <1>m, <1>c, <2>0, <2>i, <1>1, <1>2 DEF GateFacts, NoVerdictYet, GateMarks, InHandOfGate
  <2>6. ResetIsSafe'
    BY <1>t, <1>m, <1>c, <2>0, <2>i, <1>1, <1>2 DEF GateFacts, ResetIsSafe, SingleSnapshot, HandHasSnapshot, InHandOfGate, NoVerdictYet, V!DiscardIsClean, V!KeptStays, V!Tree, V!VgTasks
  <2>7. V!DiscardIsClean'
    BY <1>t, <1>m, <1>c, <2>0, <2>i, <1>1, <1>2 DEF GateFacts, V!DiscardIsClean, NoVerdictYet, ResetIsSafe, SnapshotIsOlder, NotBegun, V!Tree, V!VgTasks
  <2>8. V!KeptStays'
    BY <1>t, <1>m, <1>c, <2>0, <2>i, <1>1, <1>2 DEF GateFacts, V!KeptStays, KeptIsOwn, NoVerdictYet, ResetIsSafe, V!Tree, V!VgTasks
  <2> QED BY <2>1, <2>2, <2>3, <2>4, <2>5, <2>6, <2>7, <2>8
<1> QED BY <1>20, <1>21, <1>22, <1>23, <1>c DEF VgInv, GateTypes

\* The agent undoes what it did wrong.
LEMMA RepairsKeeps ==
    ASSUME VgInv, V!Repairs
    PROVE  VgInv'
<1>0. GateFacts /\ VgInv
  BY GateFactsAre
<1>t. GateFacts
  BY <1>0
<1>1. /\ work' \subseteq work /\ staged' \subseteq work'
      /\ \A c \in work : c.task # cur => c \in work'
  BY <1>0 DEF GateFacts, V!Repairs
<1>2. /\ step = "turn" /\ edited' = TRUE /\ cur \in 1..VgTask /\ item[cur] = "going"
      /\ UNCHANGED <<item, step, cur, tries, snap, hint, store, head, verdict, kept, amiss, vgFaults>>
  BY <1>0 DEF GateFacts, VgInv, V!Repairs, GateMarks, InHandOfGate
<1>20. GateTypes'
  BY <1>t, <1>1, <1>2 DEF GateFacts, GateTypes, V!VgTypeOK, V!VgTasks
<1>m. GateMarks /\ KeptIsOwn /\ V!ClosedByVerdict
  BY <1>0 DEF VgInv
<1>21. GateMarks'
  BY <1>t, <1>m, <1>1, <1>2 DEF GateFacts, GateMarks, InHandOfGate
<1>22. KeptIsOwn'
  BY <1>t, <1>m, <1>1, <1>2 DEF GateFacts, KeptIsOwn
<1>23. V!ClosedByVerdict'
  BY <1>t, <1>m, <1>1, <1>2 DEF GateFacts, V!ClosedByVerdict, V!VgTasks, GateMarks, InHandOfGate
<1>c. ASSUME amiss' = {}
      PROVE  /\ SingleSnapshot' /\ HandHasSnapshot' /\ NotBegun' /\ SnapshotIsOlder'
             /\ NoVerdictYet' /\ ResetIsSafe' /\ V!DiscardIsClean' /\ V!KeptStays'
  <2>0. amiss = {}
    BY <1>c, <1>1, <1>2
  <2>i. /\ SingleSnapshot /\ HandHasSnapshot /\ NotBegun /\ SnapshotIsOlder
        /\ NoVerdictYet /\ ResetIsSafe /\ V!DiscardIsClean /\ V!KeptStays
    BY <1>0, <2>0 DEF VgInv
  <2>1. SingleSnapshot'
    BY <1>t, <1>m, <1>c, <2>0, <2>i, <1>1, <1>2 DEF GateFacts, SingleSnapshot
  <2>2. HandHasSnapshot'
    BY <1>t, <1>m, <1>c, <2>0, <2>i, <1>1, <1>2 DEF GateFacts, HandHasSnapshot, InHandOfGate, GateMarks, SingleSnapshot
  <2>3. NotBegun'
    BY <1>t, <1>m, <1>c, <2>0, <2>i, <1>1, <1>2 DEF GateFacts, NotBegun, HandHasSnapshot, InHandOfGate, GateMarks
  <2>4. SnapshotIsOlder'
    BY <1>t, <1>m, <1>c, <2>0, <2>i, <1>1, <1>2 DEF GateFacts, SnapshotIsOlder, NotBegun, HandHasSnapshot, InHandOfGate
  <2>5. NoVerdictYet'
    BY <1>t, <1>m, <1>c, <2>0, <2>i, <1>1, <1>2 DEF GateFacts, NoVerdictYet, GateMarks, InHandOfGate
  <2>6. ResetIsSafe'
    BY <1>t, <1>m, <1>c, <2>0, <2>i, <1>1, <1>2 DEF GateFacts, ResetIsSafe, SingleSnapshot, HandHasSnapshot, InHandOfGate, NoVerdictYet, V!DiscardIsClean, V!KeptStays, V!Tree, V!VgTasks
  <2>7. V!DiscardIsClean'
    BY <1>t, <1>m, <1>c, <2>0, <2>i, <1>1, <1>2 DEF GateFacts, V!DiscardIsClean, NoVerdictYet, ResetIsSafe, SnapshotIsOlder, NotBegun, V!Tree, V!VgTasks
  <2>8. V!KeptStays'
    BY <1>t, <1>m, <1>c, <2>0, <2>i, <1>1, <1>2 DEF GateFacts, V!KeptStays, KeptIsOwn, NoVerdictYet, ResetIsSafe, V!Tree, V!VgTasks
  <2> QED BY <2>1, <2>2, <2>3, <2>4, <2>5, <2>6, <2>7, <2>8
<1> QED BY <1>20, <1>21, <1>22, <1>23, <1>c DEF VgInv, GateTypes

\* The agent commits.
LEMMA AgentCommitsKeeps ==
    ASSUME VgInv, V!AgentCommits
    PROVE  VgInv'
<1>0. GateFacts /\ VgInv
  BY GateFactsAre
<1>t. GateFacts
  BY <1>0
<1>1. /\ store' \in Seq(SUBSET V!Change) /\ head' \in 1..Len(store') /\ staged' = {}
      /\ Len(store) <= Len(store') /\ \A n \in 1..Len(store) : store'[n] = store[n]
      /\ \A n \in 1..Len(store') : n \in 1..Len(store) \/ store'[n] = work
      /\ store'[head'] = work /\ Len(store') \in Nat
  BY <1>0, CommitLeaves DEF GateFacts, VgInv, GateTypes, V!AgentCommits
<1>2. /\ step = "turn" /\ cur \in 1..VgTask /\ item[cur] = "going" /\ vgFaults' \in 0..VgMaxFaults
      /\ UNCHANGED <<item, step, cur, tries, snap, hint, work, edited, verdict, kept, amiss>>
  BY <1>0 DEF GateFacts, VgInv, V!AgentCommits, V!Mishap, GateMarks, InHandOfGate
<1>3. \A n \in 1..Len(store') : store'[n] \subseteq V!Change
  BY <1>1
<1>s. Len(store) <= Len(store') /\ \A n \in 1..Len(store) : store'[n] = store[n]
  BY <1>t, <1>1, <1>2, <1>3 DEF GateFacts
<1>20. GateTypes'
  <2>1. item' \in [1..VgTask -> {"todo", "going", "blocked", "done"}]
    BY <1>t, <1>1, <1>2, <1>3 DEF GateFacts
  <2>2. step' \in {"pick", "turn", "gate", "off"} /\ edited' \in BOOLEAN
    BY <1>t, <1>1, <1>2, <1>3 DEF GateFacts
  <2>3. cur' \in 0..VgTask /\ hint' \in 0..VgTask
    BY <1>t, <1>1, <1>2, <1>3 DEF GateFacts
  <2>4. tries' \in [1..VgTask -> 0..VgMaxTries]
    BY <1>t, <1>1, <1>2, <1>3 DEF GateFacts
  <2>5. snap' \in [1..VgTask -> 0..Len(store')]
    BY <1>t, <1>1, <1>2, <1>3 DEF GateFacts
  <2>6. store' \in Seq(SUBSET V!Change) /\ \A n \in 1..Len(store') : store'[n] \subseteq V!Change
    BY <1>t, <1>1, <1>2, <1>3 DEF GateFacts
  <2>7. head' \in 1..Len(store')
    BY <1>t, <1>1, <1>2, <1>3 DEF GateFacts
  <2>8. work' \subseteq V!Change /\ staged' \subseteq work'
    BY <1>t, <1>1, <1>2, <1>3 DEF GateFacts
  <2>9. verdict' \in [1..VgTask -> {"none", "keep", "discard"}]
    BY <1>t, <1>1, <1>2, <1>3 DEF GateFacts
  <2>10. kept' \in [1..VgTask -> SUBSET V!Change]
    BY <1>t, <1>1, <1>2, <1>3 DEF GateFacts
  <2>11. amiss' \subseteq {"restart", "git", "entangled"} /\ vgFaults' \in 0..VgMaxFaults
    BY <1>t, <1>1, <1>2, <1>3 DEF GateFacts
  <2> QED BY <2>1, <2>2, <2>3, <2>4, <2>5, <2>6, <2>7, <2>8, <2>9, <2>10, <2>11 DEF GateTypes, V!VgTypeOK, V!VgTasks
<1>m. GateMarks /\ KeptIsOwn /\ V!ClosedByVerdict
  BY <1>0 DEF VgInv
<1>21. GateMarks'
  BY <1>t, <1>m, <1>1, <1>2, <1>3 DEF GateFacts, GateMarks, InHandOfGate
<1>22. KeptIsOwn'
  BY <1>t, <1>m, <1>1, <1>2, <1>3 DEF GateFacts, KeptIsOwn
<1>23. V!ClosedByVerdict'
  BY <1>t, <1>m, <1>1, <1>2, <1>3 DEF GateFacts, V!ClosedByVerdict, V!VgTasks, GateMarks, InHandOfGate
<1>c. ASSUME amiss' = {}
      PROVE  /\ SingleSnapshot' /\ HandHasSnapshot' /\ NotBegun' /\ SnapshotIsOlder'
             /\ NoVerdictYet' /\ ResetIsSafe' /\ V!DiscardIsClean' /\ V!KeptStays'
  <2>0. amiss = {}
    BY <1>c, <1>1, <1>2, <1>3
  <2>i. /\ SingleSnapshot /\ HandHasSnapshot /\ NotBegun /\ SnapshotIsOlder
        /\ NoVerdictYet /\ ResetIsSafe /\ V!DiscardIsClean /\ V!KeptStays
    BY <1>0, <2>0 DEF VgInv
  <2>1. SingleSnapshot'
    BY <1>t, <1>m, <1>c, <2>0, <2>i, <1>1, <1>2, <1>3 DEF GateFacts, SingleSnapshot
  <2>2. HandHasSnapshot'
    BY <1>t, <1>m, <1>c, <2>0, <2>i, <1>1, <1>2, <1>3 DEF GateFacts, HandHasSnapshot, InHandOfGate, GateMarks, SingleSnapshot
  <2>3. NotBegun'
    <3> SUFFICES ASSUME NEW u \in 1..VgTask, snap'[u] = 0, item'[u] # "done"
                 PROVE  /\ \A c \in work' : c.task # u
                        /\ \A n \in 1..Len(store') : \A c \in store'[n] : c.task # u
      BY DEF NotBegun
    <3>a. snap[u] = 0
      BY <1>t, <1>c, <2>i, <1>1, <1>2, <1>3 DEF GateFacts
    <3>b. u # cur
      BY <1>t, <1>m, <1>c, <2>i, <3>a, <1>1, <1>2, <1>3 DEF HandHasSnapshot, InHandOfGate, GateMarks
    <3>1. snap[u] = 0 /\ item[u] # "done" /\ u # cur
      BY <1>t, <1>c, <3>a, <3>b, <1>1, <1>2, <1>3 DEF GateFacts
    <3>2. (\A c \in work : c.task # u) /\ \A n \in 1..Len(store) : \A c \in store[n] : c.task # u
      BY <2>i, <3>1 DEF NotBegun
    <3>3. \A c \in work' : c.task # u
      BY <1>t, <1>c, <3>1, <3>2, <1>1, <1>2, <1>3 DEF GateFacts
    <3>4. ASSUME NEW n \in 1..Len(store') PROVE \A c \in store'[n] : c.task # u
      <4>1. store'[n] = work \/ (n \in 1..Len(store) /\ store'[n] = store[n])
        BY <1>t, <1>c, <1>s, <1>1, <1>2, <1>3 DEF GateFacts
      <4> QED BY <3>2, <4>1
    <3> QED BY <3>3, <3>4
  <2>4. SnapshotIsOlder'
    <3> SUFFICES ASSUME NEW u \in 1..VgTask, snap'[u] # 0 PROVE \A c \in store'[snap'[u]] : c.task # u
      BY DEF SnapshotIsOlder
    <3>1. \/ snap'[u] = snap[u]
          \/ snap[u] = 0 /\ snap'[u] = head /\ item[u] # "done" /\ store' = store
      BY <1>t, <1>c, <1>1, <1>2, <1>3 DEF GateFacts
    <3>2. CASE snap'[u] = snap[u]
      <4>1. snap[u] \in 1..Len(store)
        BY <1>t, <3>2 DEF GateFacts
      <4>2. store'[snap[u]] = store[snap[u]]
        BY <1>s, <4>1
      <4> QED BY <2>i, <3>2, <4>2 DEF SnapshotIsOlder
    <3>3. CASE snap[u] = 0 /\ snap'[u] = head /\ item[u] # "done" /\ store' = store
      <4>1. head \in 1..Len(store)
        BY <1>t DEF GateFacts
      <4> QED BY <2>i, <3>3, <4>1 DEF NotBegun
    <3> QED BY <3>1, <3>2, <3>3
  <2>5. NoVerdictYet'
    <3> SUFFICES ASSUME NEW u \in 1..VgTask, item'[u] # "done" \/ u = cur'
                 PROVE  verdict'[u] = "none" /\ kept'[u] = {}
      BY DEF NoVerdictYet
    <3>1. (item[u] # "done" \/ u = cur) /\ verdict'[u] = verdict[u] /\ kept'[u] = kept[u]
      BY <1>t, <1>m, <1>c, <1>1, <1>2, <1>3 DEF GateFacts, GateMarks, InHandOfGate
    <3> QED BY <2>i, <3>1 DEF NoVerdictYet
  <2>6. ResetIsSafe'
    <3> SUFFICES ASSUME NEW v \in 1..VgTask, NEW u \in 1..VgTask, snap'[u] # 0
                 PROVE  /\ verdict'[v] = "discard" => \A c \in store'[snap'[u]] : c.task = v => c.on = "file"
                        /\ kept'[v] \subseteq store'[snap'[u]]
      BY DEF ResetIsSafe
    <3>1. /\ \/ snap'[u] = snap[u]
             \/ snap[u] = 0 /\ snap'[u] = head /\ store' = store
          /\ kept'[v] = kept[v] /\ (verdict'[v] = "discard" => verdict[v] = "discard")
      BY <1>t, <1>m, <1>c, <2>i, <1>1, <1>2, <1>3 DEF GateFacts, SingleSnapshot, HandHasSnapshot, InHandOfGate, GateMarks
    <3>2. CASE snap'[u] = snap[u]
      <4>1. snap[u] \in 1..Len(store)
        BY <1>t, <3>2 DEF GateFacts
      <4>2. store'[snap[u]] = store[snap[u]]
        BY <1>s, <4>1
      <4> QED BY <2>i, <3>1, <3>2, <4>2 DEF ResetIsSafe
    <3>3. CASE snap[u] = 0 /\ snap'[u] = head /\ store' = store
      <4>1. store'[snap'[u]] = V!Tree
        BY <3>3 DEF V!Tree
      <4>2. verdict'[v] = "discard" => \A c \in V!Tree : c.task = v => c.on = "file"
        BY <2>0, <2>i, <3>1 DEF V!DiscardIsClean, V!VgTasks
      <4>3. kept'[v] \subseteq V!Tree
        BY <2>0, <2>i, <3>1 DEF V!KeptStays, V!VgTasks
      <4> QED BY <4>1, <4>2, <4>3
    <3> QED BY <3>1, <3>2, <3>3
  <2>7. V!DiscardIsClean'
    BY <1>t, <1>m, <1>c, <2>0, <2>i, <1>1, <1>2, <1>3 DEF GateFacts, V!DiscardIsClean, NoVerdictYet, ResetIsSafe, SnapshotIsOlder, NotBegun, V!Tree, V!VgTasks
  <2>8. V!KeptStays'
    BY <1>t, <1>m, <1>c, <2>0, <2>i, <1>1, <1>2, <1>3 DEF GateFacts, V!KeptStays, KeptIsOwn, NoVerdictYet, ResetIsSafe, V!Tree, V!VgTasks
  <2> QED BY <2>1, <2>2, <2>3, <2>4, <2>5, <2>6, <2>7, <2>8
<1> QED BY <1>20, <1>21, <1>22, <1>23, <1>c DEF VgInv, GateTypes

\* The agent marks the task done.
LEMMA CompletesKeeps ==
    ASSUME VgInv, V!Completes
    PROVE  VgInv'
<1>0. GateFacts /\ VgInv
  BY GateFactsAre
<1>t. GateFacts
  BY <1>0
<1>1. /\ step = "turn" /\ step' = "gate" /\ cur \in 1..VgTask /\ item[cur] = "going"
      /\ item' = [item EXCEPT ![cur] = "done"]
      /\ UNCHANGED <<cur, tries, snap, hint, store, head, work, staged, edited, verdict, kept, amiss, vgFaults>>
  BY <1>0 DEF GateFacts, VgInv, V!Completes, GateMarks, InHandOfGate
<1>20. GateTypes'
  BY <1>t, <1>1 DEF GateFacts, GateTypes, V!VgTypeOK, V!VgTasks
<1>m. GateMarks /\ KeptIsOwn /\ V!ClosedByVerdict
  BY <1>0 DEF VgInv
<1>21. GateMarks'
  BY <1>t, <1>m, <1>1 DEF GateFacts, GateMarks, InHandOfGate
<1>22. KeptIsOwn'
  BY <1>t, <1>m, <1>1 DEF GateFacts, KeptIsOwn
<1>23. V!ClosedByVerdict'
  BY <1>t, <1>m, <1>1 DEF GateFacts, V!ClosedByVerdict, V!VgTasks, GateMarks, InHandOfGate
<1>c. ASSUME amiss' = {}
      PROVE  /\ SingleSnapshot' /\ HandHasSnapshot' /\ NotBegun' /\ SnapshotIsOlder'
             /\ NoVerdictYet' /\ ResetIsSafe' /\ V!DiscardIsClean' /\ V!KeptStays'
  <2>0. amiss = {}
    BY <1>c, <1>1
  <2>i. /\ SingleSnapshot /\ HandHasSnapshot /\ NotBegun /\ SnapshotIsOlder
        /\ NoVerdictYet /\ ResetIsSafe /\ V!DiscardIsClean /\ V!KeptStays
    BY <1>0, <2>0 DEF VgInv
  <2>1. SingleSnapshot'
    BY <1>t, <1>m, <1>c, <2>0, <2>i, <1>1 DEF GateFacts, SingleSnapshot
  <2>2. HandHasSnapshot'
    BY <1>t, <1>m, <1>c, <2>0, <2>i, <1>1 DEF GateFacts, HandHasSnapshot, InHandOfGate, GateMarks, SingleSnapshot
  <2>3. NotBegun'
    BY <1>t, <1>m, <1>c, <2>0, <2>i, <1>1 DEF GateFacts, NotBegun, HandHasSnapshot, InHandOfGate, GateMarks
  <2>4. SnapshotIsOlder'
    BY <1>t, <1>m, <1>c, <2>0, <2>i, <1>1 DEF GateFacts, SnapshotIsOlder, NotBegun, HandHasSnapshot, InHandOfGate
  <2>5. NoVerdictYet'
    BY <1>t, <1>m, <1>c, <2>0, <2>i, <1>1 DEF GateFacts, NoVerdictYet, GateMarks, InHandOfGate
  <2>6. ResetIsSafe'
    BY <1>t, <1>m, <1>c, <2>0, <2>i, <1>1 DEF GateFacts, ResetIsSafe, SingleSnapshot, HandHasSnapshot, InHandOfGate, NoVerdictYet, V!DiscardIsClean, V!KeptStays, V!Tree, V!VgTasks
  <2>7. V!DiscardIsClean'
    BY <1>t, <1>m, <1>c, <2>0, <2>i, <1>1 DEF GateFacts, V!DiscardIsClean, NoVerdictYet, ResetIsSafe, SnapshotIsOlder, NotBegun, V!Tree, V!VgTasks
  <2>8. V!KeptStays'
    BY <1>t, <1>m, <1>c, <2>0, <2>i, <1>1 DEF GateFacts, V!KeptStays, KeptIsOwn, NoVerdictYet, ResetIsSafe, V!Tree, V!VgTasks
  <2> QED BY <2>1, <2>2, <2>3, <2>4, <2>5, <2>6, <2>7, <2>8
<1> QED BY <1>20, <1>21, <1>22, <1>23, <1>c DEF VgInv, GateTypes

\* A turn fails.
LEMMA TurnFailsKeeps ==
    ASSUME VgInv, V!TurnFails
    PROVE  VgInv'
<1>0. GateFacts /\ VgInv
  BY GateFactsAre
<1>t. GateFacts
  BY <1>0
<1>1. /\ step = "turn" /\ step' = "pick" /\ cur \in 1..VgTask /\ item[cur] = "going" /\ cur' = 0
      /\ vgFaults' \in 0..VgMaxFaults
      /\ UNCHANGED <<snap, hint, store, head, work, staged, edited, verdict, kept, amiss>>
  BY <1>0 DEF GateFacts, VgInv, V!TurnFails, V!Mishap, GateMarks, InHandOfGate
<1>2. PICK s \in {"going", "blocked", "todo"} : /\ item' = [item EXCEPT ![cur] = s]
                                              /\ tries' = IF s = "todo" THEN tries ELSE [tries EXCEPT ![cur] = 0]
  BY <1>0 DEF GateFacts, V!TurnFails
<1>3. tries' \in [1..VgTask -> 0..VgMaxTries]
  <2>1. 0 \in 0..VgMaxTries
    BY <1>t DEF GateFacts, GateFacts
  <2> QED BY <1>t, <1>2, <2>1 DEF GateFacts, GateFacts
<1>20. GateTypes'
  BY <1>t, <1>1, <1>2, <1>3 DEF GateFacts, GateTypes, V!VgTypeOK, V!VgTasks
<1>m. GateMarks /\ KeptIsOwn /\ V!ClosedByVerdict
  BY <1>0 DEF VgInv
<1>21. GateMarks'
  BY <1>t, <1>m, <1>1, <1>2, <1>3 DEF GateFacts, GateMarks, InHandOfGate
<1>22. KeptIsOwn'
  BY <1>t, <1>m, <1>1, <1>2, <1>3 DEF GateFacts, KeptIsOwn
<1>23. V!ClosedByVerdict'
  BY <1>t, <1>m, <1>1, <1>2, <1>3 DEF GateFacts, V!ClosedByVerdict, V!VgTasks, GateMarks, InHandOfGate
<1>c. ASSUME amiss' = {}
      PROVE  /\ SingleSnapshot' /\ HandHasSnapshot' /\ NotBegun' /\ SnapshotIsOlder'
             /\ NoVerdictYet' /\ ResetIsSafe' /\ V!DiscardIsClean' /\ V!KeptStays'
  <2>0. amiss = {}
    BY <1>c, <1>1, <1>2, <1>3
  <2>i. /\ SingleSnapshot /\ HandHasSnapshot /\ NotBegun /\ SnapshotIsOlder
        /\ NoVerdictYet /\ ResetIsSafe /\ V!DiscardIsClean /\ V!KeptStays
    BY <1>0, <2>0 DEF VgInv
  <2>1. SingleSnapshot'
    BY <1>t, <1>m, <1>c, <2>0, <2>i, <1>1, <1>2, <1>3 DEF GateFacts, SingleSnapshot
  <2>2. HandHasSnapshot'
    BY <1>t, <1>m, <1>c, <2>0, <2>i, <1>1, <1>2, <1>3 DEF GateFacts, HandHasSnapshot, InHandOfGate, GateMarks, SingleSnapshot
  <2>3. NotBegun'
    BY <1>t, <1>m, <1>c, <2>0, <2>i, <1>1, <1>2, <1>3 DEF GateFacts, NotBegun, HandHasSnapshot, InHandOfGate, GateMarks
  <2>4. SnapshotIsOlder'
    BY <1>t, <1>m, <1>c, <2>0, <2>i, <1>1, <1>2, <1>3 DEF GateFacts, SnapshotIsOlder, NotBegun, HandHasSnapshot, InHandOfGate
  <2>5. NoVerdictYet'
    BY <1>t, <1>m, <1>c, <2>0, <2>i, <1>1, <1>2, <1>3 DEF GateFacts, NoVerdictYet, GateMarks, InHandOfGate
  <2>6. ResetIsSafe'
    BY <1>t, <1>m, <1>c, <2>0, <2>i, <1>1, <1>2, <1>3 DEF GateFacts, ResetIsSafe, SingleSnapshot, HandHasSnapshot, InHandOfGate, NoVerdictYet, V!DiscardIsClean, V!KeptStays, V!Tree, V!VgTasks
  <2>7. V!DiscardIsClean'
    BY <1>t, <1>m, <1>c, <2>0, <2>i, <1>1, <1>2, <1>3 DEF GateFacts, V!DiscardIsClean, NoVerdictYet, ResetIsSafe, SnapshotIsOlder, NotBegun, V!Tree, V!VgTasks
  <2>8. V!KeptStays'
    BY <1>t, <1>m, <1>c, <2>0, <2>i, <1>1, <1>2, <1>3 DEF GateFacts, V!KeptStays, KeptIsOwn, NoVerdictYet, ResetIsSafe, V!Tree, V!VgTasks
  <2> QED BY <2>1, <2>2, <2>3, <2>4, <2>5, <2>6, <2>7, <2>8
<1> QED BY <1>20, <1>21, <1>22, <1>23, <1>c DEF VgInv, GateTypes

\* The work is kept.
LEMMA GateKeepsKeeps ==
    ASSUME VgInv, V!GateKeeps
    PROVE  VgInv'
<1>0. GateFacts /\ VgInv
  BY GateFactsAre
<1>t. GateFacts
  BY <1>0
<1>1. /\ step = "gate" /\ cur \in 1..VgTask /\ item[cur] = "done" /\ step' = "pick" /\ cur' = 0 /\ edited' = edited
      /\ verdict' = [verdict EXCEPT ![cur] = "keep"] /\ snap' = [snap EXCEPT ![cur] = 0]
      /\ kept' = [kept EXCEPT ![cur] = {c \in work : c.task = cur}]
      /\ tries' = [tries EXCEPT ![cur] = 0] /\ UNCHANGED <<item, hint>>
  BY <1>0 DEF GateFacts, VgInv, V!GateKeeps, V!GateCloses, V!Journal, GateMarks, InHandOfGate
<1>2. /\ store' \in Seq(SUBSET V!Change) /\ head' \in 1..Len(store') /\ staged' \subseteq work' /\ work' = work
      /\ Len(store) <= Len(store') /\ \A n \in 1..Len(store) : store'[n] = store[n]
      /\ \A n \in 1..Len(store') : n \in 1..Len(store) \/ store'[n] = work
      /\ Len(store') \in Nat /\ amiss \subseteq amiss' /\ amiss' \subseteq {"restart", "git", "entangled"}
      /\ vgFaults' \in 0..VgMaxFaults
      /\ amiss' = {} => store'[head'] = work
  <2>1. V!CommitAll
    BY <1>0 DEF GateFacts, V!GateKeeps
  <2>2. CASE V!Committed /\ UNCHANGED <<work, amiss, vgFaults>>
    BY <1>0, <2>2, CommitLeaves DEF GateFacts, VgInv, GateTypes
  <2>3. CASE /\ V!Mishap /\ amiss' = amiss \cup {"git"} /\ UNCHANGED <<store, head, work>>
             /\ staged' = {c \in work : c.on = "file"} \ V!Tree
    BY <2>3, <1>0 DEF GateFacts, V!Mishap
  <2> QED BY <2>1, <2>2, <2>3 DEF GateFacts, V!CommitAll
<1>3. \A n \in 1..Len(store') : store'[n] \subseteq V!Change
  BY <1>2
<1>4. \A u \in 1..VgTask : /\ u # cur => snap'[u] = snap[u] /\ verdict'[u] = verdict[u] /\ kept'[u] = kept[u]
                           /\ u = cur => /\ snap'[u] = 0 /\ verdict'[u] = "keep"
                                         /\ kept'[u] = {c \in work : c.task = cur}
  BY <1>t, <1>1 DEF GateFacts, GateFacts
<1>5. snap' \in [1..VgTask -> 0..Len(store')] /\ kept' \in [1..VgTask -> SUBSET V!Change]
  <2>1. 0..Len(store) \subseteq 0..Len(store') /\ 0 \in 0..Len(store') /\ {c \in work : c.task = cur} \in SUBSET V!Change
    BY <1>t, <1>2 DEF GateFacts, GateFacts
  <2>2. snap \in [1..VgTask -> 0..Len(store')]
    BY <1>t, <2>1 DEF GateFacts, GateFacts
  <2> QED BY <1>t, <1>1, <2>1, <2>2 DEF GateFacts, GateFacts
<1>s. Len(store) <= Len(store') /\ \A n \in 1..Len(store) : store'[n] = store[n]
  BY <1>t, <1>1, <1>2, <1>3, <1>4, <1>5 DEF GateFacts
<1>20. GateTypes'
  <2>1. item' \in [1..VgTask -> {"todo", "going", "blocked", "done"}]
    BY <1>t, <1>1, <1>2, <1>3, <1>4, <1>5 DEF GateFacts
  <2>2. step' \in {"pick", "turn", "gate", "off"} /\ edited' \in BOOLEAN
    BY <1>t, <1>1, <1>2, <1>3, <1>4, <1>5 DEF GateFacts
  <2>3. cur' \in 0..VgTask /\ hint' \in 0..VgTask
    BY <1>t, <1>1, <1>2, <1>3, <1>4, <1>5 DEF GateFacts
  <2>4. tries' \in [1..VgTask -> 0..VgMaxTries]
    BY <1>t, <1>1, <1>2, <1>3, <1>4, <1>5 DEF GateFacts
  <2>5. snap' \in [1..VgTask -> 0..Len(store')]
    BY <1>t, <1>1, <1>2, <1>3, <1>4, <1>5 DEF GateFacts
  <2>6. store' \in Seq(SUBSET V!Change) /\ \A n \in 1..Len(store') : store'[n] \subseteq V!Change
    BY <1>t, <1>1, <1>2, <1>3, <1>4, <1>5 DEF GateFacts
  <2>7. head' \in 1..Len(store')
    BY <1>t, <1>1, <1>2, <1>3, <1>4, <1>5 DEF GateFacts
  <2>8. work' \subseteq V!Change /\ staged' \subseteq work'
    BY <1>t, <1>1, <1>2, <1>3, <1>4, <1>5 DEF GateFacts
  <2>9. verdict' \in [1..VgTask -> {"none", "keep", "discard"}]
    BY <1>t, <1>1, <1>2, <1>3, <1>4, <1>5 DEF GateFacts
  <2>10. kept' \in [1..VgTask -> SUBSET V!Change]
    BY <1>t, <1>1, <1>2, <1>3, <1>4, <1>5 DEF GateFacts
  <2>11. amiss' \subseteq {"restart", "git", "entangled"} /\ vgFaults' \in 0..VgMaxFaults
    BY <1>t, <1>1, <1>2, <1>3, <1>4, <1>5 DEF GateFacts
  <2> QED BY <2>1, <2>2, <2>3, <2>4, <2>5, <2>6, <2>7, <2>8, <2>9, <2>10, <2>11 DEF GateTypes, V!VgTypeOK, V!VgTasks
<1>m. GateMarks /\ KeptIsOwn /\ V!ClosedByVerdict
  BY <1>0 DEF VgInv
<1>21. GateMarks'
  BY <1>t, <1>m, <1>1, <1>2, <1>3, <1>4, <1>5 DEF GateFacts, GateMarks, InHandOfGate
<1>22. KeptIsOwn'
  BY <1>t, <1>m, <1>1, <1>2, <1>3, <1>4, <1>5 DEF GateFacts, KeptIsOwn
<1>23. V!ClosedByVerdict'
  BY <1>t, <1>m, <1>1, <1>2, <1>3, <1>4, <1>5 DEF GateFacts, V!ClosedByVerdict, V!VgTasks, GateMarks, InHandOfGate
<1>c. ASSUME amiss' = {}
      PROVE  /\ SingleSnapshot' /\ HandHasSnapshot' /\ NotBegun' /\ SnapshotIsOlder'
             /\ NoVerdictYet' /\ ResetIsSafe' /\ V!DiscardIsClean' /\ V!KeptStays'
  <2>0. amiss = {}
    BY <1>c, <1>1, <1>2, <1>3, <1>4, <1>5
  <2>i. /\ SingleSnapshot /\ HandHasSnapshot /\ NotBegun /\ SnapshotIsOlder
        /\ NoVerdictYet /\ ResetIsSafe /\ V!DiscardIsClean /\ V!KeptStays
    BY <1>0, <2>0 DEF VgInv
  <2>1. SingleSnapshot'
    BY <1>t, <1>m, <1>c, <2>0, <2>i, <1>1, <1>2, <1>3, <1>4, <1>5 DEF GateFacts, SingleSnapshot
  <2>2. HandHasSnapshot'
    BY <1>t, <1>m, <1>c, <2>0, <2>i, <1>1, <1>2, <1>3, <1>4, <1>5 DEF GateFacts, HandHasSnapshot, InHandOfGate, GateMarks, SingleSnapshot
  <2>3. NotBegun'
    <3> SUFFICES ASSUME NEW u \in 1..VgTask, snap'[u] = 0, item'[u] # "done"
                 PROVE  /\ \A c \in work' : c.task # u
                        /\ \A n \in 1..Len(store') : \A c \in store'[n] : c.task # u
      BY DEF NotBegun
    <3>a. snap[u] = 0
      BY <1>t, <1>c, <2>i, <1>1, <1>2, <1>3, <1>4, <1>5 DEF GateFacts
    <3>b. u # cur
      BY <1>t, <1>m, <1>c, <2>i, <3>a, <1>1, <1>2, <1>3, <1>4, <1>5 DEF HandHasSnapshot, InHandOfGate, GateMarks
    <3>1. snap[u] = 0 /\ item[u] # "done" /\ u # cur
      BY <1>t, <1>c, <3>a, <3>b, <1>1, <1>2, <1>3, <1>4, <1>5 DEF GateFacts
    <3>2. (\A c \in work : c.task # u) /\ \A n \in 1..Len(store) : \A c \in store[n] : c.task # u
      BY <2>i, <3>1 DEF NotBegun
    <3>3. \A c \in work' : c.task # u
      BY <1>t, <1>c, <3>1, <3>2, <1>1, <1>2, <1>3, <1>4, <1>5 DEF GateFacts
    <3>4. ASSUME NEW n \in 1..Len(store') PROVE \A c \in store'[n] : c.task # u
      <4>1. store'[n] = work \/ (n \in 1..Len(store) /\ store'[n] = store[n])
        BY <1>t, <1>c, <1>s, <1>1, <1>2, <1>3, <1>4, <1>5 DEF GateFacts
      <4> QED BY <3>2, <4>1
    <3> QED BY <3>3, <3>4
  <2>4. SnapshotIsOlder'
    <3> SUFFICES ASSUME NEW u \in 1..VgTask, snap'[u] # 0 PROVE \A c \in store'[snap'[u]] : c.task # u
      BY DEF SnapshotIsOlder
    <3>1. \/ snap'[u] = snap[u]
          \/ snap[u] = 0 /\ snap'[u] = head /\ item[u] # "done" /\ store' = store
      BY <1>t, <1>c, <1>1, <1>2, <1>3, <1>4, <1>5 DEF GateFacts
    <3>2. CASE snap'[u] = snap[u]
      <4>1. snap[u] \in 1..Len(store)
        BY <1>t, <3>2 DEF GateFacts
      <4>2. store'[snap[u]] = store[snap[u]]
        BY <1>s, <4>1
      <4> QED BY <2>i, <3>2, <4>2 DEF SnapshotIsOlder
    <3>3. CASE snap[u] = 0 /\ snap'[u] = head /\ item[u] # "done" /\ store' = store
      <4>1. head \in 1..Len(store)
        BY <1>t DEF GateFacts
      <4> QED BY <2>i, <3>3, <4>1 DEF NotBegun
    <3> QED BY <3>1, <3>2, <3>3
  <2>5. NoVerdictYet'
    <3> SUFFICES ASSUME NEW u \in 1..VgTask, item'[u] # "done" \/ u = cur'
                 PROVE  verdict'[u] = "none" /\ kept'[u] = {}
      BY DEF NoVerdictYet
    <3>1. (item[u] # "done" \/ u = cur) /\ verdict'[u] = verdict[u] /\ kept'[u] = kept[u]
      BY <1>t, <1>m, <1>c, <1>1, <1>2, <1>3, <1>4, <1>5 DEF GateFacts, GateMarks, InHandOfGate
    <3> QED BY <2>i, <3>1 DEF NoVerdictYet
  <2>6. ResetIsSafe'
    <3> SUFFICES ASSUME NEW v \in 1..VgTask, NEW u \in 1..VgTask, snap'[u] # 0
                 PROVE  /\ verdict'[v] = "discard" => \A c \in store'[snap'[u]] : c.task = v => c.on = "file"
                        /\ kept'[v] \subseteq store'[snap'[u]]
      BY DEF ResetIsSafe
    <3>1. /\ \/ snap'[u] = snap[u]
             \/ snap[u] = 0 /\ snap'[u] = head /\ store' = store
          /\ kept'[v] = kept[v] /\ (verdict'[v] = "discard" => verdict[v] = "discard")
      BY <1>t, <1>m, <1>c, <2>i, <1>1, <1>2, <1>3, <1>4, <1>5 DEF GateFacts, SingleSnapshot, HandHasSnapshot, InHandOfGate, GateMarks
    <3>2. CASE snap'[u] = snap[u]
      <4>1. snap[u] \in 1..Len(store)
        BY <1>t, <3>2 DEF GateFacts
      <4>2. store'[snap[u]] = store[snap[u]]
        BY <1>s, <4>1
      <4> QED BY <2>i, <3>1, <3>2, <4>2 DEF ResetIsSafe
    <3>3. CASE snap[u] = 0 /\ snap'[u] = head /\ store' = store
      <4>1. store'[snap'[u]] = V!Tree
        BY <3>3 DEF V!Tree
      <4>2. verdict'[v] = "discard" => \A c \in V!Tree : c.task = v => c.on = "file"
        BY <2>0, <2>i, <3>1 DEF V!DiscardIsClean, V!VgTasks
      <4>3. kept'[v] \subseteq V!Tree
        BY <2>0, <2>i, <3>1 DEF V!KeptStays, V!VgTasks
      <4> QED BY <4>1, <4>2, <4>3
    <3> QED BY <3>1, <3>2, <3>3
  <2>7. V!DiscardIsClean'
    BY <1>t, <1>m, <1>c, <2>0, <2>i, <1>1, <1>2, <1>3, <1>4, <1>5 DEF GateFacts, V!DiscardIsClean, NoVerdictYet, ResetIsSafe, SnapshotIsOlder, NotBegun, V!Tree, V!VgTasks
  <2>8. V!KeptStays'
    BY <1>t, <1>m, <1>c, <2>0, <2>i, <1>1, <1>2, <1>3, <1>4, <1>5 DEF GateFacts, V!KeptStays, KeptIsOwn, NoVerdictYet, ResetIsSafe, V!Tree, V!VgTasks
  <2> QED BY <2>1, <2>2, <2>3, <2>4, <2>5, <2>6, <2>7, <2>8
<1> QED BY <1>20, <1>21, <1>22, <1>23, <1>c DEF VgInv, GateTypes

\* The task goes back to the agent.
LEMMA GateReopensKeeps ==
    ASSUME VgInv, V!GateReopens
    PROVE  VgInv'
<1>0. GateFacts /\ VgInv
  BY GateFactsAre
<1>t. GateFacts
  BY <1>0
<1>1. /\ step = "gate" /\ cur \in 1..VgTask /\ item[cur] = "done" /\ step' = "pick" /\ cur' = 0 /\ edited' = edited
      /\ item' = [item EXCEPT ![cur] = "todo"] /\ hint' = cur /\ tries' = tries
      /\ UNCHANGED <<snap, store, head, work, staged, verdict, kept, amiss, vgFaults>>
  BY <1>0 DEF GateFacts, VgInv, V!GateReopens, V!GateCloses, V!Tried, GateMarks, InHandOfGate
<1>20. GateTypes'
  BY <1>t, <1>1 DEF GateFacts, GateTypes, V!VgTypeOK, V!VgTasks
<1>m. GateMarks /\ KeptIsOwn /\ V!ClosedByVerdict
  BY <1>0 DEF VgInv
<1>21. GateMarks'
  BY <1>t, <1>m, <1>1 DEF GateFacts, GateMarks, InHandOfGate
<1>22. KeptIsOwn'
  BY <1>t, <1>m, <1>1 DEF GateFacts, KeptIsOwn
<1>23. V!ClosedByVerdict'
  BY <1>t, <1>m, <1>1 DEF GateFacts, V!ClosedByVerdict, V!VgTasks, GateMarks, InHandOfGate
<1>c. ASSUME amiss' = {}
      PROVE  /\ SingleSnapshot' /\ HandHasSnapshot' /\ NotBegun' /\ SnapshotIsOlder'
             /\ NoVerdictYet' /\ ResetIsSafe' /\ V!DiscardIsClean' /\ V!KeptStays'
  <2>0. amiss = {}
    BY <1>c, <1>1
  <2>i. /\ SingleSnapshot /\ HandHasSnapshot /\ NotBegun /\ SnapshotIsOlder
        /\ NoVerdictYet /\ ResetIsSafe /\ V!DiscardIsClean /\ V!KeptStays
    BY <1>0, <2>0 DEF VgInv
  <2>1. SingleSnapshot'
    BY <1>t, <1>m, <1>c, <2>0, <2>i, <1>1 DEF GateFacts, SingleSnapshot
  <2>2. HandHasSnapshot'
    BY <1>t, <1>m, <1>c, <2>0, <2>i, <1>1 DEF GateFacts, HandHasSnapshot, InHandOfGate, GateMarks, SingleSnapshot
  <2>3. NotBegun'
    BY <1>t, <1>m, <1>c, <2>0, <2>i, <1>1 DEF GateFacts, NotBegun, HandHasSnapshot, InHandOfGate, GateMarks
  <2>4. SnapshotIsOlder'
    BY <1>t, <1>m, <1>c, <2>0, <2>i, <1>1 DEF GateFacts, SnapshotIsOlder, NotBegun, HandHasSnapshot, InHandOfGate
  <2>5. NoVerdictYet'
    BY <1>t, <1>m, <1>c, <2>0, <2>i, <1>1 DEF GateFacts, NoVerdictYet, GateMarks, InHandOfGate
  <2>6. ResetIsSafe'
    BY <1>t, <1>m, <1>c, <2>0, <2>i, <1>1 DEF GateFacts, ResetIsSafe, SingleSnapshot, HandHasSnapshot, InHandOfGate, NoVerdictYet, V!DiscardIsClean, V!KeptStays, V!Tree, V!VgTasks
  <2>7. V!DiscardIsClean'
    BY <1>t, <1>m, <1>c, <2>0, <2>i, <1>1 DEF GateFacts, V!DiscardIsClean, NoVerdictYet, ResetIsSafe, SnapshotIsOlder, NotBegun, V!Tree, V!VgTasks
  <2>8. V!KeptStays'
    BY <1>t, <1>m, <1>c, <2>0, <2>i, <1>1 DEF GateFacts, V!KeptStays, KeptIsOwn, NoVerdictYet, ResetIsSafe, V!Tree, V!VgTasks
  <2> QED BY <2>1, <2>2, <2>3, <2>4, <2>5, <2>6, <2>7, <2>8
<1> QED BY <1>20, <1>21, <1>22, <1>23, <1>c DEF VgInv, GateTypes

\* The loop dies.
LEMMA HaltsKeeps ==
    ASSUME VgInv, V!Halts
    PROVE  VgInv'
<1>0. GateFacts /\ VgInv
  BY GateFactsAre
<1>t. GateFacts
  BY <1>0
<1>1. /\ step' = "off" /\ cur' = 0 /\ amiss' = amiss \cup {"restart"}
      /\ tries' = [u \in 1..VgTask |-> 0] /\ snap' = [u \in 1..VgTask |-> 0] /\ hint' = 0 /\ edited' = FALSE
      /\ vgFaults' \in 0..VgMaxFaults
      /\ UNCHANGED <<item, store, head, work, staged, verdict, kept>>
  BY <1>0 DEF GateFacts, V!Halts, V!Mishap, V!VgTasks
<1>20. GateTypes'
  <2>1. item' \in [1..VgTask -> {"todo", "going", "blocked", "done"}]
    BY <1>t, <1>1 DEF GateFacts
  <2>2. step' \in {"pick", "turn", "gate", "off"} /\ edited' \in BOOLEAN
    BY <1>t, <1>1 DEF GateFacts
  <2>3. cur' \in 0..VgTask /\ hint' \in 0..VgTask
    BY <1>t, <1>1 DEF GateFacts
  <2>4. tries' \in [1..VgTask -> 0..VgMaxTries]
    BY <1>t, <1>1 DEF GateFacts
  <2>5. snap' \in [1..VgTask -> 0..Len(store')]
    BY <1>t, <1>1 DEF GateFacts
  <2>6. store' \in Seq(SUBSET V!Change) /\ \A n \in 1..Len(store') : store'[n] \subseteq V!Change
    BY <1>t, <1>1 DEF GateFacts
  <2>7. head' \in 1..Len(store')
    BY <1>t, <1>1 DEF GateFacts
  <2>8. work' \subseteq V!Change /\ staged' \subseteq work'
    BY <1>t, <1>1 DEF GateFacts
  <2>9. verdict' \in [1..VgTask -> {"none", "keep", "discard"}]
    BY <1>t, <1>1 DEF GateFacts
  <2>10. kept' \in [1..VgTask -> SUBSET V!Change]
    BY <1>t, <1>1 DEF GateFacts
  <2>11. amiss' \subseteq {"restart", "git", "entangled"} /\ vgFaults' \in 0..VgMaxFaults
    BY <1>t, <1>1 DEF GateFacts
  <2> QED BY <2>1, <2>2, <2>3, <2>4, <2>5, <2>6, <2>7, <2>8, <2>9, <2>10, <2>11 DEF GateTypes, V!VgTypeOK, V!VgTasks
<1>m. GateMarks /\ KeptIsOwn /\ V!ClosedByVerdict
  BY <1>0 DEF VgInv
<1>21. GateMarks'
  BY <1>t, <1>m, <1>1 DEF GateFacts, GateMarks, InHandOfGate
<1>22. KeptIsOwn'
  BY <1>t, <1>m, <1>1 DEF GateFacts, KeptIsOwn
<1>23. V!ClosedByVerdict'
  BY <1>t, <1>m, <1>1 DEF GateFacts, V!ClosedByVerdict, V!VgTasks, GateMarks, InHandOfGate
<1>c. ASSUME amiss' = {}
      PROVE  /\ SingleSnapshot' /\ HandHasSnapshot' /\ NotBegun' /\ SnapshotIsOlder'
             /\ NoVerdictYet' /\ ResetIsSafe' /\ V!DiscardIsClean' /\ V!KeptStays'
  <2>0. amiss = {}
    BY <1>c, <1>1
  <2>i. /\ SingleSnapshot /\ HandHasSnapshot /\ NotBegun /\ SnapshotIsOlder
        /\ NoVerdictYet /\ ResetIsSafe /\ V!DiscardIsClean /\ V!KeptStays
    BY <1>0, <2>0 DEF VgInv
  <2>1. SingleSnapshot'
    BY <1>t, <1>m, <1>c, <2>0, <2>i, <1>1 DEF GateFacts, SingleSnapshot
  <2>2. HandHasSnapshot'
    BY <1>t, <1>m, <1>c, <2>0, <2>i, <1>1 DEF GateFacts, HandHasSnapshot, InHandOfGate, GateMarks, SingleSnapshot
  <2>3. NotBegun'
    BY <1>t, <1>m, <1>c, <2>0, <2>i, <1>1 DEF GateFacts, NotBegun, HandHasSnapshot, InHandOfGate, GateMarks
  <2>4. SnapshotIsOlder'
    BY <1>t, <1>m, <1>c, <2>0, <2>i, <1>1 DEF GateFacts, SnapshotIsOlder, NotBegun, HandHasSnapshot, InHandOfGate
  <2>5. NoVerdictYet'
    BY <1>t, <1>m, <1>c, <2>0, <2>i, <1>1 DEF GateFacts, NoVerdictYet, GateMarks, InHandOfGate
  <2>6. ResetIsSafe'
    BY <1>t, <1>m, <1>c, <2>0, <2>i, <1>1 DEF GateFacts, ResetIsSafe, SingleSnapshot, HandHasSnapshot, InHandOfGate, NoVerdictYet, V!DiscardIsClean, V!KeptStays, V!Tree, V!VgTasks
  <2>7. V!DiscardIsClean'
    BY <1>t, <1>m, <1>c, <2>0, <2>i, <1>1 DEF GateFacts, V!DiscardIsClean, NoVerdictYet, ResetIsSafe, SnapshotIsOlder, NotBegun, V!Tree, V!VgTasks
  <2>8. V!KeptStays'
    BY <1>t, <1>m, <1>c, <2>0, <2>i, <1>1 DEF GateFacts, V!KeptStays, KeptIsOwn, NoVerdictYet, ResetIsSafe, V!Tree, V!VgTasks
  <2> QED BY <2>1, <2>2, <2>3, <2>4, <2>5, <2>6, <2>7, <2>8
<1> QED BY <1>20, <1>21, <1>22, <1>23, <1>c DEF VgInv, GateTypes

\* The loop starts again.
LEMMA StartsKeeps ==
    ASSUME VgInv, V!Starts
    PROVE  VgInv'
<1>0. GateFacts /\ VgInv
  BY GateFactsAre
<1>t. GateFacts
  BY <1>0
<1>1. /\ step = "off" /\ step' = "pick" /\ cur = 0
      /\ item' = [u \in 1..VgTask |-> IF item[u] = "done" THEN "done" ELSE "todo"]
      /\ UNCHANGED <<cur, tries, snap, hint, store, head, work, staged, edited, verdict, kept, amiss, vgFaults>>
  BY <1>0 DEF GateFacts, VgInv, V!Starts, V!VgTasks, GateMarks, InHandOfGate
<1>20. GateTypes'
  BY <1>t, <1>1 DEF GateFacts, GateTypes, V!VgTypeOK, V!VgTasks
<1>m. GateMarks /\ KeptIsOwn /\ V!ClosedByVerdict
  BY <1>0 DEF VgInv
<1>21. GateMarks'
  BY <1>t, <1>m, <1>1 DEF GateFacts, GateMarks, InHandOfGate
<1>22. KeptIsOwn'
  BY <1>t, <1>m, <1>1 DEF GateFacts, KeptIsOwn
<1>23. V!ClosedByVerdict'
  BY <1>t, <1>m, <1>1 DEF GateFacts, V!ClosedByVerdict, V!VgTasks, GateMarks, InHandOfGate
<1>c. ASSUME amiss' = {}
      PROVE  /\ SingleSnapshot' /\ HandHasSnapshot' /\ NotBegun' /\ SnapshotIsOlder'
             /\ NoVerdictYet' /\ ResetIsSafe' /\ V!DiscardIsClean' /\ V!KeptStays'
  <2>0. amiss = {}
    BY <1>c, <1>1
  <2>i. /\ SingleSnapshot /\ HandHasSnapshot /\ NotBegun /\ SnapshotIsOlder
        /\ NoVerdictYet /\ ResetIsSafe /\ V!DiscardIsClean /\ V!KeptStays
    BY <1>0, <2>0 DEF VgInv
  <2>1. SingleSnapshot'
    BY <1>t, <1>m, <1>c, <2>0, <2>i, <1>1 DEF GateFacts, SingleSnapshot
  <2>2. HandHasSnapshot'
    BY <1>t, <1>m, <1>c, <2>0, <2>i, <1>1 DEF GateFacts, HandHasSnapshot, InHandOfGate, GateMarks, SingleSnapshot
  <2>3. NotBegun'
    BY <1>t, <1>m, <1>c, <2>0, <2>i, <1>1 DEF GateFacts, NotBegun, HandHasSnapshot, InHandOfGate, GateMarks
  <2>4. SnapshotIsOlder'
    BY <1>t, <1>m, <1>c, <2>0, <2>i, <1>1 DEF GateFacts, SnapshotIsOlder, NotBegun, HandHasSnapshot, InHandOfGate
  <2>5. NoVerdictYet'
    BY <1>t, <1>m, <1>c, <2>0, <2>i, <1>1 DEF GateFacts, NoVerdictYet, GateMarks, InHandOfGate
  <2>6. ResetIsSafe'
    BY <1>t, <1>m, <1>c, <2>0, <2>i, <1>1 DEF GateFacts, ResetIsSafe, SingleSnapshot, HandHasSnapshot, InHandOfGate, NoVerdictYet, V!DiscardIsClean, V!KeptStays, V!Tree, V!VgTasks
  <2>7. V!DiscardIsClean'
    BY <1>t, <1>m, <1>c, <2>0, <2>i, <1>1 DEF GateFacts, V!DiscardIsClean, NoVerdictYet, ResetIsSafe, SnapshotIsOlder, NotBegun, V!Tree, V!VgTasks
  <2>8. V!KeptStays'
    BY <1>t, <1>m, <1>c, <2>0, <2>i, <1>1 DEF GateFacts, V!KeptStays, KeptIsOwn, NoVerdictYet, ResetIsSafe, V!Tree, V!VgTasks
  <2> QED BY <2>1, <2>2, <2>3, <2>4, <2>5, <2>6, <2>7, <2>8
<1> QED BY <1>20, <1>21, <1>22, <1>23, <1>c DEF VgInv, GateTypes

LEMMA GateStutters ==
    ASSUME VgInv, UNCHANGED vv
    PROVE  VgInv'
<1>1. UNCHANGED vv
  OBVIOUS
<1>2. V!VgTypeOK' /\ store' \in Seq(SUBSET V!Change)
  BY <1>1 DEF vv, VgInv, V!VgTypeOK
<1>3. GateMarks' /\ KeptIsOwn' /\ V!ClosedByVerdict'
  BY <1>1 DEF vv, VgInv, GateMarks, InHandOfGate, KeptIsOwn, V!ClosedByVerdict
<1>4. ASSUME amiss' = {}
      PROVE  /\ SingleSnapshot' /\ HandHasSnapshot' /\ NotBegun' /\ SnapshotIsOlder'
             /\ NoVerdictYet' /\ ResetIsSafe' /\ V!DiscardIsClean' /\ V!KeptStays'
  <2>1. amiss = {}
    BY <1>1, <1>4 DEF vv
  <2>2. /\ SingleSnapshot /\ HandHasSnapshot /\ NotBegun /\ SnapshotIsOlder
        /\ NoVerdictYet /\ ResetIsSafe /\ V!DiscardIsClean /\ V!KeptStays
    BY <2>1 DEF VgInv
  <2>3. SingleSnapshot' /\ HandHasSnapshot'
    BY <1>1, <2>2 DEF vv, SingleSnapshot, HandHasSnapshot, InHandOfGate
  <2>4. NotBegun' /\ SnapshotIsOlder'
    BY <1>1, <2>2 DEF vv, NotBegun, SnapshotIsOlder
  <2>5. NoVerdictYet' /\ ResetIsSafe'
    BY <1>1, <2>2 DEF vv, NoVerdictYet, ResetIsSafe
  <2>6. V!DiscardIsClean' /\ V!KeptStays'
    BY <1>1, <2>2 DEF vv, V!DiscardIsClean, V!KeptStays, V!Tree
  <2> QED BY <2>3, <2>4, <2>5, <2>6
<1> QED BY <1>2, <1>3, <1>4 DEF VgInv

LEMMA GateStep == VgInv /\ [V!VgNext]_vv => VgInv'
  BY ExhaustedKeeps, GateDiscardsKeeps, DispatchKeeps, ChangesKeeps, RepairsKeeps, AgentCommitsKeeps, CompletesKeeps,
     TurnFailsKeeps, GateKeepsKeeps, GateReopensKeeps, HaltsKeeps, StartsKeeps, GateStutters DEF V!VgNext, V!LoopSteps

LEMMA GateStarts == V!VgInit => VgInv
<1> SUFFICES ASSUME V!VgInit PROVE VgInv
  OBVIOUS
<1>1. VgTask \in Nat /\ VgMaxFaults \in Nat /\ VgMaxTries \in Nat
  BY Bounds
<1>2. /\ item = [u \in 1..VgTask |-> "todo"] /\ step = "pick" /\ cur = 0
      /\ tries = [u \in 1..VgTask |-> 0] /\ snap = [u \in 1..VgTask |-> 0] /\ hint = 0
      /\ store = <<{}>> /\ head = 1 /\ work = {} /\ staged = {} /\ edited = FALSE
      /\ verdict = [u \in 1..VgTask |-> "none"] /\ kept = [u \in 1..VgTask |-> {}]
      /\ amiss = {} /\ vgFaults = 0
  BY DEF V!VgInit, V!VgTasks
<1>3. store \in Seq(SUBSET V!Change) /\ Len(store) = 1 /\ store[1] = {}
  BY <1>2
<1>4. V!VgTypeOK
  <2>1. \A n \in 1..Len(store) : store[n] \subseteq V!Change
    BY <1>3
  <2>2. 0 \in 0..Len(store) /\ 0 \in 0..VgTask /\ 0 \in 0..VgMaxTries /\ 0 \in 0..VgMaxFaults
    BY <1>1, <1>3
  <2>3. /\ item \in [1..VgTask -> {"todo", "going", "blocked", "done"}] /\ step \in {"pick", "turn", "gate", "off"}
        /\ verdict \in [1..VgTask -> {"none", "keep", "discard"}] /\ kept \in [1..VgTask -> SUBSET V!Change]
        /\ work \subseteq V!Change /\ staged \subseteq work /\ edited \in BOOLEAN
        /\ amiss \subseteq {"restart", "git", "entangled"}
    BY <1>2
  <2>4. /\ cur \in 0..VgTask /\ tries \in [1..VgTask -> 0..VgMaxTries] /\ snap \in [1..VgTask -> 0..Len(store)]
        /\ hint \in 0..VgTask /\ head \in 1..Len(store) /\ vgFaults \in 0..VgMaxFaults
    BY <1>2, <1>3, <2>2
  <2> QED BY <2>1, <2>3, <2>4 DEF V!VgTypeOK, V!VgTasks
<1>5. GateMarks /\ KeptIsOwn /\ V!ClosedByVerdict
  BY <1>1, <1>2 DEF GateMarks, InHandOfGate, KeptIsOwn, V!ClosedByVerdict, V!VgTasks
<1>6. SingleSnapshot /\ HandHasSnapshot /\ NotBegun /\ SnapshotIsOlder /\ NoVerdictYet /\ ResetIsSafe /\ V!DiscardIsClean /\ V!KeptStays
  BY <1>1, <1>2, <1>3 DEF SingleSnapshot, HandHasSnapshot, NotBegun, SnapshotIsOlder, InHandOfGate, NoVerdictYet, ResetIsSafe, V!DiscardIsClean, V!KeptStays, V!Tree, V!VgTasks
<1> QED BY <1>3, <1>4, <1>5, <1>6 DEF VgInv

LEMMA GateSuffices == VgInv => GateHolds
<1> SUFFICES ASSUME VgInv PROVE V!DiscardIsClean /\ V!KeptStays
  BY DEF VgInv, GateHolds
<1> QED BY DEF VgInv, V!DiscardIsClean, V!KeptStays

\* A behaviour of another part leaves the gate as it was.
LEMMA GateAlways == MCSpec => []VgInv
<1>1. MCInit => VgInv
  BY GateStarts DEF MCInit
<1>2. VgInv /\ [MCNext]_<<part, dv, pv, iv, lv, vv>> => VgInv'
  <2>1. [MCNext]_<<part, dv, pv, iv, lv, vv>> => [V!VgNext]_vv
    BY DEF MCNext
  <2> QED BY <2>1, GateStep
<1> QED BY <1>1, <1>2, PTL DEF MCSpec

\* The verify gate: the work of a discarded task is gone, kept work stays, and no task is
\* closed without a verdict, but for restarts, failures of git and tasks that were open at
\* once (taskLoop.ts 2186-2238, 2652-2747): for any number of tasks, attempts and mishaps.
THEOREM GateCorrect == MCSpec => []GateHolds
  BY GateAlways, GateSuffices, PTL

-----------------------------------------------------------------------------
(* Instant steers. *)

LEMMA CardSteer == \A S : I!Cardinality(S) = Cardinality(S)
  BY DEF I!Cardinality, Cardinality

LEMMA WaitingNat ==
    ASSUME NEW q \in Seq(IsSteer), NEW s
    PROVE  /\ I!Waiting(q, s) \in Nat /\ IsFiniteSet({i \in DOMAIN q : q[i] = s})
           /\ I!Waiting(q, s) = Cardinality({i \in DOMAIN q : q[i] = s})
<1>1. Len(q) \in Nat /\ DOMAIN q = 1..Len(q)
  OBVIOUS
<1>2. IsFiniteSet(1..Len(q))
  BY <1>1, FS_Interval
<1>3. IsFiniteSet({i \in DOMAIN q : q[i] = s})
  BY <1>1, <1>2, FS_Subset
<1> QED BY <1>3, FS_CardinalityType, CardSteer DEF I!Waiting

LEMMA WaitingNone == \A s : I!Waiting(<<>>, s) = 0
<1> TAKE s
<1>1. {i \in DOMAIN <<>> : <<>>[i] = s} = {}
  OBVIOUS
<1> QED BY <1>1, FS_EmptySet, CardSteer DEF I!Waiting

\* One more waits, of its own kind.
LEMMA WaitingMore ==
    ASSUME NEW q \in Seq(IsSteer), NEW e \in IsSteer, NEW s
    PROVE  I!Waiting(Append(q, e), s) = I!Waiting(q, s) + (IF e = s THEN 1 ELSE 0)
<1> DEFINE A == {i \in DOMAIN q : q[i] = s}
           B == {i \in DOMAIN Append(q, e) : Append(q, e)[i] = s}
<1>1. /\ Append(q, e) \in Seq(IsSteer) /\ Len(Append(q, e)) = Len(q) + 1 /\ Len(q) \in Nat
      /\ \A i \in 1..Len(q) : Append(q, e)[i] = q[i]
      /\ Append(q, e)[Len(q) + 1] = e
  OBVIOUS
<1>2. DOMAIN q = 1..Len(q) /\ DOMAIN Append(q, e) = 1..(Len(q) + 1)
  BY <1>1
<1>3. IsFiniteSet(A) /\ Cardinality(A) \in Nat /\ I!Waiting(q, s) = Cardinality(A)
  BY WaitingNat
<1>4. I!Waiting(Append(q, e), s) = Cardinality(B)
  BY <1>1, WaitingNat
<1>5. CASE e = s
  <2>1. B = A \cup {Len(q) + 1} /\ Len(q) + 1 \notin A
    BY <1>1, <1>2, <1>5
  <2>2. Cardinality(A \cup {Len(q) + 1}) = Cardinality(A) + 1
    BY <1>3, <2>1, FS_AddElement
  <2> QED BY <1>3, <1>4, <1>5, <2>1, <2>2
<1>6. CASE e # s
  <2>1. B = A
    BY <1>1, <1>2, <1>6
  <2> HIDE DEF A, B
  <2> QED BY <1>3, <1>4, <1>6, <2>1
<1> QED BY <1>5, <1>6

\* Without its first there is one less of that kind.
LEMMA WaitingLess ==
    ASSUME NEW q \in Seq(IsSteer), q # <<>>, NEW s
    PROVE  I!Waiting(Tail(q), s) + (IF Head(q) = s THEN 1 ELSE 0) <= I!Waiting(q, s)
<1> DEFINE A == {i \in DOMAIN q : q[i] = s}
           B == {i \in DOMAIN Tail(q) : Tail(q)[i] = s}
           f == [i \in B |-> i + 1]
<1>1. /\ Tail(q) \in Seq(IsSteer) /\ Len(Tail(q)) = Len(q) - 1 /\ Len(q) \in Nat /\ Len(q) > 0
      /\ \A i \in 1..Len(Tail(q)) : Tail(q)[i] = q[i + 1]
      /\ Head(q) = q[1]
  BY HeadTailProperties
<1>2. DOMAIN q = 1..Len(q) /\ DOMAIN Tail(q) = 1..(Len(q) - 1)
  BY <1>1
<1>3. IsFiniteSet(A) /\ Cardinality(A) \in Nat /\ I!Waiting(q, s) = Cardinality(A)
  BY WaitingNat, FS_CardinalityType
<1>4. IsFiniteSet(B) /\ Cardinality(B) \in Nat /\ I!Waiting(Tail(q), s) = Cardinality(B)
  BY <1>1, WaitingNat, FS_CardinalityType
<1>5. IsFiniteSet(A \ {1}) /\ Cardinality(A \ {1}) = (IF 1 \in A THEN Cardinality(A) - 1 ELSE Cardinality(A))
  BY <1>3, FS_RemoveElement
<1>6. f \in Injection(B, A \ {1})
  <2>1. \A i \in B : i + 1 \in A \ {1}
    BY <1>1, <1>2
  <2>2. \A i, j \in B : i + 1 = j + 1 => i = j
    BY <1>2
  <2> QED BY <2>1, <2>2 DEF Injection, IsInjective
<1>7. Cardinality(B) <= Cardinality(A \ {1})
  <2> HIDE DEF A, B, f
  <2> QED BY <1>5, <1>6, FS_Injection
<1>8. 1 \in A <=> Head(q) = s
  BY <1>1, <1>2
<1> HIDE DEF A, B
<1> QED BY <1>3, <1>4, <1>5, <1>7, <1>8

LEMMA SameText ==
    /\ \A s : I!Same(s, s)
    /\ \A s, t : I!Same(s, t) => I!Same(t, s)
    /\ \A s, t, r : I!Same(s, t) /\ I!Same(t, r) => I!Same(s, r)
  BY DEF I!Same

\* One more in a count.
LEMMA CountedUp ==
    ASSUME NEW S, NEW f \in [S -> Nat], NEW s \in S
    PROVE  /\ [f EXCEPT ![s] = @ + 1] \in [S -> Nat]
           /\ \A t \in S : [f EXCEPT ![s] = @ + 1][t] = f[t] + (IF t = s THEN 1 ELSE 0)
<1>1. \A t \in S : f[t] \in Nat
  OBVIOUS
<1> QED BY <1>1

SteerFacts ==
  /\ IsMaxFaults \in Nat /\ IsMaxTurn \in Nat
  /\ isKind \in I!Kinds /\ isTwins \subseteq IsSteer /\ isTurn \in {"idle", "draining", "running"}
  /\ isBuffer \in Seq(IsSteer) /\ isBatch \in Seq(IsSteer) /\ isTyping \in [IsSteer -> Nat]
  /\ isWire \subseteq isSent /\ isSeen \subseteq isSent /\ isSent \subseteq IsSteer
  /\ isGiven \in [IsSteer -> Nat] /\ isFrames \in [IsSteer -> Nat]
  /\ isGone \subseteq isEarly /\ isEarly \subseteq isSeen
  /\ isFaults \in 0..IsMaxFaults /\ isTurns \in 0..IsMaxTurn
  /\ isBatch # <<>> => isTurn = "draining"

LEMMA SteerFactsAre == IsInv => SteerFacts
  BY Bounds DEF IsInv, I!IsTypeOK, SteerFacts

LEMMA FaultTakes ==
    ASSUME SteerFacts, I!IsFault
    PROVE  isFaults' \in 0..IsMaxFaults
  BY DEF SteerFacts, I!IsFault

\* A steer that is buffered is held, once more at most, and acknowledged only for one of
\* its text that waits.
BufferedLeaves(s) ==
  /\ isBuffer' \in Seq(IsSteer) /\ \A i \in DOMAIN isBuffer' : isBuffer'[i] \in isSent
  /\ isSeen \subseteq isSeen' /\ isEarly \subseteq isEarly' /\ isEarly' \subseteq isSeen' /\ isSeen' \subseteq isSent
  /\ \A x \in isSeen' \ isSeen : x = s /\ x \in isEarly'
  /\ \A t \in IsSteer : HoldsSteer(isBuffer, t) => HoldsSteer(isBuffer', t)
  /\ \E r \in IsSteer : I!Same(s, r) /\ HoldsSteer(isBuffer', r)
  /\ \A t \in IsSteer : /\ I!Waiting(isBuffer', t) \in Nat
                        /\ I!Waiting(isBuffer', t) <= I!Waiting(isBuffer, t) + (IF t = s THEN 1 ELSE 0)

LEMMA BufferedDoes ==
    ASSUME SteerFacts, HeldIsSent, NEW s \in isSent, I!Buffered(s)
    PROVE  BufferedLeaves(s)
<1>0. s \in IsSteer /\ isBuffer \in Seq(IsSteer)
  BY DEF SteerFacts
<1>1. CASE \E i \in DOMAIN isBuffer : I!Same(isBuffer[i], s)
  <2>1. isSeen' = isSeen \cup {s} /\ isEarly' = isEarly \cup {s} /\ isBuffer' = isBuffer
    BY <1>1 DEF I!Buffered, I!Acked
  <2>2. PICK i \in DOMAIN isBuffer : I!Same(isBuffer[i], s)
    BY <1>1
  <2>3. isBuffer[i] \in IsSteer /\ I!Same(s, isBuffer[i]) /\ HoldsSteer(isBuffer', isBuffer[i])
    BY <1>0, <2>1, <2>2, SameText DEF HoldsSteer
  <2>4. \A t \in IsSteer : I!Waiting(isBuffer, t) \in Nat
    BY <1>0, WaitingNat
  <2>5. /\ isBuffer' \in Seq(IsSteer) /\ \A j \in DOMAIN isBuffer' : isBuffer'[j] \in isSent
        /\ isSeen \subseteq isSeen' /\ isEarly \subseteq isEarly' /\ isEarly' \subseteq isSeen' /\ isSeen' \subseteq isSent
        /\ \A x \in isSeen' \ isSeen : x = s /\ x \in isEarly'
    BY <1>0, <2>1 DEF SteerFacts, HeldIsSent
  <2>6. /\ \A t \in IsSteer : HoldsSteer(isBuffer, t) => HoldsSteer(isBuffer', t)
        /\ \E r \in IsSteer : I!Same(s, r) /\ HoldsSteer(isBuffer', r)
    BY <2>1, <2>3
  <2>7. \A t \in IsSteer : /\ I!Waiting(isBuffer', t) \in Nat
                           /\ I!Waiting(isBuffer', t) <= I!Waiting(isBuffer, t) + (IF t = s THEN 1 ELSE 0)
    <3> TAKE t \in IsSteer
    <3>1. I!Waiting(isBuffer', t) = I!Waiting(isBuffer, t)
      BY <2>1
    <3> QED BY <2>4, <3>1
  <2> QED BY <2>5, <2>6, <2>7 DEF BufferedLeaves
<1>2. CASE ~\E i \in DOMAIN isBuffer : I!Same(isBuffer[i], s)
  <2>1. isBuffer' = Append(isBuffer, s) /\ isSeen' = isSeen /\ isEarly' = isEarly
    BY <1>2 DEF I!Buffered
  <2>2. /\ isBuffer' \in Seq(IsSteer) /\ Len(isBuffer') = Len(isBuffer) + 1 /\ Len(isBuffer) \in Nat
        /\ \A i \in 1..Len(isBuffer) : isBuffer'[i] = isBuffer[i]
        /\ isBuffer'[Len(isBuffer) + 1] = s
        /\ DOMAIN isBuffer = 1..Len(isBuffer) /\ DOMAIN isBuffer' = 1..(Len(isBuffer) + 1)
    BY <1>0, <2>1
  <2>3. \A i \in DOMAIN isBuffer' : isBuffer'[i] \in isSent
    BY <2>2 DEF HeldIsSent
  <2>4. HoldsSteer(isBuffer', s) /\ \A t \in IsSteer : HoldsSteer(isBuffer, t) => HoldsSteer(isBuffer', t)
    BY <2>2 DEF HoldsSteer
  <2>5. \A t \in IsSteer : /\ I!Waiting(isBuffer', t) \in Nat /\ I!Waiting(isBuffer, t) \in Nat
                           /\ I!Waiting(isBuffer', t) = I!Waiting(isBuffer, t) + (IF t = s THEN 1 ELSE 0)
    <3> TAKE t \in IsSteer
    <3>1. I!Waiting(isBuffer', t) \in Nat /\ I!Waiting(isBuffer, t) \in Nat
      BY <1>0, <2>2, WaitingNat
    <3>2. I!Waiting(Append(isBuffer, s), t) = I!Waiting(isBuffer, t) + (IF s = t THEN 1 ELSE 0)
      BY <1>0, WaitingMore
    <3> QED BY <2>1, <3>1, <3>2
  <2>6. \A t \in IsSteer : I!Waiting(isBuffer', t) <= I!Waiting(isBuffer, t) + (IF t = s THEN 1 ELSE 0)
    BY <2>5
  <2> QED BY <1>0, <2>1, <2>2, <2>3, <2>4, <2>5, <2>6, SameText DEF BufferedLeaves, SteerFacts
<1> QED BY <1>1, <1>2

\* What is carried on, and what is newly acknowledged is carried: then so is every steer
\* that was acknowledged.
LEMMA CarriedOn ==
    ASSUME AckedHeld, isGone \subseteq isGone',
           isTwins' = isTwins,
           \A t \in IsSteer : Carried(t) => \E r \in IsSteer : I!Same(t, r) /\ Carried(r)',
           \A x \in isSeen' \ isSeen : \E r \in IsSteer : I!Same(x, r) /\ Carried(r)'
    PROVE  AckedHeld'
<1>1. \A x, y : I!Same(x, y)' <=> I!Same(x, y)
  BY DEF I!Same
<1>2. ASSUME NEW x \in isSeen' \ isGone' PROVE \E r \in IsSteer : I!Same(x, r) /\ Carried(r)'
  <2>1. CASE x \in isSeen
    <3>1. PICK t \in IsSteer : I!Same(x, t) /\ Carried(t)
      BY <1>2, <2>1 DEF AckedHeld
    <3>2. PICK r \in IsSteer : I!Same(t, r) /\ Carried(r)'
      BY <3>1
    <3> QED BY <3>1, <3>2, SameText
  <2>2. CASE x \notin isSeen
    BY <1>2, <2>2
  <2> QED BY <2>1, <2>2
<1> QED BY <1>1, <1>2 DEF AckedHeld

\* What moves no steer.
LEMMA QuietSteers ==
    ASSUME IsInv, I!TurnStarts \/ I!TurnEnds \/ I!Reconnects \/ (\E s \in IsSteer : I!IsSend(s)) \/ UNCHANGED iv
    PROVE  IsInv'
<1>0. SteerFacts /\ HeldIsSent /\ AckedWhy /\ AckedHeld /\ I!OncePerFrame
  BY SteerFactsAre DEF IsInv
<1>1. /\ UNCHANGED <<isKind, isTwins, isBuffer, isBatch, isTyping, isSeen, isGiven, isFrames, isEarly, isGone, isTurns>>
      /\ isTurn' \in {"idle", "draining", "running"} /\ (isBatch # <<>> => isTurn' = "draining")
      /\ isSent \subseteq isSent' /\ isSent' \subseteq IsSteer /\ isWire' \subseteq isSent' /\ isFaults' \in 0..IsMaxFaults
  <2>1. CASE I!TurnStarts \/ I!TurnEnds \/ UNCHANGED iv
    BY <1>0, <2>1 DEF SteerFacts, I!TurnStarts, I!TurnEnds, iv, I!isFixed, I!isLoop, I!isOffice, I!isHistory
  <2>2. CASE I!Reconnects
    BY <1>0, <2>2, FaultTakes DEF SteerFacts, I!Reconnects, I!Unacked, I!IsFault, I!isFixed, I!isLoop, I!isOffice, I!isHistory
  <2>3. CASE \E s \in IsSteer : I!IsSend(s)
    BY <1>0, <2>3 DEF SteerFacts, I!IsSend, I!isFixed, I!isLoop, I!isOffice, I!isHistory
  <2> QED BY <2>1, <2>2, <2>3
<1>20. I!IsTypeOK'
  BY <1>0, <1>1 DEF SteerFacts, I!IsTypeOK
<1>21. HeldIsSent'
  BY <1>0, <1>1 DEF SteerFacts, HeldIsSent
<1>22. AckedWhy'
  BY <1>0, <1>1 DEF SteerFacts, AckedWhy
<1>23. AckedHeld'
  <2>1. \A t \in IsSteer : Carried(t) => \E r \in IsSteer : I!Same(t, r) /\ Carried(r)'
    BY <1>0, <1>1, SameText DEF SteerFacts, Carried
  <2>2. \A x \in isSeen' \ isSeen : \E r \in IsSteer : I!Same(x, r) /\ Carried(r)'
    BY <1>0, <1>1, SameText DEF SteerFacts, Carried
  <2> QED BY <1>0, <1>1, <2>1, <2>2, CarriedOn
<1>24. I!OncePerFrame'
  <2> SUFFICES ASSUME NEW t \in IsSteer
               PROVE  isGiven'[t] + isTyping'[t] + I!Waiting(isBuffer', t) + I!Waiting(isBatch', t) <= isFrames'[t]
    BY DEF I!OncePerFrame, I!Waiting, I!Cardinality
  <2>1. /\ isGiven[t] + isTyping[t] + I!Waiting(isBuffer, t) + I!Waiting(isBatch, t) <= isFrames[t]
        /\ isGiven[t] \in Nat /\ isTyping[t] \in Nat /\ isFrames[t] \in Nat
        /\ I!Waiting(isBuffer, t) \in Nat /\ I!Waiting(isBatch, t) \in Nat
    BY <1>0, WaitingNat DEF SteerFacts, I!OncePerFrame
  <2> QED BY <1>0, <2>1, <1>1 DEF SteerFacts
<1> QED BY <1>20, <1>21, <1>22, <1>23, <1>24 DEF IsInv

\* The frame is there, and what a frame leaves alone.
Framed(s) ==
  /\ s \in isWire /\ isWire' = isWire \ {s}
  /\ UNCHANGED <<isKind, isTwins, isTurn, isBatch, isTurns, isSent, isGone>>

\* The four ways of a frame.
LEMMA FrameGoes ==
    ASSUME NEW s \in IsSteer, I!Receive(s)
    PROVE  /\ Framed(s)
           /\ \/ UNCHANGED <<isBuffer, isTyping, isSeen, isGiven, isFrames, isEarly, isFaults>>
              \/ /\ isFrames' = [isFrames EXCEPT ![s] = @ + 1] /\ isTyping' = [isTyping EXCEPT ![s] = @ + 1]
                 /\ UNCHANGED <<isBuffer, isSeen, isGiven, isEarly, isFaults>>
              \/ /\ isFrames' = [isFrames EXCEPT ![s] = @ + 1] /\ I!Acked(s) /\ I!Gives(s)
                 /\ UNCHANGED <<isBuffer, isTyping, isEarly, isFaults>>
              \/ /\ isFrames' = [isFrames EXCEPT ![s] = @ + 1] /\ I!Buffered(s)
                 /\ (I!IsFault \/ isFaults' = isFaults)
                 /\ UNCHANGED <<isTyping, isGiven>>
  BY DEF I!Receive, Framed, I!isFixed, I!isLoop, I!isOffice, I!isHistory

\* A frame of one that was acknowledged.
LEMMA SeenFrame ==
    ASSUME IsInv, NEW s \in IsSteer, Framed(s),
           UNCHANGED <<isBuffer, isTyping, isSeen, isGiven, isFrames, isEarly, isFaults>>
    PROVE  IsInv'
<1>0. SteerFacts /\ HeldIsSent /\ AckedWhy /\ AckedHeld /\ I!OncePerFrame
  BY SteerFactsAre DEF IsInv
<1>1. /\ s \in isSent /\ isWire' = isWire \ {s}
      /\ UNCHANGED <<isKind, isTwins, isTurn, isBatch, isTurns, isSent, isGone>>
  BY <1>0 DEF Framed, SteerFacts
<1>2. UNCHANGED <<isBuffer, isTyping, isSeen, isGiven, isFrames, isEarly, isFaults>>
  OBVIOUS
<1>20. I!IsTypeOK'
  BY <1>0, <1>1, <1>2 DEF SteerFacts, I!IsTypeOK
<1>21. HeldIsSent'
  BY <1>0, <1>1, <1>2 DEF SteerFacts, HeldIsSent
<1>22. AckedWhy'
  BY <1>0, <1>1, <1>2 DEF SteerFacts, AckedWhy
<1>23. AckedHeld'
  <2>1. \A t \in IsSteer : Carried(t) => \E r \in IsSteer : I!Same(t, r) /\ Carried(r)'
    BY <1>0, <1>1, <1>2, SameText DEF SteerFacts, Carried
  <2>2. \A x \in isSeen' \ isSeen : \E r \in IsSteer : I!Same(x, r) /\ Carried(r)'
    BY <1>0, <1>1, <1>2, SameText DEF SteerFacts, Carried
  <2> QED BY <1>0, <1>1, <1>2, <2>1, <2>2, CarriedOn
<1>24. I!OncePerFrame'
  <2> SUFFICES ASSUME NEW t \in IsSteer
               PROVE  isGiven'[t] + isTyping'[t] + I!Waiting(isBuffer', t) + I!Waiting(isBatch', t) <= isFrames'[t]
    BY DEF I!OncePerFrame, I!Waiting, I!Cardinality
  <2>1. /\ isGiven[t] + isTyping[t] + I!Waiting(isBuffer, t) + I!Waiting(isBatch, t) <= isFrames[t]
        /\ isGiven[t] \in Nat /\ isTyping[t] \in Nat /\ isFrames[t] \in Nat
        /\ I!Waiting(isBuffer, t) \in Nat /\ I!Waiting(isBatch, t) \in Nat
    BY <1>0, WaitingNat DEF SteerFacts, I!OncePerFrame
  <2> QED BY <1>0, <2>1, <1>1, <1>2 DEF SteerFacts
<1> QED BY <1>20, <1>21, <1>22, <1>23, <1>24 DEF IsInv

\* A steer is written into the turn.
LEMMA TypesFrame ==
    ASSUME IsInv, NEW s \in IsSteer, Framed(s),
           isFrames' = [isFrames EXCEPT ![s] = @ + 1], isTyping' = [isTyping EXCEPT ![s] = @ + 1],
           UNCHANGED <<isBuffer, isSeen, isGiven, isEarly, isFaults>>
    PROVE  IsInv'
<1>0. SteerFacts /\ HeldIsSent /\ AckedWhy /\ AckedHeld /\ I!OncePerFrame
  BY SteerFactsAre DEF IsInv
<1>1. /\ s \in isSent /\ isWire' = isWire \ {s}
      /\ UNCHANGED <<isKind, isTwins, isTurn, isBatch, isTurns, isSent, isGone>>
  BY <1>0 DEF Framed, SteerFacts
<1>2. UNCHANGED <<isBuffer, isSeen, isGiven, isEarly, isFaults>>
  OBVIOUS
<1>3. /\ isFrames' \in [IsSteer -> Nat] /\ \A t \in IsSteer : isFrames'[t] = isFrames[t] + (IF t = s THEN 1 ELSE 0)
      /\ isTyping' \in [IsSteer -> Nat] /\ \A t \in IsSteer : isTyping'[t] = isTyping[t] + (IF t = s THEN 1 ELSE 0)
  <2>1. isFrames \in [IsSteer -> Nat] /\ isFrames' = [isFrames EXCEPT ![s] = @ + 1]
    BY <1>0 DEF SteerFacts
  <2>2. isFrames' \in [IsSteer -> Nat] /\ \A t \in IsSteer : isFrames'[t] = isFrames[t] + (IF t = s THEN 1 ELSE 0)
    BY <2>1, CountedUp
  <2>3. isTyping \in [IsSteer -> Nat] /\ isTyping' = [isTyping EXCEPT ![s] = @ + 1]
    BY <1>0 DEF SteerFacts
  <2>4. isTyping' \in [IsSteer -> Nat] /\ \A t \in IsSteer : isTyping'[t] = isTyping[t] + (IF t = s THEN 1 ELSE 0)
    BY <2>3, CountedUp
  <2> QED BY <2>2, <2>4
<1>20. I!IsTypeOK'
  BY <1>0, <1>1, <1>2, <1>3 DEF SteerFacts, I!IsTypeOK
<1>21. HeldIsSent'
  BY <1>0, <1>1, <1>2, <1>3 DEF SteerFacts, HeldIsSent
<1>22. AckedWhy'
  BY <1>0, <1>1, <1>2, <1>3 DEF SteerFacts, AckedWhy
<1>23. AckedHeld'
  <2>1. \E r \in IsSteer : I!Same(s, r) /\ Carried(r)'
    <3>1. s \in IsSteer /\ isTyping[s] \in Nat
      BY <1>0 DEF SteerFacts
    <3>2. isTyping'[s] = isTyping[s] + 1
      BY <1>3, <3>1
    <3>3. Carried(s)'
      BY <3>1, <3>2 DEF Carried
    <3> QED BY <3>1, <3>3, SameText
  <2>2. \A t \in IsSteer : t # s /\ Carried(t) => Carried(t)'
    BY <1>0, <1>1, <1>2, <1>3 DEF SteerFacts, Carried
  <2>3. \A t \in IsSteer : Carried(t) => \E r \in IsSteer : I!Same(t, r) /\ Carried(r)'
    BY <2>1, <2>2, SameText
  <2>4. \A x \in isSeen' \ isSeen : \E r \in IsSteer : I!Same(x, r) /\ Carried(r)'
    <3>1. \A x \in isSeen' \ isSeen : x = s
      BY <1>1, <1>2, <1>3
    <3> QED BY <2>1, <3>1
  <2>5. isTwins' = isTwins /\ isGone' = isGone
    BY <1>1
  <2> QED BY <1>0, <2>3, <2>4, <2>5, CarriedOn
<1>24. I!OncePerFrame'
  <2> SUFFICES ASSUME NEW t \in IsSteer
               PROVE  isGiven'[t] + isTyping'[t] + I!Waiting(isBuffer', t) + I!Waiting(isBatch', t) <= isFrames'[t]
    BY DEF I!OncePerFrame, I!Waiting, I!Cardinality
  <2>1. /\ isGiven[t] + isTyping[t] + I!Waiting(isBuffer, t) + I!Waiting(isBatch, t) <= isFrames[t]
        /\ isGiven[t] \in Nat /\ isTyping[t] \in Nat /\ isFrames[t] \in Nat
        /\ I!Waiting(isBuffer, t) \in Nat /\ I!Waiting(isBatch, t) \in Nat
    BY <1>0, WaitingNat DEF SteerFacts, I!OncePerFrame
  <2> DEFINE d == IF t = s THEN 1 ELSE 0
  <2>2. /\ isFrames'[t] = isFrames[t] + d
        /\ isGiven'[t] = isGiven[t]
        /\ isTyping'[t] = isTyping[t] + d
        /\ isBuffer' = isBuffer
        /\ isBatch' = isBatch
    BY <1>1, <1>2, <1>3
  <2>3. d \in {0, 1}
    OBVIOUS
  <2> HIDE DEF d
  <2> QED BY <2>1, <2>2, <2>3
<1> QED BY <1>20, <1>21, <1>22, <1>23, <1>24 DEF IsInv

\* A steer is part of the turn at once.
LEMMA GivesFrame ==
    ASSUME IsInv, NEW s \in IsSteer, Framed(s),
           isFrames' = [isFrames EXCEPT ![s] = @ + 1], I!Acked(s), I!Gives(s),
           UNCHANGED <<isBuffer, isTyping, isEarly, isFaults>>
    PROVE  IsInv'
<1>0. SteerFacts /\ HeldIsSent /\ AckedWhy /\ AckedHeld /\ I!OncePerFrame
  BY SteerFactsAre DEF IsInv
<1>1. /\ s \in isSent /\ isWire' = isWire \ {s}
      /\ UNCHANGED <<isKind, isTwins, isTurn, isBatch, isTurns, isSent, isGone>>
  BY <1>0 DEF Framed, SteerFacts
<1>2. UNCHANGED <<isBuffer, isTyping, isEarly, isFaults>> /\ isSeen' = isSeen \cup {s}
  BY DEF I!Acked
<1>3. /\ isFrames' \in [IsSteer -> Nat] /\ \A t \in IsSteer : isFrames'[t] = isFrames[t] + (IF t = s THEN 1 ELSE 0)
      /\ isGiven' \in [IsSteer -> Nat] /\ \A t \in IsSteer : isGiven'[t] = isGiven[t] + (IF t = s THEN 1 ELSE 0)
  <2>1. isFrames \in [IsSteer -> Nat] /\ isFrames' = [isFrames EXCEPT ![s] = @ + 1]
    BY <1>0 DEF SteerFacts
  <2>2. isFrames' \in [IsSteer -> Nat] /\ \A t \in IsSteer : isFrames'[t] = isFrames[t] + (IF t = s THEN 1 ELSE 0)
    BY <2>1, CountedUp
  <2>3. isGiven \in [IsSteer -> Nat] /\ isGiven' = [isGiven EXCEPT ![s] = @ + 1]
    BY <1>0 DEF SteerFacts, I!Gives
  <2>4. isGiven' \in [IsSteer -> Nat] /\ \A t \in IsSteer : isGiven'[t] = isGiven[t] + (IF t = s THEN 1 ELSE 0)
    BY <2>3, CountedUp
  <2> QED BY <2>2, <2>4
<1>20. I!IsTypeOK'
  BY <1>0, <1>1, <1>2, <1>3 DEF SteerFacts, I!IsTypeOK
<1>21. HeldIsSent'
  BY <1>0, <1>1, <1>2, <1>3 DEF SteerFacts, HeldIsSent
<1>22. AckedWhy'
  BY <1>0, <1>1, <1>2, <1>3 DEF SteerFacts, AckedWhy
<1>23. AckedHeld'
  <2>1. \E r \in IsSteer : I!Same(s, r) /\ Carried(r)'
    <3>1. s \in IsSteer /\ isGiven[s] \in Nat
      BY <1>0 DEF SteerFacts
    <3>2. isGiven'[s] = isGiven[s] + 1
      BY <1>3, <3>1
    <3>3. Carried(s)'
      BY <3>1, <3>2 DEF Carried
    <3> QED BY <3>1, <3>3, SameText
  <2>2. \A t \in IsSteer : t # s /\ Carried(t) => Carried(t)'
    BY <1>0, <1>1, <1>2, <1>3 DEF SteerFacts, Carried
  <2>3. \A t \in IsSteer : Carried(t) => \E r \in IsSteer : I!Same(t, r) /\ Carried(r)'
    BY <2>1, <2>2, SameText
  <2>4. \A x \in isSeen' \ isSeen : \E r \in IsSteer : I!Same(x, r) /\ Carried(r)'
    <3>1. \A x \in isSeen' \ isSeen : x = s
      BY <1>1, <1>2, <1>3
    <3> QED BY <2>1, <3>1
  <2>5. isTwins' = isTwins /\ isGone' = isGone
    BY <1>1
  <2> QED BY <1>0, <2>3, <2>4, <2>5, CarriedOn
<1>24. I!OncePerFrame'
  <2> SUFFICES ASSUME NEW t \in IsSteer
               PROVE  isGiven'[t] + isTyping'[t] + I!Waiting(isBuffer', t) + I!Waiting(isBatch', t) <= isFrames'[t]
    BY DEF I!OncePerFrame, I!Waiting, I!Cardinality
  <2>1. /\ isGiven[t] + isTyping[t] + I!Waiting(isBuffer, t) + I!Waiting(isBatch, t) <= isFrames[t]
        /\ isGiven[t] \in Nat /\ isTyping[t] \in Nat /\ isFrames[t] \in Nat
        /\ I!Waiting(isBuffer, t) \in Nat /\ I!Waiting(isBatch, t) \in Nat
    BY <1>0, WaitingNat DEF SteerFacts, I!OncePerFrame
  <2> DEFINE d == IF t = s THEN 1 ELSE 0
  <2>2. /\ isFrames'[t] = isFrames[t] + d
        /\ isGiven'[t] = isGiven[t] + d
        /\ isTyping'[t] = isTyping[t]
        /\ isBuffer' = isBuffer
        /\ isBatch' = isBatch
    BY <1>1, <1>2, <1>3
  <2>3. d \in {0, 1}
    OBVIOUS
  <2> HIDE DEF d
  <2> QED BY <2>1, <2>2, <2>3
<1> QED BY <1>20, <1>21, <1>22, <1>23, <1>24 DEF IsInv

\* A steer waits for the boundary.
LEMMA BufferedFrame ==
    ASSUME IsInv, NEW s \in IsSteer, Framed(s),
           isFrames' = [isFrames EXCEPT ![s] = @ + 1], I!Buffered(s), I!IsFault \/ isFaults' = isFaults,
           UNCHANGED <<isTyping, isGiven>>
    PROVE  IsInv'
<1>0. SteerFacts /\ HeldIsSent /\ AckedWhy /\ AckedHeld /\ I!OncePerFrame
  BY SteerFactsAre DEF IsInv
<1>1. /\ s \in isSent /\ isWire' = isWire \ {s}
      /\ UNCHANGED <<isKind, isTwins, isTurn, isBatch, isTurns, isSent, isGone>>
  BY <1>0 DEF Framed, SteerFacts
<1>2. UNCHANGED <<isTyping, isGiven>> /\ isFaults' \in 0..IsMaxFaults
  BY <1>0, FaultTakes DEF SteerFacts
<1>3. /\ isFrames' \in [IsSteer -> Nat] /\ \A t \in IsSteer : isFrames'[t] = isFrames[t] + (IF t = s THEN 1 ELSE 0)
  <2>1. isFrames \in [IsSteer -> Nat] /\ isFrames' = [isFrames EXCEPT ![s] = @ + 1]
    BY <1>0 DEF SteerFacts
  <2>2. isFrames' \in [IsSteer -> Nat] /\ \A t \in IsSteer : isFrames'[t] = isFrames[t] + (IF t = s THEN 1 ELSE 0)
    BY <2>1, CountedUp
  <2> QED BY <2>2
<1>4. /\ isBuffer' \in Seq(IsSteer) /\ \A i \in DOMAIN isBuffer' : isBuffer'[i] \in isSent
      /\ isSeen \subseteq isSeen' /\ isEarly \subseteq isEarly' /\ isEarly' \subseteq isSeen' /\ isSeen' \subseteq isSent
      /\ \A x \in isSeen' \ isSeen : x = s /\ x \in isEarly'
      /\ \A t \in IsSteer : HoldsSteer(isBuffer, t) => HoldsSteer(isBuffer', t)
      /\ \E r \in IsSteer : I!Same(s, r) /\ HoldsSteer(isBuffer', r)
      /\ \A t \in IsSteer : /\ I!Waiting(isBuffer', t) \in Nat
                            /\ I!Waiting(isBuffer', t) <= I!Waiting(isBuffer, t) + (IF t = s THEN 1 ELSE 0)
  BY <1>0, <1>1, BufferedDoes DEF BufferedLeaves, SteerFacts, I!Refused
<1>20. I!IsTypeOK'
  BY <1>0, <1>1, <1>2, <1>3, <1>4 DEF SteerFacts, I!IsTypeOK
<1>21. HeldIsSent'
  BY <1>0, <1>1, <1>2, <1>3, <1>4 DEF SteerFacts, HeldIsSent
<1>22. AckedWhy'
  BY <1>0, <1>1, <1>2, <1>3, <1>4 DEF SteerFacts, AckedWhy
<1>23. AckedHeld'
  <2>1. \E r \in IsSteer : I!Same(s, r) /\ Carried(r)'
    BY <1>0, <1>1, <1>2, <1>3, <1>4, SameText DEF SteerFacts, Carried
  <2>2. \A t \in IsSteer : t # s /\ Carried(t) => Carried(t)'
    BY <1>0, <1>1, <1>2, <1>3, <1>4 DEF SteerFacts, Carried
  <2>3. \A t \in IsSteer : Carried(t) => \E r \in IsSteer : I!Same(t, r) /\ Carried(r)'
    BY <2>1, <2>2, SameText
  <2>4. \A x \in isSeen' \ isSeen : \E r \in IsSteer : I!Same(x, r) /\ Carried(r)'
    <3>1. \A x \in isSeen' \ isSeen : x = s
      BY <1>1, <1>2, <1>3, <1>4
    <3> QED BY <2>1, <3>1
  <2>5. isTwins' = isTwins /\ isGone' = isGone
    BY <1>1
  <2> QED BY <1>0, <2>3, <2>4, <2>5, CarriedOn
<1>24. I!OncePerFrame'
  <2> SUFFICES ASSUME NEW t \in IsSteer
               PROVE  isGiven'[t] + isTyping'[t] + I!Waiting(isBuffer', t) + I!Waiting(isBatch', t) <= isFrames'[t]
    BY DEF I!OncePerFrame, I!Waiting, I!Cardinality
  <2>1. /\ isGiven[t] + isTyping[t] + I!Waiting(isBuffer, t) + I!Waiting(isBatch, t) <= isFrames[t]
        /\ isGiven[t] \in Nat /\ isTyping[t] \in Nat /\ isFrames[t] \in Nat
        /\ I!Waiting(isBuffer, t) \in Nat /\ I!Waiting(isBatch, t) \in Nat
    BY <1>0, WaitingNat DEF SteerFacts, I!OncePerFrame
  <2> DEFINE d == IF t = s THEN 1 ELSE 0
  <2>2. /\ isFrames'[t] = isFrames[t] + d
        /\ isGiven'[t] = isGiven[t]
        /\ isTyping'[t] = isTyping[t]
        /\ I!Waiting(isBuffer', t) \in Nat
        /\ I!Waiting(isBuffer', t) <= I!Waiting(isBuffer, t) + d
        /\ isBatch' = isBatch
    BY <1>1, <1>2, <1>3, <1>4
  <2>3. d \in {0, 1}
    OBVIOUS
  <2> HIDE DEF d
  <2> QED BY <2>1, <2>2, <2>3
<1> QED BY <1>20, <1>21, <1>22, <1>23, <1>24 DEF IsInv

\* The write has worked.
LEMMA TypedGives ==
    ASSUME IsInv, NEW s \in IsSteer, I!Typed(s), I!Acked(s), I!Gives(s), UNCHANGED <<isBuffer, isEarly, isFaults>>
    PROVE  IsInv'
<1>0. SteerFacts /\ HeldIsSent /\ AckedWhy /\ AckedHeld /\ I!OncePerFrame
  BY SteerFactsAre DEF IsInv
<1>1. /\ s \in isSent /\ isTyping[s] > 0
      /\ UNCHANGED <<isKind, isTwins, isTurn, isBatch, isTurns, isSent, isWire, isFrames, isGone>>
  BY <1>0 DEF I!Typed, HeldIsSent, SteerFacts, I!isFixed, I!isLoop, I!isOffice, I!isHistory
<1>2. UNCHANGED <<isBuffer, isEarly, isFaults>> /\ isSeen' = isSeen \cup {s}
  BY DEF I!Acked
<1>3. /\ isTyping' \in [IsSteer -> Nat] /\ \A t \in IsSteer : isTyping'[t] = isTyping[t] - (IF t = s THEN 1 ELSE 0)
      /\ isGiven' \in [IsSteer -> Nat] /\ \A t \in IsSteer : isGiven'[t] = isGiven[t] + (IF t = s THEN 1 ELSE 0)
  <2>1. isTyping' = [isTyping EXCEPT ![s] = isTyping[s] - 1] /\ isGiven' = [isGiven EXCEPT ![s] = isGiven[s] + 1]
    BY DEF I!Typed, I!Gives
  <2>2. isTyping \in [IsSteer -> Nat] /\ isGiven \in [IsSteer -> Nat] /\ isTyping[s] - 1 \in Nat
    BY <1>0, <1>1 DEF SteerFacts
  <2> QED BY <2>1, <2>2
<1>20. I!IsTypeOK'
  BY <1>0, <1>1, <1>2, <1>3 DEF SteerFacts, I!IsTypeOK
<1>21. HeldIsSent'
  <2>1. \A t \in IsSteer : isTyping'[t] > 0 => isTyping[t] > 0
    <3> SUFFICES ASSUME NEW t \in IsSteer, isTyping'[t] > 0 PROVE isTyping[t] > 0
      OBVIOUS
    <3>1. isTyping[t] \in Nat
      BY <1>0 DEF SteerFacts
    <3>2. isTyping'[t] = isTyping[t] - (IF t = s THEN 1 ELSE 0)
      BY <1>3
    <3> QED BY <1>1, <3>1, <3>2
  <2> QED BY <1>0, <1>1, <1>2, <2>1 DEF HeldIsSent
<1>22. AckedWhy'
  BY <1>0, <1>1, <1>2, <1>3 DEF SteerFacts, AckedWhy
<1>23. AckedHeld'
  <2>1. \E r \in IsSteer : I!Same(s, r) /\ Carried(r)'
    <3>1. s \in IsSteer /\ isGiven[s] \in Nat
      BY <1>0 DEF SteerFacts
    <3>2. isGiven'[s] = isGiven[s] + 1
      BY <1>3, <3>1
    <3>3. Carried(s)'
      BY <3>1, <3>2 DEF Carried
    <3> QED BY <3>1, <3>3, SameText
  <2>2. \A t \in IsSteer : t # s /\ Carried(t) => Carried(t)'
    BY <1>0, <1>1, <1>2, <1>3 DEF SteerFacts, Carried
  <2>3. \A t \in IsSteer : Carried(t) => \E r \in IsSteer : I!Same(t, r) /\ Carried(r)'
    BY <2>1, <2>2, SameText
  <2>4. \A x \in isSeen' \ isSeen : \E r \in IsSteer : I!Same(x, r) /\ Carried(r)'
    <3>1. \A x \in isSeen' \ isSeen : x = s
      BY <1>1, <1>2, <1>3
    <3> QED BY <2>1, <3>1
  <2>5. isTwins' = isTwins /\ isGone' = isGone
    BY <1>1
  <2> QED BY <1>0, <2>3, <2>4, <2>5, CarriedOn
<1>24. I!OncePerFrame'
  <2> SUFFICES ASSUME NEW t \in IsSteer
               PROVE  isGiven'[t] + isTyping'[t] + I!Waiting(isBuffer', t) + I!Waiting(isBatch', t) <= isFrames'[t]
    BY DEF I!OncePerFrame, I!Waiting, I!Cardinality
  <2>1. /\ isGiven[t] + isTyping[t] + I!Waiting(isBuffer, t) + I!Waiting(isBatch, t) <= isFrames[t]
        /\ isGiven[t] \in Nat /\ isTyping[t] \in Nat /\ isFrames[t] \in Nat
        /\ I!Waiting(isBuffer, t) \in Nat /\ I!Waiting(isBatch, t) \in Nat
    BY <1>0, WaitingNat DEF SteerFacts, I!OncePerFrame
  <2> DEFINE d == IF t = s THEN 1 ELSE 0
  <2>2. /\ isFrames'[t] = isFrames[t]
        /\ isGiven'[t] = isGiven[t] + d
        /\ isTyping'[t] = isTyping[t] - d
        /\ isBuffer' = isBuffer
        /\ isBatch' = isBatch
    BY <1>1, <1>2, <1>3
  <2>3. d \in {0, 1}
    OBVIOUS
  <2> HIDE DEF d
  <2> QED BY <2>1, <2>2, <2>3
<1> QED BY <1>20, <1>21, <1>22, <1>23, <1>24 DEF IsInv

\* The write was refused.
LEMMA TypedRefused ==
    ASSUME IsInv, NEW s \in IsSteer, I!Typed(s), I!Refused(s), I!IsFault \/ isFaults' = isFaults, isGiven' = isGiven
    PROVE  IsInv'
<1>0. SteerFacts /\ HeldIsSent /\ AckedWhy /\ AckedHeld /\ I!OncePerFrame
  BY SteerFactsAre DEF IsInv
<1>1. /\ s \in isSent /\ isTyping[s] > 0
      /\ UNCHANGED <<isKind, isTwins, isTurn, isBatch, isTurns, isSent, isWire, isFrames, isGone>>
  BY <1>0 DEF I!Typed, HeldIsSent, SteerFacts, I!isFixed, I!isLoop, I!isOffice, I!isHistory
<1>2. isGiven' = isGiven /\ isFaults' \in 0..IsMaxFaults
  BY <1>0, FaultTakes DEF SteerFacts
<1>3. /\ isTyping' \in [IsSteer -> Nat] /\ \A t \in IsSteer : isTyping'[t] = isTyping[t] - (IF t = s THEN 1 ELSE 0)
  <2>1. isTyping' = [isTyping EXCEPT ![s] = isTyping[s] - 1]
    BY DEF I!Typed, I!Gives
  <2>2. isTyping \in [IsSteer -> Nat] /\ isGiven \in [IsSteer -> Nat] /\ isTyping[s] - 1 \in Nat
    BY <1>0, <1>1 DEF SteerFacts
  <2> QED BY <2>1, <2>2
<1>4. /\ isBuffer' \in Seq(IsSteer) /\ \A i \in DOMAIN isBuffer' : isBuffer'[i] \in isSent
      /\ isSeen \subseteq isSeen' /\ isEarly \subseteq isEarly' /\ isEarly' \subseteq isSeen' /\ isSeen' \subseteq isSent
      /\ \A x \in isSeen' \ isSeen : x = s /\ x \in isEarly'
      /\ \A t \in IsSteer : HoldsSteer(isBuffer, t) => HoldsSteer(isBuffer', t)
      /\ \E r \in IsSteer : I!Same(s, r) /\ HoldsSteer(isBuffer', r)
      /\ \A t \in IsSteer : /\ I!Waiting(isBuffer', t) \in Nat
                            /\ I!Waiting(isBuffer', t) <= I!Waiting(isBuffer, t) + (IF t = s THEN 1 ELSE 0)
  BY <1>0, <1>1, BufferedDoes DEF BufferedLeaves, SteerFacts, I!Refused
<1>20. I!IsTypeOK'
  BY <1>0, <1>1, <1>2, <1>3, <1>4 DEF SteerFacts, I!IsTypeOK
<1>21. HeldIsSent'
  <2>1. \A t \in IsSteer : isTyping'[t] > 0 => isTyping[t] > 0
    <3> SUFFICES ASSUME NEW t \in IsSteer, isTyping'[t] > 0 PROVE isTyping[t] > 0
      OBVIOUS
    <3>1. isTyping[t] \in Nat
      BY <1>0 DEF SteerFacts
    <3>2. isTyping'[t] = isTyping[t] - (IF t = s THEN 1 ELSE 0)
      BY <1>3
    <3> QED BY <1>1, <3>1, <3>2
  <2> QED BY <1>0, <1>1, <1>2, <2>1, <1>4 DEF HeldIsSent
<1>22. AckedWhy'
  BY <1>0, <1>1, <1>2, <1>3, <1>4 DEF SteerFacts, AckedWhy
<1>23. AckedHeld'
  <2>1. \E r \in IsSteer : I!Same(s, r) /\ Carried(r)'
    BY <1>0, <1>1, <1>2, <1>3, <1>4, SameText DEF SteerFacts, Carried
  <2>2. \A t \in IsSteer : t # s /\ Carried(t) => Carried(t)'
    BY <1>0, <1>1, <1>2, <1>3, <1>4 DEF SteerFacts, Carried
  <2>3. \A t \in IsSteer : Carried(t) => \E r \in IsSteer : I!Same(t, r) /\ Carried(r)'
    BY <2>1, <2>2, SameText
  <2>4. \A x \in isSeen' \ isSeen : \E r \in IsSteer : I!Same(x, r) /\ Carried(r)'
    <3>1. \A x \in isSeen' \ isSeen : x = s
      BY <1>1, <1>2, <1>3, <1>4
    <3> QED BY <2>1, <3>1
  <2>5. isTwins' = isTwins /\ isGone' = isGone
    BY <1>1
  <2> QED BY <1>0, <2>3, <2>4, <2>5, CarriedOn
<1>24. I!OncePerFrame'
  <2> SUFFICES ASSUME NEW t \in IsSteer
               PROVE  isGiven'[t] + isTyping'[t] + I!Waiting(isBuffer', t) + I!Waiting(isBatch', t) <= isFrames'[t]
    BY DEF I!OncePerFrame, I!Waiting, I!Cardinality
  <2>1. /\ isGiven[t] + isTyping[t] + I!Waiting(isBuffer, t) + I!Waiting(isBatch, t) <= isFrames[t]
        /\ isGiven[t] \in Nat /\ isTyping[t] \in Nat /\ isFrames[t] \in Nat
        /\ I!Waiting(isBuffer, t) \in Nat /\ I!Waiting(isBatch, t) \in Nat
    BY <1>0, WaitingNat DEF SteerFacts, I!OncePerFrame
  <2> DEFINE d == IF t = s THEN 1 ELSE 0
  <2>2. /\ isFrames'[t] = isFrames[t]
        /\ isGiven'[t] = isGiven[t]
        /\ isTyping'[t] = isTyping[t] - d
        /\ I!Waiting(isBuffer', t) \in Nat
        /\ I!Waiting(isBuffer', t) <= I!Waiting(isBuffer, t) + d
        /\ isBatch' = isBatch
    BY <1>1, <1>2, <1>3, <1>4
  <2>3. d \in {0, 1}
    OBVIOUS
  <2> HIDE DEF d
  <2> QED BY <2>1, <2>2, <2>3
<1> QED BY <1>20, <1>21, <1>22, <1>23, <1>24 DEF IsInv

\* The steer becomes a task.
LEMMA AppendedGives ==
    ASSUME IsInv, I!Appended, I!Acked(Head(isBatch)), I!Gives(Head(isBatch)), UNCHANGED <<isBuffer, isFaults>>
    PROVE  IsInv'
<1>0. SteerFacts /\ HeldIsSent /\ AckedWhy /\ AckedHeld /\ I!OncePerFrame
  BY SteerFactsAre DEF IsInv
<1> DEFINE s == Head(isBatch)
<1>1. /\ isBatch # <<>> /\ isTurn = "draining" /\ isBatch' = Tail(isBatch)
      /\ UNCHANGED <<isKind, isTwins, isTurn, isTyping, isTurns, isSent, isWire, isFrames, isEarly, isGone>>
  BY DEF I!Appended, I!isFixed, I!isLoop, I!isOffice, I!isHistory
<1>5. /\ s \in IsSteer /\ s \in isSent /\ isBatch' \in Seq(IsSteer)
      /\ \A i \in DOMAIN isBatch' : isBatch'[i] \in isSent
      /\ \A t \in IsSteer : HoldsSteer(isBatch, t) => t = s \/ HoldsSteer(isBatch', t)
  <2>1. /\ isBatch \in Seq(IsSteer) /\ Len(isBatch) \in Nat /\ DOMAIN isBatch = 1..Len(isBatch) /\ Len(isBatch) > 0
        /\ s = isBatch[1] /\ isBatch' \in Seq(IsSteer) /\ DOMAIN isBatch' = 1..(Len(isBatch) - 1)
        /\ \A i \in 1..(Len(isBatch) - 1) : isBatch'[i] = isBatch[i + 1]
    BY <1>0, <1>1, HeadTailProperties DEF SteerFacts
  <2>2. \A i \in DOMAIN isBatch : isBatch[i] \in isSent
    BY <1>0 DEF HeldIsSent
  <2>3. s \in isSent /\ \A i \in DOMAIN isBatch' : isBatch'[i] \in isSent
    BY <2>1, <2>2
  <2>4. ASSUME NEW t \in IsSteer, HoldsSteer(isBatch, t), t # s PROVE HoldsSteer(isBatch', t)
    <3>1. PICK i \in 1..Len(isBatch) : isBatch[i] = t
      BY <2>1, <2>4 DEF HoldsSteer
    <3>2. i # 1
      BY <2>1, <2>4, <3>1
    <3>3. i - 1 \in 1..(Len(isBatch) - 1) /\ isBatch'[i - 1] = isBatch[(i - 1) + 1] /\ (i - 1) + 1 = i
      BY <2>1, <3>1, <3>2
    <3> QED BY <2>1, <3>1, <3>3 DEF HoldsSteer
  <2> QED BY <1>0, <2>1, <2>3, <2>4 DEF SteerFacts
<1>6. \A t \in IsSteer : /\ I!Waiting(isBatch', t) \in Nat
                         /\ I!Waiting(isBatch', t) + (IF t = s THEN 1 ELSE 0) <= I!Waiting(isBatch, t)
  BY <1>0, <1>1, <1>5, WaitingLess, WaitingNat DEF SteerFacts
<1>2. UNCHANGED <<isBuffer, isFaults>> /\ isSeen' = isSeen \cup {s}
  BY DEF I!Acked
<1>3. /\ isGiven' \in [IsSteer -> Nat] /\ \A t \in IsSteer : isGiven'[t] = isGiven[t] + (IF t = s THEN 1 ELSE 0)
  <2>1. isGiven \in [IsSteer -> Nat] /\ isGiven' = [isGiven EXCEPT ![s] = @ + 1]
    BY <1>0 DEF SteerFacts, I!Gives
  <2>2. isGiven' \in [IsSteer -> Nat] /\ \A t \in IsSteer : isGiven'[t] = isGiven[t] + (IF t = s THEN 1 ELSE 0)
    BY <2>1, <1>5, CountedUp
  <2> QED BY <2>2
<1> HIDE DEF s
<1>20. I!IsTypeOK'
  BY <1>0, <1>1, <1>2, <1>3, <1>5, <1>6 DEF SteerFacts, I!IsTypeOK
<1>21. HeldIsSent'
  BY <1>0, <1>1, <1>2, <1>3, <1>5, <1>6 DEF SteerFacts, HeldIsSent
<1>22. AckedWhy'
  <2>1. s \in IsSteer /\ isEarly' = isEarly /\ isSeen' = isSeen \cup {s} /\ isSeen \subseteq IsSteer
    BY <1>0, <1>1, <1>2, <1>5 DEF SteerFacts
  <2>2. \A t \in IsSteer : isGiven[t] \in Nat /\ isGiven'[t] = isGiven[t] + (IF t = s THEN 1 ELSE 0)
    BY <1>0, <1>3 DEF SteerFacts
  <2>3. \A t \in isSeen : t \in isEarly \/ isGiven[t] > 0
    BY <1>0 DEF AckedWhy
  <2>4. ASSUME NEW t \in isSeen' PROVE t \in isEarly' \/ isGiven'[t] > 0
    BY <2>1, <2>2, <2>3, <2>4
  <2> QED BY <2>4 DEF AckedWhy
<1>23. AckedHeld'
  <2>1. \E r \in IsSteer : I!Same(s, r) /\ Carried(r)'
    <3>1. s \in IsSteer /\ isGiven[s] \in Nat
      BY <1>0, <1>5 DEF SteerFacts
    <3>2. isGiven'[s] = isGiven[s] + 1
      BY <1>3, <3>1
    <3>3. \E r \in IsSteer : I!Same(s, r) /\ isGiven'[r] > 0
      <4>1. I!Same(s, s) /\ isGiven'[s] > 0
        BY <3>1, <3>2, SameText
      <4> QED BY <3>1, <4>1
    <3>4. \A r \in IsSteer : isGiven'[r] > 0 => Carried(r)'
      BY DEF Carried
    <3> QED BY <3>3, <3>4
  <2>2. \A t \in IsSteer : t # s /\ Carried(t) => Carried(t)'
    BY <1>0, <1>1, <1>2, <1>3, <1>5, <1>6 DEF SteerFacts, Carried
  <2>3. \A t \in IsSteer : Carried(t) => \E r \in IsSteer : I!Same(t, r) /\ Carried(r)'
    BY <2>1, <2>2, SameText
  <2>4. \A x \in isSeen' \ isSeen : \E r \in IsSteer : I!Same(x, r) /\ Carried(r)'
    <3>1. \A x \in isSeen' \ isSeen : x = s
      BY <1>1, <1>2, <1>3, <1>5, <1>6
    <3> QED BY <2>1, <3>1
  <2>5. isTwins' = isTwins /\ isGone' = isGone
    BY <1>1
  <2> QED BY <1>0, <2>3, <2>4, <2>5, CarriedOn
<1>24. I!OncePerFrame'
  <2> SUFFICES ASSUME NEW t \in IsSteer
               PROVE  isGiven'[t] + isTyping'[t] + I!Waiting(isBuffer', t) + I!Waiting(isBatch', t) <= isFrames'[t]
    BY DEF I!OncePerFrame, I!Waiting, I!Cardinality
  <2>1. /\ isGiven[t] + isTyping[t] + I!Waiting(isBuffer, t) + I!Waiting(isBatch, t) <= isFrames[t]
        /\ isGiven[t] \in Nat /\ isTyping[t] \in Nat /\ isFrames[t] \in Nat
        /\ I!Waiting(isBuffer, t) \in Nat /\ I!Waiting(isBatch, t) \in Nat
    BY <1>0, WaitingNat DEF SteerFacts, I!OncePerFrame
  <2> DEFINE d == IF t = s THEN 1 ELSE 0
  <2>2. /\ isFrames'[t] = isFrames[t]
        /\ isGiven'[t] = isGiven[t] + d
        /\ isTyping'[t] = isTyping[t]
        /\ isBuffer' = isBuffer
        /\ I!Waiting(isBatch', t) \in Nat
        /\ I!Waiting(isBatch', t) + d <= I!Waiting(isBatch, t)
    BY <1>1, <1>2, <1>3, <1>5, <1>6
  <2>3. d \in {0, 1}
    OBVIOUS
  <2> HIDE DEF d
  <2> QED BY <2>1, <2>2, <2>3
<1> QED BY <1>20, <1>21, <1>22, <1>23, <1>24 DEF IsInv

\* The append fails, and the steer waits again.
LEMMA AppendedFails ==
    ASSUME IsInv, I!Appended, I!IsFault, I!PutBack(Head(isBatch)), UNCHANGED <<isSeen, isGiven>>
    PROVE  IsInv'
<1>0. SteerFacts /\ HeldIsSent /\ AckedWhy /\ AckedHeld /\ I!OncePerFrame
  BY SteerFactsAre DEF IsInv
<1> DEFINE s == Head(isBatch)
<1>1. /\ isBatch # <<>> /\ isTurn = "draining" /\ isBatch' = Tail(isBatch)
      /\ UNCHANGED <<isKind, isTwins, isTurn, isTyping, isTurns, isSent, isWire, isFrames, isEarly, isGone>>
  BY DEF I!Appended, I!isFixed, I!isLoop, I!isOffice, I!isHistory
<1>5. /\ s \in IsSteer /\ s \in isSent /\ isBatch' \in Seq(IsSteer)
      /\ \A i \in DOMAIN isBatch' : isBatch'[i] \in isSent
      /\ \A t \in IsSteer : HoldsSteer(isBatch, t) => t = s \/ HoldsSteer(isBatch', t)
  <2>1. /\ isBatch \in Seq(IsSteer) /\ Len(isBatch) \in Nat /\ DOMAIN isBatch = 1..Len(isBatch) /\ Len(isBatch) > 0
        /\ s = isBatch[1] /\ isBatch' \in Seq(IsSteer) /\ DOMAIN isBatch' = 1..(Len(isBatch) - 1)
        /\ \A i \in 1..(Len(isBatch) - 1) : isBatch'[i] = isBatch[i + 1]
    BY <1>0, <1>1, HeadTailProperties DEF SteerFacts
  <2>2. \A i \in DOMAIN isBatch : isBatch[i] \in isSent
    BY <1>0 DEF HeldIsSent
  <2>3. s \in isSent /\ \A i \in DOMAIN isBatch' : isBatch'[i] \in isSent
    BY <2>1, <2>2
  <2>4. ASSUME NEW t \in IsSteer, HoldsSteer(isBatch, t), t # s PROVE HoldsSteer(isBatch', t)
    <3>1. PICK i \in 1..Len(isBatch) : isBatch[i] = t
      BY <2>1, <2>4 DEF HoldsSteer
    <3>2. i # 1
      BY <2>1, <2>4, <3>1
    <3>3. i - 1 \in 1..(Len(isBatch) - 1) /\ isBatch'[i - 1] = isBatch[(i - 1) + 1] /\ (i - 1) + 1 = i
      BY <2>1, <3>1, <3>2
    <3> QED BY <2>1, <3>1, <3>3 DEF HoldsSteer
  <2> QED BY <1>0, <2>1, <2>3, <2>4 DEF SteerFacts
<1>6. \A t \in IsSteer : /\ I!Waiting(isBatch', t) \in Nat
                         /\ I!Waiting(isBatch', t) + (IF t = s THEN 1 ELSE 0) <= I!Waiting(isBatch, t)
  BY <1>0, <1>1, <1>5, WaitingLess, WaitingNat DEF SteerFacts
<1>2. UNCHANGED <<isSeen, isGiven>> /\ isBuffer' = Append(isBuffer, s) /\ isFaults' \in 0..IsMaxFaults
  BY <1>0, FaultTakes DEF I!PutBack
<1> HIDE DEF s
<1>3. /\ isBuffer' \in Seq(IsSteer) /\ \A i \in DOMAIN isBuffer' : isBuffer'[i] \in isSent
      /\ HoldsSteer(isBuffer', s) /\ \A t \in IsSteer : HoldsSteer(isBuffer, t) => HoldsSteer(isBuffer', t)
  <2>1. /\ isBuffer' \in Seq(IsSteer) /\ Len(isBuffer) \in Nat
        /\ \A i \in 1..Len(isBuffer) : isBuffer'[i] = isBuffer[i]
        /\ isBuffer'[Len(isBuffer) + 1] = s
        /\ DOMAIN isBuffer = 1..Len(isBuffer) /\ DOMAIN isBuffer' = 1..(Len(isBuffer) + 1)
    BY <1>0, <1>2, <1>5 DEF SteerFacts
  <2> QED BY <1>0, <1>5, <2>1 DEF HeldIsSent, HoldsSteer
<1>4. \A t \in IsSteer : /\ I!Waiting(isBuffer', t) \in Nat
                         /\ I!Waiting(isBuffer', t) = I!Waiting(isBuffer, t) + (IF t = s THEN 1 ELSE 0)
  <2> TAKE t \in IsSteer
  <2>1. I!Waiting(isBuffer', t) \in Nat /\ isBuffer \in Seq(IsSteer) /\ I!Waiting(isBuffer, t) \in Nat
    BY <1>0, <1>3, WaitingNat DEF SteerFacts
  <2>2. I!Waiting(Append(isBuffer, s), t) = I!Waiting(isBuffer, t) + (IF s = t THEN 1 ELSE 0)
    BY <1>5, <2>1, WaitingMore
  <2> QED BY <1>2, <2>1, <2>2
<1>20. I!IsTypeOK'
  BY <1>0, <1>1, <1>2, <1>3, <1>4, <1>5, <1>6 DEF SteerFacts, I!IsTypeOK
<1>21. HeldIsSent'
  BY <1>0, <1>1, <1>2, <1>3, <1>4, <1>5, <1>6 DEF SteerFacts, HeldIsSent
<1>22. AckedWhy'
  BY <1>0, <1>1, <1>2, <1>3, <1>4, <1>5, <1>6 DEF SteerFacts, AckedWhy
<1>23. AckedHeld'
  <2>1. \E r \in IsSteer : I!Same(s, r) /\ Carried(r)'
    BY <1>0, <1>1, <1>2, <1>3, <1>4, <1>5, <1>6, SameText DEF SteerFacts, Carried
  <2>2. \A t \in IsSteer : t # s /\ Carried(t) => Carried(t)'
    BY <1>0, <1>1, <1>2, <1>3, <1>4, <1>5, <1>6 DEF SteerFacts, Carried
  <2>3. \A t \in IsSteer : Carried(t) => \E r \in IsSteer : I!Same(t, r) /\ Carried(r)'
    BY <2>1, <2>2, SameText
  <2>4. \A x \in isSeen' \ isSeen : \E r \in IsSteer : I!Same(x, r) /\ Carried(r)'
    <3>1. \A x \in isSeen' \ isSeen : x = s
      BY <1>1, <1>2, <1>3, <1>4, <1>5, <1>6
    <3> QED BY <2>1, <3>1
  <2>5. isTwins' = isTwins /\ isGone' = isGone
    BY <1>1
  <2> QED BY <1>0, <2>3, <2>4, <2>5, CarriedOn
<1>24. I!OncePerFrame'
  <2> SUFFICES ASSUME NEW t \in IsSteer
               PROVE  isGiven'[t] + isTyping'[t] + I!Waiting(isBuffer', t) + I!Waiting(isBatch', t) <= isFrames'[t]
    BY DEF I!OncePerFrame, I!Waiting, I!Cardinality
  <2>1. /\ isGiven[t] + isTyping[t] + I!Waiting(isBuffer, t) + I!Waiting(isBatch, t) <= isFrames[t]
        /\ isGiven[t] \in Nat /\ isTyping[t] \in Nat /\ isFrames[t] \in Nat
        /\ I!Waiting(isBuffer, t) \in Nat /\ I!Waiting(isBatch, t) \in Nat
    BY <1>0, WaitingNat DEF SteerFacts, I!OncePerFrame
  <2> DEFINE d == IF t = s THEN 1 ELSE 0
  <2>2. /\ isFrames'[t] = isFrames[t]
        /\ isGiven'[t] = isGiven[t]
        /\ isTyping'[t] = isTyping[t]
        /\ I!Waiting(isBuffer', t) \in Nat
        /\ I!Waiting(isBuffer', t) = I!Waiting(isBuffer, t) + d
        /\ I!Waiting(isBatch', t) \in Nat
        /\ I!Waiting(isBatch', t) + d <= I!Waiting(isBatch, t)
    BY <1>1, <1>2, <1>3, <1>4, <1>5, <1>6
  <2>3. d \in {0, 1}
    OBVIOUS
  <2> HIDE DEF d
  <2> QED BY <2>1, <2>2, <2>3
<1> QED BY <1>20, <1>21, <1>22, <1>23, <1>24 DEF IsInv

\* A turn boundary.
LEMMA BoundaryKeeps ==
    ASSUME IsInv, I!Boundary
    PROVE  IsInv'
<1>0. SteerFacts /\ HeldIsSent /\ AckedWhy /\ AckedHeld /\ I!OncePerFrame
  BY SteerFactsAre DEF IsInv
<1>1. /\ isTurn = "idle" /\ isTurn' = "draining" /\ isBatch' = isBuffer /\ isBuffer' = <<>>
      /\ isTurns' \in 0..IsMaxTurn
      /\ UNCHANGED <<isKind, isTwins, isTyping, isSent, isWire, isSeen, isGiven, isFrames, isEarly, isGone, isFaults>>
  <2>1. isTurns' = isTurns \/ (isTurns < IsMaxTurn /\ isTurns' = isTurns + 1)
    BY DEF I!Boundary
  <2>2. isTurns \in 0..IsMaxTurn /\ IsMaxTurn \in Nat
    BY <1>0 DEF SteerFacts
  <2>3. isTurns' \in 0..IsMaxTurn
    BY <2>1, <2>2
  <2>4. /\ isTurn = "idle" /\ isTurn' = "draining" /\ isBatch' = isBuffer /\ isBuffer' = <<>>
        /\ UNCHANGED <<isKind, isTwins, isTyping, isSent, isWire, isSeen, isGiven, isFrames, isEarly, isGone, isFaults>>
    BY DEF I!Boundary, I!Taken, I!isFixed, I!isOffice, I!isHistory
  <2> QED BY <2>3, <2>4
<1>2. isBatch = <<>>
  BY <1>0, <1>1 DEF SteerFacts
<1>3. /\ <<>> \in Seq(IsSteer) /\ DOMAIN <<>> = {} /\ \A t \in IsSteer : ~HoldsSteer(<<>>, t) /\ I!Waiting(<<>>, t) = 0
  BY WaitingNone DEF HoldsSteer
<1>4. \A t \in IsSteer : ~HoldsSteer(isBatch, t) /\ I!Waiting(isBuffer', t) = 0 /\ I!Waiting(isBatch, t) = 0
  BY <1>1, <1>2, <1>3
<1>20. I!IsTypeOK'
  BY <1>0, <1>1, <1>2, <1>3, <1>4 DEF SteerFacts, I!IsTypeOK
<1>21. HeldIsSent'
  BY <1>0, <1>1, <1>2, <1>3, <1>4 DEF SteerFacts, HeldIsSent
<1>22. AckedWhy'
  BY <1>0, <1>1, <1>2, <1>3, <1>4 DEF SteerFacts, AckedWhy
<1>23. AckedHeld'
  <2>1. \A t \in IsSteer : Carried(t) => \E r \in IsSteer : I!Same(t, r) /\ Carried(r)'
    BY <1>0, <1>1, <1>2, <1>3, <1>4, SameText DEF SteerFacts, Carried
  <2>2. \A x \in isSeen' \ isSeen : \E r \in IsSteer : I!Same(x, r) /\ Carried(r)'
    BY <1>0, <1>1, <1>2, <1>3, <1>4, SameText DEF SteerFacts, Carried
  <2> QED BY <1>0, <1>1, <1>2, <1>3, <1>4, <2>1, <2>2, CarriedOn
<1>24. I!OncePerFrame'
  <2> SUFFICES ASSUME NEW t \in IsSteer
               PROVE  isGiven'[t] + isTyping'[t] + I!Waiting(isBuffer', t) + I!Waiting(isBatch', t) <= isFrames'[t]
    BY DEF I!OncePerFrame, I!Waiting, I!Cardinality
  <2>1. /\ isGiven[t] + isTyping[t] + I!Waiting(isBuffer, t) + I!Waiting(isBatch, t) <= isFrames[t]
        /\ isGiven[t] \in Nat /\ isTyping[t] \in Nat /\ isFrames[t] \in Nat
        /\ I!Waiting(isBuffer, t) \in Nat /\ I!Waiting(isBatch, t) \in Nat
    BY <1>0, WaitingNat DEF SteerFacts, I!OncePerFrame
  <2> QED BY <1>0, <2>1, <1>1, <1>2, <1>3, <1>4 DEF SteerFacts
<1> QED BY <1>20, <1>21, <1>22, <1>23, <1>24 DEF IsInv

\* The process dies.
LEMMA KillKeeps ==
    ASSUME IsInv, I!Killed
    PROVE  IsInv'
<1>0. SteerFacts /\ HeldIsSent /\ AckedWhy /\ AckedHeld /\ I!OncePerFrame
  BY SteerFactsAre DEF IsInv
<1>1. /\ isTurn' = "idle" /\ isBuffer' = <<>> /\ isBatch' = <<>> /\ isTyping' = [t \in IsSteer |-> 0]
      /\ isWire' = isSent \ isSeen /\ isGone' = isGone \cup {t \in isEarly : ~I!Reached(t)}
      /\ isFaults' \in 0..IsMaxFaults
      /\ UNCHANGED <<isKind, isTwins, isTurns, isSent, isSeen, isGiven, isFrames, isEarly>>
  BY <1>0, FaultTakes DEF I!Killed, I!Unacked, I!isFixed, I!isLoop, I!isOffice, I!isHistory
<1>2. /\ <<>> \in Seq(IsSteer) /\ DOMAIN <<>> = {} /\ \A t \in IsSteer : I!Waiting(<<>>, t) = 0
  BY WaitingNone
<1>3. \A t \in IsSteer : I!Waiting(isBuffer', t) = 0 /\ I!Waiting(isBatch', t) = 0 /\ isTyping'[t] = 0
  BY <1>1, <1>2
<1>4. isBuffer' \in Seq(IsSteer) /\ isBatch' \in Seq(IsSteer) /\ isTyping' \in [IsSteer -> Nat]
  BY <1>1, <1>2
<1>20. I!IsTypeOK'
  BY <1>0, <1>1, <1>2, <1>3, <1>4 DEF SteerFacts, I!IsTypeOK
<1>21. HeldIsSent'
  BY <1>0, <1>1, <1>2, <1>3, <1>4 DEF SteerFacts, HeldIsSent
<1>22. AckedWhy'
  BY <1>0, <1>1, <1>2, <1>3, <1>4 DEF SteerFacts, AckedWhy
<1>23. AckedHeld'
  <2> SUFFICES ASSUME NEW x \in isSeen' \ isGone' PROVE \E r \in IsSteer : I!Same(x, r)' /\ Carried(r)'
    BY DEF AckedHeld
  <2>1. \A r : I!Same(x, r)' <=> I!Same(x, r)
    BY <1>1 DEF I!Same
  <2>2. CASE x \in isEarly
    <3>1. I!Reached(x)
      BY <1>1, <2>2
    <3>2. PICK r \in IsSteer : I!Same(x, r) /\ isGiven[r] > 0
      BY <3>1 DEF I!Reached
    <3> QED BY <1>1, <2>1, <3>2 DEF Carried
  <2>3. CASE x \notin isEarly
    <3>1. x \in IsSteer /\ isGiven[x] > 0
      BY <1>0, <1>1, <2>3 DEF AckedWhy, SteerFacts
    <3> QED BY <1>1, <2>1, <3>1, SameText DEF Carried
  <2> QED BY <2>2, <2>3
<1>24. I!OncePerFrame'
  <2> SUFFICES ASSUME NEW t \in IsSteer
               PROVE  isGiven'[t] + isTyping'[t] + I!Waiting(isBuffer', t) + I!Waiting(isBatch', t) <= isFrames'[t]
    BY DEF I!OncePerFrame, I!Waiting, I!Cardinality
  <2>1. /\ isGiven[t] + isTyping[t] + I!Waiting(isBuffer, t) + I!Waiting(isBatch, t) <= isFrames[t]
        /\ isGiven[t] \in Nat /\ isTyping[t] \in Nat /\ isFrames[t] \in Nat
        /\ I!Waiting(isBuffer, t) \in Nat /\ I!Waiting(isBatch, t) \in Nat
    BY <1>0, WaitingNat DEF SteerFacts, I!OncePerFrame
  <2> QED BY <1>0, <2>1, <1>1, <1>2, <1>3, <1>4 DEF SteerFacts
<1> QED BY <1>20, <1>21, <1>22, <1>23, <1>24 DEF IsInv

LEMMA SteersStep == IsInv /\ [I!IsNext]_iv => IsInv'
<1> SUFFICES ASSUME IsInv, [I!IsNext]_iv PROVE IsInv'
  OBVIOUS
<1>1. ASSUME NEW s \in IsSteer, I!Receive(s) PROVE IsInv'
  BY <1>1, FrameGoes, SeenFrame, TypesFrame, GivesFrame, BufferedFrame
<1>2. ASSUME NEW s \in IsSteer, I!Typed(s) PROVE IsInv'
  <2>1. \/ I!Acked(s) /\ I!Gives(s) /\ UNCHANGED <<isBuffer, isEarly, isFaults>>
        \/ I!Refused(s) /\ (I!IsFault \/ isFaults' = isFaults) /\ isGiven' = isGiven
    BY <1>2 DEF I!Typed
  <2> QED BY <1>2, <2>1, TypedGives, TypedRefused
<1>3. CASE I!Appended
  <2>1. \/ I!Acked(Head(isBatch)) /\ I!Gives(Head(isBatch)) /\ UNCHANGED <<isBuffer, isFaults>>
        \/ I!IsFault /\ I!PutBack(Head(isBatch)) /\ UNCHANGED <<isSeen, isGiven>>
    BY <1>3 DEF I!Appended
  <2> QED BY <1>3, <2>1, AppendedGives, AppendedFails
<1> QED BY <1>1, <1>2, <1>3, BoundaryKeeps, KillKeeps, QuietSteers DEF I!IsNext

LEMMA SteersStart == I!IsInit => IsInv
<1> SUFFICES ASSUME I!IsInit PROVE IsInv
  OBVIOUS
<1>1. <<>> \in Seq(IsSteer) /\ DOMAIN <<>> = {} /\ \A t \in IsSteer : I!Waiting(<<>>, t) = 0
  BY WaitingNone
<1>2. /\ isTwins \subseteq IsSteer /\ isBuffer = <<>> /\ isBatch = <<>> /\ isSent = {} /\ isWire = {} /\ isSeen = {}
      /\ isEarly = {} /\ isGone = {} /\ isTyping = [t \in IsSteer |-> 0] /\ isGiven = [t \in IsSteer |-> 0]
      /\ isFrames = [t \in IsSteer |-> 0] /\ isKind \in I!Kinds /\ isTurn = "idle"
      /\ isFaults \in 0..IsMaxFaults /\ isTurns \in 0..IsMaxTurn
  BY Bounds DEF I!IsInit
<1>3. I!IsTypeOK
  BY <1>1, <1>2 DEF I!IsTypeOK
<1>4. HeldIsSent /\ AckedWhy /\ AckedHeld
  BY <1>1, <1>2 DEF HeldIsSent, AckedWhy, AckedHeld
<1>5. I!OncePerFrame
  BY <1>1, <1>2 DEF I!OncePerFrame
<1> QED BY <1>3, <1>4, <1>5 DEF IsInv

LEMMA SteersSuffice == IsInv => SteersHold
<1> SUFFICES ASSUME IsInv PROVE I!AckedIsHeld
  BY DEF IsInv, SteersHold
<1>0. isBuffer \in Seq(IsSteer) /\ isBatch \in Seq(IsSteer)
  BY DEF IsInv, I!IsTypeOK
<1>1. ASSUME NEW t \in IsSteer, HoldsSteer(isBuffer, t) \/ HoldsSteer(isBatch, t)
      PROVE  t \in I!ToSet(isBuffer \o isBatch)
  <2>1. /\ Len(isBuffer) \in Nat /\ Len(isBatch) \in Nat /\ DOMAIN isBuffer = 1..Len(isBuffer)
        /\ DOMAIN isBatch = 1..Len(isBatch) /\ DOMAIN (isBuffer \o isBatch) = 1..(Len(isBuffer) + Len(isBatch))
        /\ \A i \in 1..(Len(isBuffer) + Len(isBatch)) :
              (isBuffer \o isBatch)[i] = IF i <= Len(isBuffer) THEN isBuffer[i] ELSE isBatch[i - Len(isBuffer)]
    BY <1>0
  <2>2. CASE HoldsSteer(isBuffer, t)
    <3>1. PICK i \in 1..Len(isBuffer) : isBuffer[i] = t
      BY <2>1, <2>2 DEF HoldsSteer
    <3>2. i \in 1..(Len(isBuffer) + Len(isBatch)) /\ (isBuffer \o isBatch)[i] = t
      BY <2>1, <3>1
    <3> QED BY <2>1, <3>2 DEF I!ToSet
  <2>3. CASE HoldsSteer(isBatch, t)
    <3>1. PICK i \in 1..Len(isBatch) : isBatch[i] = t
      BY <2>1, <2>3 DEF HoldsSteer
    <3>2. /\ Len(isBuffer) + i \in 1..(Len(isBuffer) + Len(isBatch)) /\ ~(Len(isBuffer) + i <= Len(isBuffer))
          /\ (Len(isBuffer) + i) - Len(isBuffer) = i
      BY <2>1, <3>1
    <3>3. (isBuffer \o isBatch)[Len(isBuffer) + i] = t
      BY <2>1, <3>1, <3>2
    <3> QED BY <2>1, <3>2, <3>3 DEF I!ToSet
  <2> QED BY <1>1, <2>2, <2>3
<1>2. ASSUME NEW s \in isSeen \ isGone PROVE I!Reached(s) \/ I!InMemory(s)
  <2>1. PICK t \in IsSteer : I!Same(s, t) /\ Carried(t)
    BY <1>2 DEF IsInv, AckedHeld
  <2> QED BY <1>1, <2>1 DEF Carried, I!Reached, I!InMemory
<1> QED BY <1>2 DEF I!AckedIsHeld

LEMMA SteersAlways == MCSpec => []IsInv
<1>1. MCInit => IsInv
  BY SteersStart DEF MCInit
<1>2. IsInv /\ [MCNext]_<<part, dv, pv, iv, lv, vv>> => IsInv'
  <2>1. [MCNext]_<<part, dv, pv, iv, lv, vv>> => [I!IsNext]_iv
    BY DEF MCNext
  <2> QED BY <2>1, SteersStep
<1> QED BY <1>1, <1>2, PTL DEF MCSpec

\* Instant steers: an acknowledged one was given, is in memory or went with a process that
\* died, and a frame makes one task or one injection of it at most (taskLoop.ts: _handleSteer,
\* _drainPendingSteers): for any number of steers, turns and faults.
THEOREM SteersCorrect == MCSpec => []SteersHold
  BY SteersAlways, SteersSuffice, PTL

-----------------------------------------------------------------------------
(* The other pollers. *)

PollStage == {"idle", "next", "detail", "attachment", "append", "flag"}
PollRec == [at : PollStage, msg : Msgs \cup {P!None}, rest : SUBSET Msgs]
Mishaps == {"append", "fetch", "error body", "patch", "flag", "crash", "overlap", "missed", "unseeded"}

\* The types of what the pollers keep.
PollFacts ==
  /\ MaxMsg \in Nat /\ MaxCopies \in Nat /\ PollFaults \in Nat /\ P!None = MaxMsg + 1 /\ P!None \notin Msgs
  /\ Msgs \subseteq Nat /\ MaxMsg * MaxCopies \in Nat
  /\ source \in {"webhook", "discord", "email"} /\ sent \in 0..MaxMsg
  /\ what \in [Msgs -> {"task", "command", "other"}] /\ told \subseteq Msgs /\ patch \subseteq Msgs
  /\ cursor \in 0..MaxMsg /\ etag \in 0..P!None
  /\ queue \in Seq(Msgs) /\ Len(queue) \in Nat /\ Len(queue) <= MaxMsg * MaxCopies
  /\ poll \in [Poll -> PollRec] /\ life \in {"up", "down"}
  /\ effect \in [Msgs -> 0..MaxCopies] /\ trouble \in [Msgs -> SUBSET Mishaps]
  /\ pollFaults \in 0..PollFaults

\* P!TypeOK, with the sets it names written out.
LEMMA PollTypes == P!TypeOK <=>
    /\ source \in {"webhook", "discord", "email"} /\ sent \in 0..MaxMsg
    /\ what \in [Msgs -> {"task", "command", "other"}] /\ told \subseteq Msgs /\ patch \subseteq Msgs
    /\ cursor \in 0..MaxMsg /\ etag \in 0..P!None
    /\ queue \in Seq(Msgs) /\ Len(queue) <= MaxMsg * MaxCopies
    /\ poll \in [Poll -> PollRec] /\ life \in {"up", "down"}
    /\ effect \in [Msgs -> 0..MaxCopies] /\ trouble \in [Msgs -> SUBSET Mishaps]
    /\ pollFaults \in 0..PollFaults
  BY DEF P!TypeOK, P!Msg, P!Source, P!What, P!Trouble, Msgs, PollRec, PollStage, Mishaps

LEMMA PollTypesNext == P!TypeOK' <=>
    /\ source' \in {"webhook", "discord", "email"} /\ sent' \in 0..MaxMsg
    /\ what' \in [Msgs -> {"task", "command", "other"}] /\ told' \subseteq Msgs /\ patch' \subseteq Msgs
    /\ cursor' \in 0..MaxMsg /\ etag' \in 0..P!None
    /\ queue' \in Seq(Msgs) /\ Len(queue') <= MaxMsg * MaxCopies
    /\ poll' \in [Poll -> PollRec] /\ life' \in {"up", "down"}
    /\ effect' \in [Msgs -> 0..MaxCopies] /\ trouble' \in [Msgs -> SUBSET Mishaps]
    /\ pollFaults' \in 0..PollFaults
  BY DEF P!TypeOK, P!Msg, P!Source, P!What, P!Trouble, Msgs, PollRec, PollStage, Mishaps

LEMMA PollFactsAre == P!TypeOK => PollFacts
<1> SUFFICES ASSUME P!TypeOK PROVE PollFacts
  OBVIOUS
<1>1. /\ MaxMsg \in Nat /\ MaxCopies \in Nat /\ PollFaults \in Nat /\ P!None = MaxMsg + 1
  BY Bounds DEF P!None
<1>2. P!None \notin Msgs /\ Msgs \subseteq Nat
  BY <1>1 DEF Msgs
<1>3. MaxMsg * MaxCopies \in Nat
  BY <1>1
<1> QED BY <1>1, <1>2, <1>3, PollTypes DEF PollFacts

\* Messages are numbers.
LEMMA PollNumbers ==
    ASSUME PollFacts
    PROVE  /\ MaxMsg \in Nat /\ sent \in Nat /\ sent <= MaxMsg /\ cursor \in Nat /\ cursor <= MaxMsg
           /\ \A k \in Msgs : k \in Nat /\ 0 < k /\ k <= MaxMsg /\ k \in 0..MaxMsg /\ (k <= sent => k \in 0..sent)
           /\ \A k \in Nat : 0 < k /\ k <= MaxMsg => k \in Msgs
<1>1. MaxMsg \in Nat /\ sent \in 0..MaxMsg /\ cursor \in 0..MaxMsg
  BY DEF PollFacts
<1> QED BY <1>1 DEF Msgs

\* What each source makes of a mishap.
LEMMA SourceSets ==
    /\ P!LossOf["webhook"] = {"error body"} /\ P!LossOf["discord"] = {"append", "fetch", "crash", "missed"}
    /\ P!LossOf["email"] = {"append", "fetch"}
    /\ P!CopyOf["webhook"] = {"crash"} /\ P!CopyOf["discord"] = {"overlap", "unseeded"}
    /\ P!CopyOf["email"] = {"crash", "flag"}
    /\ Stages["webhook"] = {"idle", "detail", "append"}
    /\ Stages["discord"] = {"idle", "next", "attachment", "append"}
    /\ Stages["email"] = {"idle", "next", "append", "flag"}
  BY DEF P!LossOf, P!CopyOf, Stages

\* One poll moves, the others stay.
Becomes(p, a, m, R) ==
  /\ poll' \in [Poll -> PollRec]
  /\ \A q \in Poll : q # p => poll'[q] = poll[q]
  /\ poll'[p].at = a /\ poll'[p].msg = m /\ poll'[p].rest = R

LEMMA Moving ==
    ASSUME PollFacts, NEW p \in Poll, NEW a \in PollStage, NEW m \in Msgs \cup {P!None}, NEW R \in SUBSET Msgs,
           poll' = [poll EXCEPT ![p] = [at |-> a, msg |-> m, rest |-> R]]
    PROVE  Becomes(p, a, m, R)
<1>1. [at |-> a, msg |-> m, rest |-> R] \in PollRec
  BY DEF PollRec
<1> DEFINE r == [at |-> a, msg |-> m, rest |-> R]
<1>2. r.at = a /\ r.msg = m /\ r.rest = R
  OBVIOUS
<1>3. poll' = [poll EXCEPT ![p] = r] /\ r \in PollRec /\ poll \in [Poll -> PollRec]
  BY <1>1 DEF PollFacts
<1> HIDE DEF r
<1> QED BY <1>2, <1>3 DEF Becomes

LEMMA Ending ==
    ASSUME PollFacts, NEW p \in Poll, P!Ends(p)
    PROVE  Becomes(p, "idle", P!None, {})
<1>1. poll' = [poll EXCEPT ![p] = [at |-> "idle", msg |-> P!None, rest |-> {}]]
  BY DEF P!Ends, P!Idle
<1> QED BY <1>1, Moving DEF PollStage

LEMMA Going ==
    ASSUME PollFacts, NEW p \in Poll, NEW a \in PollStage, P!To(p, a)
    PROVE  Becomes(p, a, poll[p].msg, poll[p].rest)
<1>1. poll[p] \in PollRec
  BY DEF PollFacts
<1>2. /\ poll[p].msg \in Msgs \cup {P!None} /\ poll[p].rest \in SUBSET Msgs
      /\ [poll[p] EXCEPT !.at = a] = [at |-> a, msg |-> poll[p].msg, rest |-> poll[p].rest]
  BY <1>1 DEF PollRec
<1>3. poll' = [poll EXCEPT ![p] = [at |-> a, msg |-> poll[p].msg, rest |-> poll[p].rest]]
  BY <1>2 DEF P!To
<1> QED BY <1>2, <1>3, Moving

\* Two fields at once.
LEMMA TwoFields ==
    ASSUME NEW r \in PollRec, NEW a \in PollStage, NEW m \in Msgs \cup {P!None}
    PROVE  [r EXCEPT !.at = a, !.msg = m] = [at |-> a, msg |-> m, rest |-> r.rest]
<1>1. [r EXCEPT !.at = a, !.msg = m] = [[r EXCEPT !.at = a] EXCEPT !.msg = m]
  BY DEF PollRec
<1>2. [r EXCEPT !.at = a] = [at |-> a, msg |-> r.msg, rest |-> r.rest] /\ [r EXCEPT !.at = a] \in PollRec
  BY DEF PollRec
<1>3. \A s \in PollRec : [s EXCEPT !.msg = m] = [at |-> s.at, msg |-> m, rest |-> s.rest]
  BY DEF PollRec
<1> DEFINE s == [r EXCEPT !.at = a]
<1>4. s.at = a /\ s.rest = r.rest /\ s \in PollRec /\ [r EXCEPT !.at = a, !.msg = m] = [s EXCEPT !.msg = m]
  BY <1>1, <1>2
<1> HIDE DEF s
<1> QED BY <1>3, <1>4

LEMMA StageAndRest ==
    ASSUME NEW r \in PollRec, NEW a \in PollStage, NEW R \in SUBSET Msgs
    PROVE  [r EXCEPT !.at = a, !.rest = R] = [at |-> a, msg |-> r.msg, rest |-> R]
<1>1. [r EXCEPT !.at = a, !.rest = R] = [[r EXCEPT !.at = a] EXCEPT !.rest = R]
  BY DEF PollRec
<1>2. [r EXCEPT !.at = a] = [at |-> a, msg |-> r.msg, rest |-> r.rest] /\ [r EXCEPT !.at = a] \in PollRec
  BY DEF PollRec
<1>3. \A s \in PollRec : [s EXCEPT !.rest = R] = [at |-> s.at, msg |-> s.msg, rest |-> R]
  BY DEF PollRec
<1> DEFINE s == [r EXCEPT !.at = a]
<1>4. s.at = a /\ s.msg = r.msg /\ s \in PollRec /\ [r EXCEPT !.at = a, !.rest = R] = [s EXCEPT !.rest = R]
  BY <1>1, <1>2
<1> HIDE DEF s
<1> QED BY <1>3, <1>4

\* A poll's stage, message and rest.
LEMMA PollOne ==
    ASSUME PollFacts, NEW p \in Poll
    PROVE  poll[p].at \in PollStage /\ poll[p].msg \in Msgs \cup {P!None} /\ poll[p].rest \subseteq Msgs
  BY DEF PollFacts, PollRec

\* One message more has had its effect.
LEMMA Acting ==
    ASSUME PollFacts, NEW m \in Msgs, P!Acts(m)
    PROVE  /\ effect' \in [Msgs -> 0..MaxCopies] /\ effect'[m] = effect[m] + 1
           /\ \A k \in Msgs : k # m => effect'[k] = effect[k]
           /\ \A k \in Msgs : effect[k] > 0 => effect'[k] > 0
           /\ \A k \in Msgs : effect'[k] \in Nat /\ effect[k] \in Nat
<1>1. /\ effect[m] < MaxCopies /\ effect' = [effect EXCEPT ![m] = effect[m] + 1]
      /\ \A k \in Msgs : effect[k] \in 0..MaxCopies
  BY DEF P!Acts, PollFacts
<1>2. effect[m] + 1 \in 0..MaxCopies
  BY <1>1 DEF PollFacts
<1>3. effect' \in [Msgs -> 0..MaxCopies] /\ effect'[m] = effect[m] + 1 /\ \A k \in Msgs : k # m => effect'[k] = effect[k]
  BY <1>1, <1>2 DEF PollFacts
<1>4. \A k \in Msgs : effect'[k] \in Nat /\ effect[k] \in Nat
  BY <1>3, <1>1 DEF PollFacts
<1> QED BY <1>3, <1>4

LEMMA Befalling ==
    ASSUME PollFacts, NEW S, NEW t \in Mishaps, P!Befalls(S, t)
    PROVE  /\ trouble' \in [Msgs -> SUBSET Mishaps]
           /\ \A k \in Msgs : k \in S => trouble'[k] = trouble[k] \cup {t}
           /\ \A k \in Msgs : k \notin S => trouble'[k] = trouble[k]
           /\ \A k \in Msgs : trouble[k] \subseteq trouble'[k]
<1>1. trouble' = [m \in Msgs |-> IF m \in S THEN trouble[m] \cup {t} ELSE trouble[m]]
  BY DEF P!Befalls, P!Msg, Msgs
<1>2. \A m \in Msgs : trouble[m] \in SUBSET Mishaps
  BY DEF PollFacts
<1> QED BY <1>1, <1>2

LEMMA Failing ==
    ASSUME PollFacts, P!Fails
    PROVE  pollFaults' \in 0..PollFaults
  BY DEF PollFacts, P!Fails

\* The oldest of a set of messages.
LEMMA OldestIs ==
    ASSUME NEW S, S \subseteq Msgs, S # {}
    PROVE  P!Oldest(S) \in S /\ \A n \in S : P!Oldest(S) <= n
<1>1. S \subseteq Nat
  BY Bounds DEF Msgs
<1>2. \E x \in S : \A y \in S : x <= y
  BY <1>1, LeastNat
<1> QED BY <1>2 DEF P!Oldest

\* Where nothing more had an effect, nothing more is a copy.
LEMMA NoCopies ==
    ASSUME P!CopiesComeFrom, source' = source, \A m \in Msgs : effect'[m] = effect[m] /\ trouble[m] \subseteq trouble'[m]
    PROVE  P!CopiesComeFrom'
<1> SUFFICES ASSUME NEW m \in Msgs, effect'[m] > 1 PROVE trouble'[m] \cap P!CopyOf[source] # {}
  BY DEF P!CopiesComeFrom, P!Msg, Msgs
<1> QED BY DEF P!CopiesComeFrom, P!Msg, Msgs

\* One more effect is a copy if there was one.
LEMMA OneMore ==
    ASSUME P!CopiesComeFrom, PollFacts, source' = source, NEW m \in Msgs, P!Acts(m),
           \A k \in Msgs : trouble[k] \subseteq trouble'[k],
           effect[m] > 0 => trouble[m] \cap P!CopyOf[source] # {}
    PROVE  P!CopiesComeFrom'
<1> SUFFICES ASSUME NEW k \in Msgs, effect'[k] > 1 PROVE trouble'[k] \cap P!CopyOf[source] # {}
  BY DEF P!CopiesComeFrom, P!Msg, Msgs
<1>1. effect'[m] = effect[m] + 1 /\ effect[m] \in Nat /\ (k # m => effect'[k] = effect[k])
  BY Acting
<1>2. CASE k = m
  BY <1>1, <1>2
<1>3. CASE k # m
  <2>1. effect[k] > 1
    BY <1>1, <1>3
  <2>2. trouble[k] \cap P!CopyOf[source] # {}
    BY <2>1 DEF P!CopiesComeFrom, P!Msg, Msgs
  <2>3. trouble[k] \subseteq trouble'[k] /\ source' = source
    OBVIOUS
  <2> QED BY <2>2, <2>3
<1> QED BY <1>2, <1>3

\* What a message met with and had is not taken back.
Grows ==
  /\ source' = source /\ effect' \in [Msgs -> 0..MaxCopies] /\ trouble' \in [Msgs -> SUBSET Mishaps]
  /\ pollFaults' \in 0..PollFaults
  /\ \A k \in Msgs : /\ trouble[k] \subseteq trouble'[k] /\ effect[k] \in Nat /\ effect'[k] \in Nat
                     /\ effect[k] <= effect'[k]
  /\ P!CopiesComeFrom'

LEMMA GrowsStill ==
    ASSUME PollFacts, P!CopiesComeFrom, source' = source, UNCHANGED <<effect, trouble, pollFaults>>
    PROVE  Grows
<1>1. P!CopiesComeFrom'
  BY NoCopies
<1> QED BY <1>1 DEF PollFacts, Grows

LEMMA GrowsFails ==
    ASSUME PollFacts, P!CopiesComeFrom, source' = source, NEW S, NEW t \in Mishaps,
           P!Fails \/ pollFaults' = pollFaults, P!Befalls(S, t), effect' = effect
    PROVE  Grows
<1>1. trouble' \in [Msgs -> SUBSET Mishaps] /\ \A k \in Msgs : trouble[k] \subseteq trouble'[k]
  BY Befalling
<1>2. P!CopiesComeFrom'
  BY <1>1, NoCopies
<1>3. pollFaults' \in 0..PollFaults
  BY Failing DEF PollFacts
<1> QED BY <1>1, <1>2, <1>3 DEF PollFacts, Grows

LEMMA GrowsActs ==
    ASSUME PollFacts, P!CopiesComeFrom, source' = source, NEW m \in Msgs, P!Acts(m),
           UNCHANGED <<trouble, pollFaults>>, effect[m] > 0 => trouble[m] \cap P!CopyOf[source] # {}
    PROVE  Grows /\ effect'[m] > 0 /\ \A k \in Msgs : k # m => effect'[k] = effect[k]
<1>1. /\ effect' \in [Msgs -> 0..MaxCopies] /\ effect'[m] = effect[m] + 1
      /\ \A k \in Msgs : k # m => effect'[k] = effect[k]
      /\ \A k \in Msgs : effect'[k] \in Nat /\ effect[k] \in Nat
  BY Acting
<1>2. P!CopiesComeFrom'
  BY OneMore
<1>3. \A k \in Msgs : effect[k] <= effect'[k]
  BY <1>1
<1>4. effect'[m] > 0
  BY <1>1
<1> QED BY <1>1, <1>2, <1>3, <1>4 DEF PollFacts, Grows

\* A poll that moves leaves the others in shape.
LEMMA KeepShapes ==
    ASSUME PollShapes, NEW p \in Poll, NEW a, NEW m, NEW R, Becomes(p, a, m, R), source' = source,
           life' = "up", source # "webhook" => patch' = patch, source # "discord" => queue' = queue,
           source # "discord" /\ a # "idle" => At(p) # "idle" \/ \A q \in Poll : At(q) = "idle",
           a \in Stages[source], a = "idle" => R = {}, a \in {"idle", "next"} <=> m = P!None,
           source = "webhook" => R = {}, m \notin R
    PROVE  PollShapes'
<1>1. ASSUME NEW q \in Poll PROVE Shaped(q)'
  <2>1. CASE q = p
    BY <2>1 DEF Becomes, Shaped, At
  <2>2. CASE q # p
    <3>1. poll'[q] = poll[q] /\ Shaped(q)
      BY <2>2 DEF Becomes, PollShapes
    <3> QED BY <3>1 DEF Shaped, At
  <2> QED BY <2>1, <2>2
<1>2. Alone'
  <2> SUFFICES ASSUME source # "discord" PROVE queue' = <<>> /\ \A r, q \in Poll : At(r)' # "idle" /\ At(q)' # "idle" => r = q
    BY DEF Alone
  <2>1. queue' = <<>>
    BY DEF PollShapes, Alone
  <2>2. ASSUME NEW r \in Poll, NEW q \in Poll, At(r)' # "idle", At(q)' # "idle", r # q PROVE FALSE
    <3>1. \A x, y \in Poll : At(x) # "idle" /\ At(y) # "idle" => x = y
      BY DEF PollShapes, Alone
    <3>2. \A x \in Poll : x # p => At(x)' = At(x)
      BY DEF Becomes, At
    <3>3. At(p)' = a
      BY DEF Becomes, At
    <3> QED BY <2>2, <3>1, <3>2, <3>3
  <2> QED BY <2>1, <2>2
<1>3. source' # "webhook" => patch' = {}
  BY DEF PollShapes
<1> QED BY <1>1, <1>2, <1>3 DEF PollShapes

\* What is known of it stays true where nothing new is taken up.
LEMMA KeepKnows ==
    ASSUME PollFacts, PollKnows, NEW p \in Poll, NEW a, NEW m, NEW R, Becomes(p, a, m, R),
           sent' = sent, what' = what, \A k \in Msgs : Queued(k)' => Queued(k) \/ InMsg(p, k),
           cursor' \in 0..sent, \A k \in told' \cup patch' : k \in Msgs /\ (k \in told \cup patch \/ InMsg(p, k)),
           \A k \in Msgs : m = k \/ k \in R => k <= sent,
           \A k \in Msgs : effect'[k] = effect[k] \/ k <= sent
    PROVE  PollKnows'
<1>1. ASSUME NEW q \in Poll, NEW k \in Msgs, InMsg(q, k)' \/ InRest(q, k)' PROVE k <= sent
  <2>1. CASE q = p
    BY <1>1, <2>1 DEF Becomes, InMsg, InRest
  <2>2. CASE q # p
    <3>1. InMsg(q, k) \/ InRest(q, k)
      BY <1>1, <2>2 DEF Becomes, InMsg, InRest
    <3> QED BY <3>1 DEF PollKnows
  <2> QED BY <2>1, <2>2
<1>2. cursor' <= sent'
  BY DEF PollFacts
<1>3. \A k \in told' \cup patch' : k <= sent'
  BY DEF PollKnows
<1>4. \A k \in Msgs : Queued(k)' => k <= sent'
  BY DEF PollKnows
<1>5. \A k \in Msgs : k > sent' => what'[k] = "other" /\ effect'[k] = 0
  <2> SUFFICES ASSUME NEW k \in Msgs, k > sent PROVE what[k] = "other" /\ effect'[k] = 0
    OBVIOUS
  <2>1. ~(k <= sent)
    BY DEF PollFacts, Msgs
  <2> QED BY <2>1 DEF PollKnows
<1> QED BY <1>1, <1>2, <1>3, <1>4, <1>5 DEF PollKnows

-----------------------------------------------------------------------------
(* The webhook poller. *)

WebCalm == UNCHANGED <<source, sent, what, told, queue, life>>

\* What a poll in hand is about.
LEMMA WebInHand ==
    ASSUME PollInv, source = "webhook", NEW p \in Poll, At(p) # "idle"
    PROVE  /\ poll[p].msg \in Msgs /\ poll[p].msg <= sent /\ cursor < poll[p].msg /\ life = "up" /\ poll[p].rest = {}
           /\ \A k \in Msgs : k < poll[p].msg => k \in told
           /\ effect[poll[p].msg] > 0 => "crash" \in trouble[poll[p].msg]
           /\ \A q \in Poll : q # p => At(q) = "idle"
<1>0. PollFacts /\ PollShapes /\ PollKnows /\ WebGoes
  BY PollFactsAre DEF PollInv
<1>1. Shaped(p)
  BY <1>0 DEF PollShapes
<1>2. poll[p].msg \in Msgs
  <2>1. At(p) \notin {"idle", "next"}
    BY <1>1, SourceSets DEF Shaped
  <2>2. poll[p].msg # P!None
    BY <1>1, <2>1 DEF Shaped
  <2> QED BY <1>0, <2>2, PollOne
<1>3. poll[p].msg <= sent
  BY <1>0, <1>2 DEF PollKnows, InMsg
<1>4. \A q \in Poll : q # p => At(q) = "idle"
  BY <1>0 DEF PollShapes, Alone
<1>5. life = "up"
  BY <1>0 DEF PollShapes, PollFacts
<1> QED BY <1>0, <1>1, <1>2, <1>3, <1>4, <1>5 DEF WebGoes, Shaped

\* A poll takes up the oldest pending log.
LEMMA WebTakes ==
    ASSUME PollInv, source = "webhook", NEW p \in Poll, NEW h \in Msgs, Becomes(p, "detail", h, {}),
           \A q \in Poll : At(q) = "idle", life = "up", WebCalm, UNCHANGED <<patch, cursor, effect, trouble, pollFaults>>,
           etag' \in 0..P!None, cursor < h, h <= sent, h \notin told, \A k \in Msgs : k < h => k \in told
    PROVE  PollInv'
<1>0. PollFacts /\ P!TypeOK /\ PollShapes /\ PollKnows /\ P!CopiesComeFrom /\ WebGoes
  BY PollFactsAre DEF PollInv
<1>1. P!TypeOK'
  BY <1>0, PollTypesNext DEF PollFacts, Becomes, WebCalm
<1>2. PollShapes'
  <2>1. "detail" \in Stages[source] /\ h # P!None /\ h \notin {}
    BY <1>0, SourceSets DEF PollFacts
  <2> QED BY <1>0, <2>1, KeepShapes DEF WebCalm
<1>3. PollKnows'
  <2>1. cursor \in 0..sent /\ \A k \in told \cup patch : k \in Msgs
    BY <1>0 DEF PollFacts, PollKnows
  <2>2. \A k \in Msgs : Queued(k)' => Queued(k)
    BY DEF Queued, WebCalm
  <2> QED BY <1>0, <2>1, <2>2, KeepKnows DEF WebCalm
<1>4. P!CopiesComeFrom'
  BY <1>0, NoCopies DEF WebCalm
<1>5. WebGoes'
  <2>1. ASSUME NEW q \in Poll, At(q)' # "idle" PROVE q = p
    BY <2>1 DEF Becomes, At
  <2>2. effect[h] > 0 => "crash" \in trouble[h]
    <3>1. effect[h] > 0 => h \in told \/ h <= cursor \/ "crash" \in trouble[h]
      BY <1>0 DEF WebGoes
    <3> QED BY <1>0, <3>1 DEF PollFacts, Msgs
  <2> QED BY <1>0, <2>1, <2>2 DEF WebGoes, Becomes, WebCalm
<1> QED BY <1>1, <1>2, <1>3, <1>4, <1>5 DEF PollInv, WebCalm

\* An answer without a change, or an idle poll.
LEMMA WebStays ==
    ASSUME PollInv, source = "webhook", WebCalm, UNCHANGED <<patch, cursor, poll, effect, trouble, pollFaults>>,
           etag' \in 0..P!None
    PROVE  PollInv'
<1>0. PollFacts /\ P!TypeOK /\ PollShapes /\ PollKnows /\ P!CopiesComeFrom /\ WebGoes
  BY PollFactsAre DEF PollInv
<1>1. P!TypeOK'
  BY <1>0, PollTypesNext DEF PollFacts, WebCalm
<1>2. PollShapes'
  BY <1>0 DEF WebCalm, PollShapes, Shaped, Alone, At
<1>3. PollKnows'
  BY <1>0 DEF WebCalm, PollKnows, Queued, InMsg, InRest
<1>4. P!CopiesComeFrom'
  BY <1>0, NoCopies DEF WebCalm
<1>5. WebGoes'
  BY <1>0 DEF WebCalm, WebGoes, At
<1> QED BY <1>1, <1>2, <1>3, <1>4, <1>5 DEF PollInv, WebCalm

\* A poll that has its log goes on to the append.
LEMMA WebGoesOn ==
    ASSUME PollInv, source = "webhook", NEW p \in Poll, Becomes(p, "append", poll[p].msg, poll[p].rest),
           At(p) # "idle", WebCalm, UNCHANGED <<patch, cursor, etag, effect, trouble, pollFaults>>
    PROVE  PollInv'
<1>0. PollFacts /\ P!TypeOK /\ PollShapes /\ PollKnows /\ P!CopiesComeFrom /\ WebGoes
  BY PollFactsAre DEF PollInv
<1> DEFINE m == poll[p].msg
<1>a. /\ m \in Msgs /\ m <= sent /\ cursor < m /\ life = "up" /\ poll[p].rest = {}
      /\ \A k \in Msgs : k < m => k \in told
      /\ effect[m] > 0 => "crash" \in trouble[m]
  BY WebInHand
<1>b. Becomes(p, "append", m, {})
  BY <1>a
<1> HIDE DEF m
<1>1. P!TypeOK'
  BY <1>0, <1>b, PollTypesNext DEF PollFacts, Becomes, WebCalm
<1>2. PollShapes'
  <2>1. "append" \in Stages[source] /\ m # P!None /\ m \notin {}
    BY <1>0, <1>a, SourceSets DEF PollFacts
  <2> QED BY <1>0, <1>a, <1>b, <2>1, KeepShapes DEF WebCalm
<1>3. PollKnows'
  <2>1. cursor \in 0..sent /\ \A k \in told \cup patch : k \in Msgs
    BY <1>0 DEF PollFacts, PollKnows
  <2>2. \A k \in Msgs : Queued(k)' => Queued(k)
    BY DEF Queued, WebCalm
  <2> QED BY <1>0, <1>a, <1>b, <2>1, <2>2, KeepKnows DEF WebCalm
<1>4. P!CopiesComeFrom'
  BY <1>0, NoCopies DEF WebCalm
<1>5. WebGoes'
  <2>1. ASSUME NEW q \in Poll, q # p, At(q)' # "idle" PROVE FALSE
    <3>1. At(q)' = At(q)
      BY <2>1, <1>b DEF Becomes, At
    <3> QED BY <2>1, <3>1, WebInHand
  <2> QED BY <1>0, <1>a, <1>b, <2>1 DEF WebGoes, Becomes, WebCalm
<1> QED BY <1>1, <1>2, <1>3, <1>4, <1>5 DEF PollInv, WebCalm

\* A poll that fails gives up.
LEMMA WebGivesUp ==
    ASSUME PollInv, source = "webhook", NEW p \in Poll, Becomes(p, "idle", P!None, {}),
           At(p) # "idle", WebCalm, UNCHANGED <<patch, cursor, etag, effect>>, Grows
    PROVE  PollInv'
<1>0. PollFacts /\ P!TypeOK /\ PollShapes /\ PollKnows /\ P!CopiesComeFrom /\ WebGoes
  BY PollFactsAre DEF PollInv
<1>1. P!TypeOK'
  BY <1>0, PollTypesNext DEF PollFacts, Becomes, WebCalm, Grows
<1>2. PollShapes'
  <2>1. "idle" \in Stages[source] /\ P!None \notin {} /\ life = "up"
    BY <1>0, SourceSets, WebInHand
  <2> QED BY <1>0, <2>1, KeepShapes DEF WebCalm
<1>3. PollKnows'
  <2>1. cursor \in 0..sent /\ \A k \in told \cup patch : k \in Msgs
    BY <1>0 DEF PollFacts, PollKnows
  <2>2. \A k \in Msgs : (Queued(k)' => Queued(k)) /\ k # P!None
    BY <1>0 DEF Queued, WebCalm, PollFacts
  <2> QED BY <1>0, <2>1, <2>2, KeepKnows DEF WebCalm
<1>5. WebGoes'
  <2>1. ASSUME NEW q \in Poll PROVE At(q)' = "idle"
    <3>1. CASE q = p
      BY <3>1 DEF Becomes, At
    <3>2. CASE q # p
      BY <3>2, WebInHand DEF Becomes, At
    <3> QED BY <3>1, <3>2
  <2> QED BY <1>0, <2>1 DEF WebGoes, Grows, WebCalm
<1> QED BY <1>1, <1>2, <1>3, <1>5 DEF PollInv, WebCalm, Grows

\* A log that may be acknowledged.
WebDealt(m) == what[m] = "other" \/ effect[m] > 0 \/ "error body" \in trouble[m]

\* A poll acknowledges its log and is done.
LEMMA WebAcks ==
    ASSUME PollInv, source = "webhook", NEW p \in Poll, Becomes(p, "idle", P!None, {}), NEW m \in Msgs, poll[p].msg = m,
           At(p) # "idle", WebCalm, etag' = etag, patch' = patch \cup {m}, cursor' = m, Grows,
           \A k \in Msgs : k # m => effect'[k] = effect[k],
           WebDealt(m)'
    PROVE  PollInv'
<1>0. PollFacts /\ P!TypeOK /\ PollShapes /\ PollKnows /\ P!CopiesComeFrom /\ WebGoes
  BY PollFactsAre DEF PollInv
<1>a. /\ m <= sent /\ cursor < m /\ life = "up"
      /\ \A k \in Msgs : k < m => k \in told
  BY WebInHand
<1>b. /\ patch' = patch \cup {m} /\ cursor' = m /\ \A k \in Msgs : k # m => effect'[k] = effect[k]
  OBVIOUS
<1>c. InMsg(p, m)
  BY DEF InMsg
<1>d. m \in Nat /\ 0 < m /\ m <= MaxMsg /\ sent \in Nat /\ cursor \in Nat /\ MaxMsg \in Nat /\ m \in 0..MaxMsg /\ m \in 0..sent
      /\ \A k \in Msgs : k \in Nat
  BY <1>0, <1>a, PollNumbers
<1>e. \A k \in Msgs : k <= cursor => k <= m
  BY <1>a, <1>d
<1>1. P!TypeOK'
  <2>1. patch' \subseteq Msgs /\ cursor' \in 0..MaxMsg
    BY <1>0, <1>a, <1>b, <1>d DEF PollFacts
  <2> QED BY <1>0, <2>1, PollTypesNext DEF PollFacts, Becomes, WebCalm, Grows
<1>2. PollShapes'
  <2>1. "idle" \in Stages[source] /\ P!None \notin {} /\ life = "up"
    BY <1>0, SourceSets, WebInHand
  <2> QED BY <1>0, <2>1, KeepShapes DEF WebCalm
<1>3. PollKnows'
  <2>1. cursor' \in 0..sent /\ \A k \in told' \cup patch' : k \in Msgs /\ (k \in told \cup patch \/ InMsg(p, k))
    BY <1>0, <1>a, <1>b, <1>c, <1>d DEF PollFacts, WebCalm
  <2>2. \A k \in Msgs : (Queued(k)' => Queued(k)) /\ k # P!None
    BY <1>0 DEF Queued, WebCalm, PollFacts
  <2>3. \A k \in Msgs : effect'[k] = effect[k] \/ k <= sent
    BY <1>a, <1>b
  <2>4. sent' = sent /\ what' = what
    BY DEF WebCalm
  <2> HIDE DEF WebCalm
  <2> QED BY <1>0, <2>1, <2>2, <2>3, <2>4, KeepKnows
<1>5. WebGoes'
  <2>1. ASSUME NEW q \in Poll PROVE At(q)' = "idle"
    <3>1. CASE q = p
      BY <3>1 DEF Becomes, At
    <3>2. CASE q # p
      BY <3>2, WebInHand DEF Becomes, At
    <3> QED BY <3>1, <3>2
  <2>2. ASSUME NEW k \in Msgs, k \in told \cup patch' \/ k <= m, what[k] # "other"
        PROVE  effect'[k] > 0 \/ "error body" \in trouble'[k]
    <3>1. CASE k = m
      BY <2>2, <3>1 DEF WebDealt, WebCalm
    <3>2. CASE k # m
      <4>1. k \in told \cup patch
        <5>1. CASE k \in told \cup patch'
          BY <1>b, <3>2, <5>1
        <5>2. CASE k <= m
          <6>1. k < m
            BY <1>d, <3>2, <5>2
          <6> QED BY <1>a, <6>1
        <5> QED BY <2>2, <5>1, <5>2
      <4>2. effect[k] > 0 \/ "error body" \in trouble[k]
        BY <1>0, <2>2, <4>1 DEF WebGoes
      <4> QED BY <1>b, <3>2, <4>2 DEF Grows
    <3> QED BY <3>1, <3>2
  <2>3. ASSUME NEW k \in Msgs, effect'[k] > 0 PROVE k \in told \/ k <= m \/ "crash" \in trouble'[k]
    <3>1. CASE k = m
      BY <1>d, <3>1
    <3>2. CASE k # m
      <4>1. effect[k] > 0
        BY <1>b, <2>3, <3>2
      <4>2. k \in told \/ k <= cursor \/ "crash" \in trouble[k]
        BY <1>0, <4>1 DEF WebGoes
      <4> QED BY <1>e, <4>2 DEF Grows
    <3> QED BY <3>1, <3>2
  <2> QED BY <1>b, <2>1, <2>2, <2>3 DEF WebGoes, WebCalm
<1> QED BY <1>1, <1>2, <1>3, <1>5 DEF PollInv, WebCalm, Grows

\* The list of the webhook server: nothing new, or the oldest pending log is taken up.
LEMMA ListKeeps ==
    ASSUME PollInv, NEW p \in Poll, P!List(p)
    PROVE  PollInv'
<1>0. PollFacts
  BY PollFactsAre DEF PollInv
<1>1. source = "webhook" /\ life = "up" /\ \A q \in Poll : At(q) = "idle"
  BY DEF P!List, P!Due, At
<1>2. UNCHANGED <<source, sent, what, told, patch, cursor, queue, life, effect, trouble, pollFaults>>
  BY DEF P!List, P!service, P!history
<1> DEFINE S == P!Unmarked
<1> DEFINE h == IF S = {} THEN 0 ELSE P!Oldest(S)
<1>3. /\ etag' \in {h, etag}
      /\ \/ h > cursor /\ poll' = [poll EXCEPT ![p] = [P!Idle EXCEPT !.at = "detail", !.msg = h]]
         \/ UNCHANGED poll
  <2>1. IF h > cursor THEN poll' = [poll EXCEPT ![p] = [P!Idle EXCEPT !.at = "detail", !.msg = h]]
        ELSE UNCHANGED poll
    BY DEF P!List
  <2>2. etag' \in {h, etag}
    BY DEF P!List
  <2> QED BY <2>1, <2>2
<1>4. S = (1..sent) \ told /\ S \subseteq Msgs
  BY <1>0 DEF P!Unmarked, PollFacts, Msgs
<1>5. S # {} => h \in S /\ \A n \in S : h <= n
  <2>1. CASE S # {}
    <3>1. h = P!Oldest(S)
      BY <2>1
    <3> HIDE DEF S, h
    <3> QED BY <1>4, <2>1, <3>1, OldestIs
  <2> QED BY <2>1
<1>6. S = {} => h = 0
  OBVIOUS
<1> HIDE DEF S, h
<1>7. h \in 0..MaxMsg
  <2>1. MaxMsg \in Nat /\ \A k \in Msgs : k \in 0..MaxMsg
    BY <1>0 DEF Msgs, PollFacts
  <2> QED BY <1>4, <1>5, <1>6, <2>1
<1>8. etag' \in 0..P!None
  BY <1>0, <1>3, <1>7 DEF PollFacts
<1>9. CASE h > cursor /\ poll' = [poll EXCEPT ![p] = [P!Idle EXCEPT !.at = "detail", !.msg = h]]
  <2>1. h # 0 /\ S # {}
    BY <1>0, <1>6, <1>7, <1>9 DEF PollFacts
  <2>2. h \in S /\ h \in Msgs /\ h <= sent /\ h \notin told /\ cursor < h
    BY <1>0, <1>4, <1>5, <1>7, <1>9, <2>1 DEF PollFacts, Msgs
  <2>3. \A k \in Msgs : k < h => k \in told
    BY <1>0, <1>4, <1>5, <2>1, <2>2 DEF PollFacts, Msgs
  <2>4. poll' = [poll EXCEPT ![p] = [at |-> "detail", msg |-> h, rest |-> {}]]
    <3>1. P!Idle = [at |-> "idle", msg |-> P!None, rest |-> {}]
      BY DEF P!Idle
    <3> DEFINE r == P!Idle
    <3>2. r = [at |-> "idle", msg |-> P!None, rest |-> {}]
      BY <3>1
    <3>3. poll' = [poll EXCEPT ![p] = [r EXCEPT !.at = "detail", !.msg = h]]
      BY <1>9
    <3>4. r \in PollRec
      BY <1>0, <3>2 DEF PollRec, PollStage
    <3> HIDE DEF r
    <3>6. r.rest = {}
      BY <3>2
    <3>7. [r EXCEPT !.at = "detail", !.msg = h] = [at |-> "detail", msg |-> h, rest |-> r.rest]
      BY <2>2, <3>4, TwoFields DEF PollStage
    <3>5. [r EXCEPT !.at = "detail", !.msg = h] = [at |-> "detail", msg |-> h, rest |-> {}]
      BY <3>6, <3>7
    <3> QED BY <3>3, <3>5
  <2>5. Becomes(p, "detail", h, {})
    BY <1>0, <2>2, <2>4, Moving DEF PollStage
  <2> QED BY <1>1, <1>2, <1>8, <2>2, <2>3, <2>5, WebTakes DEF WebCalm
<1>10. CASE UNCHANGED poll
  BY <1>1, <1>2, <1>8, <1>10, WebStays DEF WebCalm
<1> QED BY <1>3, <1>9, <1>10

\* The log itself, in its five ways.
LEMMA DetailKeeps ==
    ASSUME PollInv, NEW p \in Poll, P!Detail(p)
    PROVE  PollInv'
<1>0. PollFacts /\ P!CopiesComeFrom
  BY PollFactsAre DEF PollInv
<1>1. source = "webhook" /\ At(p) # "idle"
  <2>1. At(p) = "detail" /\ Shaped(p)
    BY DEF P!Detail, P!Due, At, PollInv, PollShapes
  <2> QED BY <1>0, <2>1, SourceSets DEF Shaped, PollFacts
<1>2. WebCalm /\ etag' = etag /\ source' = source
  BY DEF P!Detail, WebCalm
<1>m. PICK m \in Msgs : poll[p].msg = m
  BY <1>1, WebInHand
<1>3. m \in Msgs /\ (effect[m] > 0 => trouble[m] \cap P!CopyOf[source] # {})
  BY <1>1, <1>m, WebInHand, SourceSets
<1>4. \/ P!Fails /\ P!Befalls({m}, "fetch") /\ P!Ends(p) /\ UNCHANGED <<patch, cursor, effect>>
      \/ P!Fails /\ P!Befalls({m}, "error body") /\ P!Ack(m) /\ P!Ends(p) /\ UNCHANGED effect
      \/ what[m] = "other" /\ P!Ack(m) /\ P!Ends(p) /\ UNCHANGED <<effect, trouble, pollFaults>>
      \/ what[m] = "command" /\ P!Ack(m) /\ P!Ends(p) /\ P!Acts(m) /\ UNCHANGED <<trouble, pollFaults>>
      \/ what[m] = "task" /\ P!To(p, "append") /\ UNCHANGED <<patch, cursor, effect, trouble, pollFaults>>
  BY <1>m DEF P!Detail, P!history
<1>5. CASE P!Fails /\ P!Befalls({m}, "fetch") /\ P!Ends(p) /\ UNCHANGED <<patch, cursor, effect>>
  <2>1. Becomes(p, "idle", P!None, {})
    BY <1>0, <1>5, Ending
  <2>2. Grows
    BY <1>0, <1>2, <1>5, GrowsFails DEF Mishaps
  <2> QED BY <1>1, <1>2, <1>5, <2>1, <2>2, WebGivesUp
<1>6. CASE P!Fails /\ P!Befalls({m}, "error body") /\ P!Ack(m) /\ P!Ends(p) /\ UNCHANGED effect
  <2>1. Becomes(p, "idle", P!None, {})
    BY <1>0, <1>6, Ending
  <2>2. Grows
    BY <1>0, <1>2, <1>6, GrowsFails DEF Mishaps
  <2>3. "error body" \in trouble'[m]
    <3>1. "error body" \in Mishaps /\ m \in {m}
      BY DEF Mishaps
    <3>3. P!Befalls({m}, "error body")
      BY <1>6
    <3>4. \A k \in Msgs : k \in {m} => trouble'[k] = trouble[k] \cup {"error body"}
      BY <1>0, <3>1, <3>3, Befalling
    <3>2. trouble'[m] = trouble[m] \cup {"error body"}
      BY <3>1, <3>4
    <3> QED BY <3>2
  <2>4. patch' = patch \cup {m} /\ cursor' = m
    BY <1>6 DEF P!Ack
  <2>5. WebDealt(m)'
    BY <2>3 DEF WebDealt
  <2> QED BY <1>1, <1>2, <1>3, <1>m, <1>6, <2>1, <2>2, <2>4, <2>5, WebAcks
<1>7. CASE what[m] = "other" /\ P!Ack(m) /\ P!Ends(p) /\ UNCHANGED <<effect, trouble, pollFaults>>
  <2>1. Becomes(p, "idle", P!None, {})
    BY <1>0, <1>7, Ending
  <2>2. Grows
    BY <1>0, <1>2, <1>7, GrowsStill
  <2>4. patch' = patch \cup {m} /\ cursor' = m
    BY <1>7 DEF P!Ack
  <2>5. WebDealt(m)'
    BY <1>2, <1>7 DEF WebDealt, WebCalm
  <2> QED BY <1>1, <1>2, <1>3, <1>m, <1>7, <2>1, <2>2, <2>4, <2>5, WebAcks
<1>8. CASE what[m] = "command" /\ P!Ack(m) /\ P!Ends(p) /\ P!Acts(m) /\ UNCHANGED <<trouble, pollFaults>>
  <2>1. Becomes(p, "idle", P!None, {})
    BY <1>0, <1>8, Ending
  <2>2. Grows /\ effect'[m] > 0 /\ \A k \in Msgs : k # m => effect'[k] = effect[k]
    BY <1>0, <1>2, <1>3, <1>8, GrowsActs
  <2>4. patch' = patch \cup {m} /\ cursor' = m
    BY <1>8 DEF P!Ack
  <2>5. WebDealt(m)'
    BY <2>2 DEF WebDealt
  <2> QED BY <1>1, <1>2, <1>3, <1>m, <1>8, <2>1, <2>2, <2>4, <2>5, WebAcks
<1>9. CASE what[m] = "task" /\ P!To(p, "append") /\ UNCHANGED <<patch, cursor, effect, trouble, pollFaults>>
  <2>1. Becomes(p, "append", poll[p].msg, poll[p].rest)
    BY <1>0, <1>9, Going DEF PollStage
  <2> QED BY <1>1, <1>2, <1>9, <2>1, WebGoesOn
<1> QED BY <1>4, <1>5, <1>6, <1>7, <1>8, <1>9

\* The append, and the acknowledgement if it has worked.
LEMMA WebAppendKeeps ==
    ASSUME PollInv, NEW p \in Poll, P!Queued(p)
    PROVE  PollInv'
<1>0. PollFacts /\ P!CopiesComeFrom
  BY PollFactsAre DEF PollInv
<1>1. source = "webhook" /\ At(p) # "idle"
  BY DEF P!Queued, P!Due, At
<1>2. WebCalm /\ etag' = etag /\ source' = source
  BY DEF P!Queued, WebCalm
<1>m. PICK m \in Msgs : poll[p].msg = m
  BY <1>1, WebInHand
<1>3. m \in Msgs /\ (effect[m] > 0 => trouble[m] \cap P!CopyOf[source] # {})
  BY <1>1, <1>m, WebInHand, SourceSets
<1>4. /\ P!Ends(p)
      /\ \/ P!Acts(m) /\ P!Ack(m) /\ UNCHANGED <<trouble, pollFaults>>
         \/ P!Fails /\ P!Befalls({m}, "append") /\ UNCHANGED <<patch, cursor, effect>>
  BY <1>m DEF P!Queued
<1>5. Becomes(p, "idle", P!None, {})
  BY <1>0, <1>4, Ending
<1>6. CASE P!Fails /\ P!Befalls({m}, "append") /\ UNCHANGED <<patch, cursor, effect>>
  <2>2. Grows
    BY <1>0, <1>2, <1>6, GrowsFails DEF Mishaps
  <2> QED BY <1>1, <1>2, <1>5, <1>6, <2>2, WebGivesUp
<1>7. CASE P!Acts(m) /\ P!Ack(m) /\ UNCHANGED <<trouble, pollFaults>>
  <2>2. Grows /\ effect'[m] > 0 /\ \A k \in Msgs : k # m => effect'[k] = effect[k]
    BY <1>0, <1>2, <1>3, <1>7, GrowsActs
  <2>4. patch' = patch \cup {m} /\ cursor' = m
    BY <1>7 DEF P!Ack
  <2>5. WebDealt(m)'
    BY <2>2 DEF WebDealt
  <2> QED BY <1>1, <1>2, <1>3, <1>m, <1>5, <1>7, <2>2, <2>4, <2>5, WebAcks
<1> QED BY <1>4, <1>6, <1>7

\* What becomes of a PATCH.
LEMMA PatchedKeeps ==
    ASSUME PollInv, NEW m \in Msgs, P!Patched(m)
    PROVE  PollInv'
<1>0. PollFacts /\ P!TypeOK /\ PollShapes /\ PollKnows /\ P!CopiesComeFrom
  BY PollFactsAre DEF PollInv
<1>1. /\ m \in patch /\ patch' = patch \ {m} /\ effect' = effect
      /\ UNCHANGED <<source, sent, what, cursor, etag, queue, poll, life>>
      /\ \/ told' = told \cup {m} /\ UNCHANGED <<trouble, pollFaults>>
         \/ P!Fails /\ P!Befalls({m}, "patch") /\ told' = told
  BY DEF P!Patched, P!memory, P!history
<1>2. source = "webhook"
  BY <1>0, <1>1 DEF PollShapes
<1>3. Grows
  BY <1>0, <1>1, GrowsStill, GrowsFails DEF Mishaps
<1>4. told \subseteq told' /\ told' \cup patch' \subseteq told \cup patch /\ told' \subseteq Msgs /\ patch' \subseteq Msgs
  BY <1>0, <1>1 DEF PollFacts
<1>5. P!TypeOK'
  BY <1>0, <1>1, <1>3, <1>4, PollTypesNext DEF PollFacts, Grows
<1>6. PollShapes'
  BY <1>0, <1>1, <1>2 DEF PollShapes, Shaped, Alone, At
<1>7. PollKnows'
  <2>1. \A k \in told' \cup patch' : k <= sent
    BY <1>0, <1>4 DEF PollKnows
  <2> QED BY <1>0, <1>1, <2>1 DEF PollKnows, Queued, InMsg, InRest
<1>8. WebGoes'
  <2>0. WebGoes
    BY <1>2 DEF PollInv
  <2>1. \A q \in Poll : At(q)' # "idle" =>
           /\ cursor < poll[q].msg
           /\ \A k \in Msgs : k < poll[q].msg => k \in told'
           /\ effect[poll[q].msg] > 0 => "crash" \in trouble'[poll[q].msg]
    <3> SUFFICES ASSUME NEW q \in Poll, At(q)' # "idle"
                 PROVE /\ cursor < poll[q].msg
                       /\ \A k \in Msgs : k < poll[q].msg => k \in told'
                       /\ effect[poll[q].msg] > 0 => "crash" \in trouble'[poll[q].msg]
      OBVIOUS
    <3>1. At(q) # "idle"
      BY <1>1 DEF At
    <3>2. poll[q].msg \in Msgs
      BY <1>2, <3>1, WebInHand
    <3> QED BY <1>3, <1>4, <2>0, <3>1, <3>2 DEF WebGoes, Grows
  <2>2. \A k \in Msgs : (k \in told' \cup patch' \/ k <= cursor) /\ what[k] # "other" =>
           effect[k] > 0 \/ "error body" \in trouble'[k]
    BY <1>3, <1>4, <2>0 DEF WebGoes, Grows
  <2>3. \A k \in Msgs : effect[k] > 0 => k \in told' \/ k <= cursor \/ "crash" \in trouble'[k]
    BY <1>3, <1>4, <2>0 DEF WebGoes, Grows
  <2> QED BY <1>1, <2>1, <2>2, <2>3 DEF WebGoes
<1> QED BY <1>1, <1>2, <1>3, <1>5, <1>6, <1>7, <1>8 DEF PollInv, Grows

-----------------------------------------------------------------------------
(* The Discord poller. *)

DisCalm == UNCHANGED <<source, sent, what, told, patch, etag, life>>

\* Where a poll that moves has its messages.
LEMMA HandIs ==
    ASSUME NEW p \in Poll, NEW a, NEW m, NEW R, Becomes(p, a, m, R)
    PROVE  /\ \A q \in Poll, k \in Msgs : q # p => (InMsg(q, k)' <=> InMsg(q, k)) /\ (InRest(q, k)' <=> InRest(q, k))
                                                   /\ (Held(q, k)' <=> Held(q, k))
           /\ \A k \in Msgs : (InMsg(p, k)' <=> k = m) /\ (InRest(p, k)' <=> k \in R) /\ (Held(p, k)' <=> k = m \/ k \in R)
<1>1. ASSUME NEW q \in Poll, NEW k \in Msgs, q # p
      PROVE  (InMsg(q, k)' <=> InMsg(q, k)) /\ (InRest(q, k)' <=> InRest(q, k)) /\ (Held(q, k)' <=> Held(q, k))
  <2>1. poll'[q] = poll[q]
    BY <1>1 DEF Becomes
  <2> QED BY <2>1 DEF InMsg, InRest, Held
<1>2. ASSUME NEW k \in Msgs
      PROVE  (InMsg(p, k)' <=> k = m) /\ (InRest(p, k)' <=> k \in R) /\ (Held(p, k)' <=> k = m \/ k \in R)
  <2>1. poll'[p].msg = m /\ poll'[p].rest = R
    BY DEF Becomes
  <2> QED BY <2>1 DEF InMsg, InRest, Held
<1> QED BY <1>1, <1>2

\* What is dealt with stays so.
LEMMA DealtStays == Grows => \A k \in Msgs : Dealt(k) => Dealt(k)'
<1> SUFFICES ASSUME Grows, NEW k \in Msgs, Dealt(k) PROVE Dealt(k)'
  OBVIOUS
<1>1. trouble[k] \subseteq trouble'[k]
  BY DEF Grows
<1>2. effect[k] > 0 => effect'[k] > 0
  BY DEF Grows
<1> QED BY <1>1, <1>2 DEF Dealt

\* A poll that moves passes nothing, if what it lets go of is dealt with or queued.
LEMMA PassesOn ==
    ASSUME PollInv, source = "discord", NEW p \in Poll, NEW a, NEW m, NEW R, Becomes(p, a, m, R), Grows,
           what' = what, cursor' \in Nat, cursor <= cursor', R \subseteq Msgs,
           \A x \in R : \A k \in Msgs : cursor' < k /\ k < x => k \in R,
           \A k \in Msgs : k = m \/ Queued(k)' => k <= cursor',
           \A k \in Msgs : Queued(k) \/ InMsg(p, k) => Dealt(k)' \/ Queued(k)' \/ k = m,
           \A k \in Msgs : cursor < k /\ k <= cursor' => what[k] = "other" \/ k = m
    PROVE  DiscordPasses'
<1>0. PollFacts /\ DiscordPasses
  BY PollFactsAre DEF PollInv
<1>1. cursor \in Nat /\ \A k \in Msgs : k \in Nat
  BY <1>0, PollNumbers
<1>2. \A k \in Msgs : k <= cursor => k <= cursor'
  BY <1>1
<1>3. \A k \in Msgs : cursor' < k => cursor < k
  BY <1>1
<1>4. \A k \in Msgs : k <= cursor \/ cursor < k
  BY <1>1
<1>5. ASSUME NEW q \in Poll, NEW x \in Msgs, NEW k \in Msgs, InRest(q, x)', cursor' < k, k < x PROVE InRest(q, k)'
  <2>1. CASE q = p
    BY <1>5, <2>1, HandIs
  <2>2. CASE q # p
    BY <1>0, <1>3, <1>5, <2>2, HandIs DEF DiscordPasses
  <2> QED BY <2>1, <2>2
<1>6. ASSUME NEW q \in Poll, NEW k \in Msgs, InMsg(q, k)' PROVE k <= cursor'
  <2>1. CASE q = p
    BY <1>6, <2>1, HandIs
  <2>2. CASE q # p
    BY <1>0, <1>2, <1>6, <2>2, HandIs DEF DiscordPasses
  <2> QED BY <2>1, <2>2
<1>7. ASSUME NEW k \in Msgs, k <= cursor', what[k] # "other"
      PROVE  Dealt(k)' \/ Queued(k)' \/ \E q \in Poll : InMsg(q, k)'
  <2>1. CASE cursor < k
    <3>1. k = m
      BY <1>7, <2>1
    <3> QED BY <3>1, HandIs
  <2>2. CASE k <= cursor
    <3>1. Dealt(k) \/ Queued(k) \/ \E q \in Poll : InMsg(q, k)
      BY <1>0, <1>7, <2>2 DEF DiscordPasses
    <3>2. k = m => InMsg(p, k)'
      BY HandIs
    <3>3. CASE \E q \in Poll : q # p /\ InMsg(q, k)
      BY <3>3, HandIs
    <3> QED BY <3>1, <3>2, <3>3, DealtStays
  <2> QED BY <1>4, <2>1, <2>2
<1> QED BY <1>5, <1>6, <1>7 DEF DiscordPasses

\* A channel's polls start, take, queue and append: types, shapes, and what is known.
LEMMA DisRest ==
    ASSUME PollInv, source = "discord", NEW p \in Poll, NEW a, NEW m, NEW R, Becomes(p, a, m, R), Grows, DisCalm, life = "up",
           cursor' \in 0..sent, queue' \in Seq(Msgs), Len(queue') <= MaxMsg * MaxCopies,
           \A k \in Msgs : Queued(k)' => Queued(k) \/ InMsg(p, k),
           a \in Stages["discord"], a = "idle" => R = {}, a \in {"idle", "next"} <=> m = P!None, m \notin R,
           \A k \in Msgs : m = k \/ k \in R => k <= sent,
           \A k \in Msgs : effect'[k] = effect[k] \/ k <= sent,
           DiscordPasses', DiscordOnce'
    PROVE  PollInv'
<1>0. PollFacts /\ P!TypeOK /\ PollShapes /\ PollKnows /\ P!CopiesComeFrom
  BY PollFactsAre DEF PollInv
<1>1. P!TypeOK'
  <2>1. cursor' \in 0..MaxMsg
    <3>1. sent \in Nat /\ sent <= MaxMsg /\ MaxMsg \in Nat
      BY <1>0, PollNumbers
    <3> QED BY <3>1
  <2> QED BY <1>0, <2>1, PollTypesNext DEF PollFacts, Becomes, DisCalm, Grows
<1>2. PollShapes'
  <2>1. source' = source /\ patch' = patch /\ life' = "up"
    BY DEF DisCalm
  <2> QED BY <1>0, <2>1, KeepShapes
<1>3. PollKnows'
  <2>1. \A k \in told' \cup patch' : k \in Msgs /\ (k \in told \cup patch \/ InMsg(p, k))
    BY <1>0 DEF PollFacts, DisCalm
  <2>2. sent' = sent /\ what' = what
    BY DEF DisCalm
  <2> QED BY <1>0, <2>1, <2>2, KeepKnows
<1> QED BY <1>1, <1>2, <1>3 DEF PollInv, DisCalm, Grows

\* A queue that is longer or shorter by one.
LEMMA QueueMore ==
    ASSUME PollFacts, NEW m \in Msgs, queue' = Append(queue, m)
    PROVE  /\ queue' \in Seq(Msgs) /\ Len(queue') = Len(queue) + 1
           /\ \A k \in Msgs : Queued(k)' <=> Queued(k) \/ k = m
           /\ \A k \in Msgs : Single(k) /\ ~(k = m /\ Queued(k)) => Single(k)'
<1>1. /\ queue \in Seq(Msgs) /\ Len(queue) \in Nat /\ queue' \in Seq(Msgs) /\ Len(queue') = Len(queue) + 1
      /\ \A i \in 1..Len(queue) : queue'[i] = queue[i]
      /\ queue'[Len(queue) + 1] = m
  BY DEF PollFacts
<1>2. ASSUME NEW k \in Msgs PROVE Queued(k)' <=> Queued(k) \/ k = m
  <2>1. ASSUME Queued(k)' PROVE Queued(k) \/ k = m
    <3>1. PICK i \in 1..(Len(queue) + 1) : queue'[i] = k
      BY <1>1, <2>1 DEF Queued
    <3>2. i \in 1..Len(queue) \/ i = Len(queue) + 1
      BY <1>1, <3>1
    <3> QED BY <1>1, <3>1, <3>2 DEF Queued
  <2>2. ASSUME Queued(k) PROVE Queued(k)'
    <3>1. PICK i \in 1..Len(queue) : queue[i] = k
      BY <2>2 DEF Queued
    <3>2. i \in 1..(Len(queue) + 1) /\ queue'[i] = k
      BY <1>1, <3>1
    <3> QED BY <1>1, <3>2 DEF Queued
  <2>3. Queued(m)'
    <3>1. Len(queue) + 1 \in 1..(Len(queue) + 1)
      BY <1>1
    <3> QED BY <1>1, <3>1 DEF Queued
  <2> QED BY <2>1, <2>2, <2>3
<1>3. ASSUME NEW k \in Msgs, Single(k), ~(k = m /\ Queued(k)) PROVE Single(k)'
  <2> SUFFICES ASSUME NEW i \in 1..(Len(queue) + 1), NEW j \in 1..(Len(queue) + 1), queue'[i] = k, queue'[j] = k PROVE i = j
    BY <1>1 DEF Single
  <2>1. /\ i \in 1..Len(queue) \/ i = Len(queue) + 1
        /\ j \in 1..Len(queue) \/ j = Len(queue) + 1
    BY <1>1
  <2>2. CASE i \in 1..Len(queue) /\ j \in 1..Len(queue)
    BY <1>1, <1>3, <2>2 DEF Single
  <2>3. CASE i \in 1..Len(queue) /\ j = Len(queue) + 1
    BY <1>1, <1>3, <2>3 DEF Queued
  <2>4. CASE j \in 1..Len(queue) /\ i = Len(queue) + 1
    BY <1>1, <1>3, <2>4 DEF Queued
  <2> QED BY <2>1, <2>2, <2>3, <2>4
<1> QED BY <1>1, <1>2, <1>3

LEMMA QueueLess ==
    ASSUME PollFacts, queue # <<>>, queue' = Tail(queue)
    PROVE  /\ queue' \in Seq(Msgs) /\ Len(queue') = Len(queue) - 1 /\ Head(queue) \in Msgs
           /\ \A k \in Msgs : Queued(k) <=> Queued(k)' \/ k = Head(queue)
           /\ \A k \in Msgs : Single(k) => Single(k)' /\ ~(k = Head(queue) /\ Queued(k)')
<1>1. /\ queue \in Seq(Msgs) /\ Len(queue) \in Nat /\ Len(queue) > 0
      /\ queue' \in Seq(Msgs) /\ Len(queue') = Len(queue) - 1 /\ Head(queue) = queue[1] /\ Head(queue) \in Msgs
      /\ \A i \in 1..(Len(queue) - 1) : queue'[i] = queue[i + 1]
  BY HeadTailProperties DEF PollFacts
<1>2. \A i \in 1..(Len(queue) - 1) : i + 1 \in 1..Len(queue) /\ i + 1 # 1
  BY <1>1
<1>3. 1 \in 1..Len(queue) /\ \A i \in 1..Len(queue) : i = 1 \/ (i - 1 \in 1..(Len(queue) - 1) /\ (i - 1) + 1 = i)
  BY <1>1
<1>4. ASSUME NEW k \in Msgs PROVE Queued(k) <=> Queued(k)' \/ k = Head(queue)
  <2>1. ASSUME Queued(k) PROVE Queued(k)' \/ k = Head(queue)
    <3>1. PICK i \in 1..Len(queue) : queue[i] = k
      BY <2>1 DEF Queued
    <3>2. CASE i = 1
      BY <1>1, <3>1, <3>2
    <3>3. CASE i # 1
      <4>1. i - 1 \in 1..(Len(queue) - 1) /\ (i - 1) + 1 = i
        BY <1>3, <3>3
      <4>2. queue'[i - 1] = k
        BY <1>1, <3>1, <4>1
      <4> QED BY <1>1, <4>1, <4>2 DEF Queued
    <3> QED BY <3>2, <3>3
  <2>2. ASSUME Queued(k)' PROVE Queued(k)
    <3>1. PICK i \in 1..(Len(queue) - 1) : queue'[i] = k
      BY <1>1, <2>2 DEF Queued
    <3>2. i + 1 \in 1..Len(queue) /\ queue[i + 1] = k
      BY <1>1, <1>2, <3>1
    <3> QED BY <3>2 DEF Queued
  <2>3. Queued(Head(queue))
    BY <1>1, <1>3 DEF Queued
  <2> QED BY <2>1, <2>2, <2>3
<1>5. ASSUME NEW k \in Msgs, Single(k) PROVE Single(k)' /\ ~(k = Head(queue) /\ Queued(k)')
  <2>1. ASSUME NEW i \in 1..(Len(queue) - 1), NEW j \in 1..(Len(queue) - 1), queue'[i] = k, queue'[j] = k PROVE i = j
    <3>1. queue[i + 1] = k /\ queue[j + 1] = k /\ i + 1 \in 1..Len(queue) /\ j + 1 \in 1..Len(queue)
      BY <1>1, <1>2, <2>1
    <3>2. i + 1 = j + 1
      BY <1>5, <3>1 DEF Single
    <3> QED BY <1>1, <3>2
  <2>2. ASSUME k = Head(queue), Queued(k)' PROVE FALSE
    <3>1. PICK i \in 1..(Len(queue) - 1) : queue'[i] = k
      BY <1>1, <2>2 DEF Queued
    <3>2. i + 1 \in 1..Len(queue) /\ queue[i + 1] = k /\ i + 1 # 1 /\ queue[1] = k
      BY <1>1, <1>2, <2>2, <3>1
    <3> QED BY <1>3, <1>5, <3>2 DEF Single
  <2> QED BY <1>1, <2>1, <2>2 DEF Single
<1> QED BY <1>1, <1>4, <1>5

\* What a poll of a channel stands at.
LEMMA DisFacts ==
    ASSUME PollInv, source = "discord"
    PROVE  /\ PollFacts /\ P!CopiesComeFrom /\ DiscordPasses /\ DiscordOnce
           /\ \A k \in Msgs : effect[k] > 0 => k <= sent
           /\ \A k \in Msgs : k > sent => ~Queued(k) /\ \A q \in Poll : ~Held(q, k)
           /\ cursor \in 0..sent
<1>0. PollFacts /\ P!CopiesComeFrom /\ DiscordPasses /\ DiscordOnce /\ PollKnows
  BY PollFactsAre DEF PollInv
<1>1. \A k \in Msgs : k > sent <=> ~(k <= sent)
  BY <1>0, PollNumbers
<1>2. \A k \in Msgs : effect[k] > 0 => k <= sent
  <2> SUFFICES ASSUME NEW k \in Msgs, effect[k] > 0, k > sent PROVE FALSE
    BY <1>1
  <2>1. effect[k] = 0
    BY <1>0 DEF PollKnows
  <2> QED BY <2>1
<1>3. \A k \in Msgs : k > sent => ~Queued(k) /\ \A q \in Poll : ~Held(q, k)
  BY <1>0, <1>1 DEF PollKnows, Held
<1>4. cursor \in 0..sent
  <2>1. cursor <= sent
    BY <1>0 DEF PollKnows
  <2> QED BY <1>0, <2>1, PollNumbers
<1> QED BY <1>0, <1>2, <1>3, <1>4

\* Nothing is taken up that the poll did not have, and what has an effect was its own.
LEMMA OnceOn ==
    ASSUME PollInv, source = "discord", NEW p \in Poll, NEW a, NEW m, NEW R, Becomes(p, a, m, R), Grows, life' = life,
           NEW k \in Msgs, OnePlace(k), cursor <= cursor', cursor' \in Nat,
           k = m \/ k \in R => Held(p, k) \/ (Queued(k) /\ ~Queued(k)'),
           Queued(k)' => Single(k)' /\ (Queued(k) \/ Held(p, k)),
           Queued(k)' => k # m /\ k \notin R,
           effect'[k] = effect[k] \/ (effect'[k] = effect[k] + 1 /\ Held(p, k) /\ k # m /\ k \notin R /\ ~Queued(k)' /\ k <= cursor')
    PROVE  OnePlace(k)'
<1>0. PollFacts /\ effect[k] \in Nat /\ cursor \in Nat /\ k \in Nat
  BY PollFactsAre, PollNumbers DEF PollInv, Grows
<1>1. \A q \in Poll : q # p => (Held(q, k)' <=> Held(q, k))
  BY HandIs
<1>2. Held(p, k)' => Held(p, k) \/ (Queued(k) /\ ~Queued(k)')
  BY HandIs
<1>3. Held(p, k)' <=> k = m \/ k \in R
  BY HandIs
<1>4. k <= cursor => k <= cursor'
  BY <1>0
<1>5. Single(k)'
  <2>1. ~Queued(k)' => Single(k)'
    BY DEF Queued, Single
  <2> QED BY <2>1
<1>6. Queued(k)' => \A q \in Poll : ~Held(q, k)'
  <2> SUFFICES ASSUME Queued(k)', NEW q \in Poll, Held(q, k)' PROVE FALSE
    OBVIOUS
  <2>1. q # p
    BY <1>3
  <2>2. Held(q, k)
    BY <1>1, <2>1
  <2> QED BY <2>1, <2>2 DEF OnePlace
<1>7. \A q, r \in Poll : Held(q, k)' /\ Held(r, k)' => q = r
  <2> SUFFICES ASSUME NEW q \in Poll, NEW r \in Poll, Held(q, k)', Held(r, k)', q # r PROVE FALSE
    OBVIOUS
  <2>1. (q = p \/ Held(q, k)) /\ (r = p \/ Held(r, k))
    BY <1>1
  <2>2. CASE q # p /\ r # p
    BY <2>1, <2>2 DEF OnePlace
  <2>3. ASSUME NEW s \in Poll, s # p, Held(s, k), Held(p, k)' PROVE FALSE
    BY <1>2, <2>3 DEF OnePlace
  <2> QED BY <2>1, <2>2, <2>3
<1>8. CASE effect'[k] = effect[k]
  <2>1. effect'[k] <= 1
    BY <1>8 DEF OnePlace
  <2>2. effect'[k] > 0 => ~Queued(k)' /\ \A q \in Poll : ~Held(q, k)'
    <3> SUFFICES ASSUME effect'[k] > 0 PROVE ~Queued(k)' /\ \A q \in Poll : ~Held(q, k)'
      OBVIOUS
    <3>1. ~Queued(k) /\ \A q \in Poll : ~Held(q, k)
      BY <1>8 DEF OnePlace
    <3> QED BY <1>1, <1>2, <3>1
  <2>3. effect'[k] > 0 /\ life' = "up" => k <= cursor'
    BY <1>4, <1>8 DEF OnePlace
  <2> QED BY <1>5, <1>6, <1>7, <2>1, <2>2, <2>3 DEF OnePlace
<1>9. CASE effect'[k] = effect[k] + 1 /\ Held(p, k) /\ k # m /\ k \notin R /\ ~Queued(k)' /\ k <= cursor'
  <2>1. ~(effect[k] > 0)
    BY <1>9 DEF OnePlace
  <2>2. effect'[k] <= 1
    BY <1>0, <1>9, <2>1
  <2>3. \A q \in Poll : ~Held(q, k)'
    BY <1>1, <1>3, <1>9 DEF OnePlace
  <2> QED BY <1>5, <1>6, <1>7, <1>9, <2>2, <2>3 DEF OnePlace
<1> QED BY <1>8, <1>9

\* What is not a copy yet was none before.
LEMMA NotYet ==
    ASSUME Grows, NEW k \in Msgs, NEW C, trouble'[k] \cap C = {}
    PROVE  trouble[k] \cap C = {}
  BY DEF Grows

\* _fetchNewMessages.
LEMMA FetchKeeps ==
    ASSUME PollInv, NEW p \in Poll, P!Fetch(p)
    PROVE  PollInv'
<1>1. /\ source = "discord" /\ life = "up" /\ At(p) = "idle" /\ DisCalm /\ source' = source
      /\ UNCHANGED <<cursor, queue, effect>>
  BY DEF P!Fetch, P!Due, P!service, At, DisCalm
<1>0. /\ PollFacts /\ P!CopiesComeFrom /\ DiscordPasses /\ DiscordOnce /\ cursor \in 0..sent
      /\ \A k \in Msgs : effect[k] > 0 => k <= sent
  BY <1>1, DisFacts
<1>2. poll[p].msg = P!None /\ poll[p].rest = {}
  <2>1. Shaped(p)
    BY DEF PollInv, PollShapes
  <2> QED BY <1>1, <2>1 DEF Shaped
<1>3. \A k \in Msgs : ~InMsg(p, k) /\ ~InRest(p, k) /\ k # P!None
  BY <1>0, <1>2 DEF InMsg, InRest, PollFacts
<1> DEFINE new == (1..sent) \ 1..cursor
<1> DEFINE twice == {m \in new : \E q \in Poll : m \in P!InPoll(q)}
<1>4. \/ /\ poll' = [poll EXCEPT ![p] = [P!Idle EXCEPT !.at = "next", !.rest = new]]
         /\ P!Befalls(twice, "overlap") /\ pollFaults' = pollFaults
      \/ P!Fails /\ P!To(p, "next") /\ trouble' = trouble
  BY DEF P!Fetch
<1>5. new \subseteq Msgs /\ \A k \in new : cursor < k /\ k <= sent
  BY <1>0, PollNumbers
<1>6. \A k \in Msgs : cursor < k /\ k <= sent => k \in new
  BY <1>0, PollNumbers
<1>7. ASSUME NEW q \in Poll, NEW k \in Msgs PROVE k \in P!InPoll(q) <=> Held(q, k)
  BY DEF P!InPoll, Held, InMsg, InRest, P!Msg, Msgs
<1>8. \A k \in new \ twice : \A q \in Poll : ~Held(q, k)
  BY <1>5, <1>7
<1> HIDE DEF new, twice
<1>9. \E R \in SUBSET new : Becomes(p, "next", P!None, R) /\ Grows /\ (R = {} \/ R = new)
                            /\ \A k \in R : trouble'[k] \cap {"overlap"} = {} => \A q \in Poll : ~Held(q, k)
  <2>1. CASE /\ poll' = [poll EXCEPT ![p] = [P!Idle EXCEPT !.at = "next", !.rest = new]]
             /\ P!Befalls(twice, "overlap") /\ pollFaults' = pollFaults
    <3>1. poll' = [poll EXCEPT ![p] = [at |-> "next", msg |-> P!None, rest |-> new]]
      <4> DEFINE r == P!Idle
      <4>1. r \in PollRec /\ r.msg = P!None
        BY DEF P!Idle, PollRec, PollStage
      <4>2. poll' = [poll EXCEPT ![p] = [r EXCEPT !.at = "next", !.rest = new]]
        BY <2>1
      <4> HIDE DEF r
      <4>3. [r EXCEPT !.at = "next", !.rest = new] = [at |-> "next", msg |-> r.msg, rest |-> new]
        BY <1>5, <4>1, StageAndRest DEF PollStage
      <4> QED BY <4>1, <4>2, <4>3
    <3>2. Becomes(p, "next", P!None, new)
      BY <1>0, <1>5, <3>1, Moving DEF PollStage
    <3>3. Grows
      BY <1>0, <1>1, <2>1, GrowsFails DEF Mishaps
    <3>4. \A k \in Msgs : k \in twice => trouble'[k] = trouble[k] \cup {"overlap"}
      <4>1. P!Befalls(twice, "overlap") /\ "overlap" \in Mishaps
        BY <2>1 DEF Mishaps
      <4> QED BY <1>0, <4>1, Befalling
    <3>5. \A k \in new : trouble'[k] \cap {"overlap"} = {} => \A q \in Poll : ~Held(q, k)
      <4> SUFFICES ASSUME NEW k \in new, trouble'[k] \cap {"overlap"} = {} PROVE \A q \in Poll : ~Held(q, k)
        OBVIOUS
      <4>1. k \notin twice
        BY <1>5, <3>4
      <4> QED BY <1>8, <4>1
    <3> QED BY <3>2, <3>3, <3>5
  <2>2. CASE P!Fails /\ P!To(p, "next") /\ trouble' = trouble
    <3>1. Becomes(p, "next", P!None, {})
      BY <1>0, <1>2, <2>2, Going DEF PollStage
    <3>2. P!CopiesComeFrom'
      BY <1>0, <1>1, <2>2, NoCopies
    <3>3. Grows
      BY <1>0, <1>1, <2>2, <3>2, Failing DEF Grows, PollFacts
    <3> QED BY <3>1, <3>3
  <2> QED BY <1>4, <2>1, <2>2
<1>10. PICK R \in SUBSET new : /\ Becomes(p, "next", P!None, R) /\ Grows /\ (R = {} \/ R = new)
                               /\ \A k \in R : trouble'[k] \cap {"overlap"} = {} => \A q \in Poll : ~Held(q, k)
  BY <1>9
<1>11. \A k \in Msgs : Queued(k)' <=> Queued(k)
  BY <1>1 DEF Queued
<1>12. DiscordPasses'
  <2>1. R \subseteq Msgs /\ what' = what /\ cursor' \in Nat /\ cursor <= cursor'
    BY <1>0, <1>1, <1>5, PollNumbers DEF DisCalm
  <2>2. \A x \in R : \A k \in Msgs : cursor' < k /\ k < x => k \in R
    <3> SUFFICES ASSUME NEW x \in R, NEW k \in Msgs, cursor < k, k < x PROVE k \in R
      BY <1>1
    <3>1. R = new /\ x <= sent /\ x \in Msgs
      BY <1>5, <1>10
    <3>2. k <= sent
      BY <1>0, <3>1, PollNumbers
    <3> QED BY <1>6, <3>1, <3>2
  <2>3. \A k \in Msgs : k = P!None \/ Queued(k)' => k <= cursor'
    BY <1>0, <1>1, <1>3, <1>11 DEF DiscordPasses
  <2>4. \A k \in Msgs : cursor < k /\ k <= cursor' => what[k] = "other" \/ k = P!None
    <3>1. \A k \in Msgs : ~(cursor < k /\ k <= cursor)
      BY <1>0, PollNumbers
    <3> QED BY <1>1, <3>1
  <2>5. \A k \in Msgs : Queued(k) \/ InMsg(p, k) => Dealt(k)' \/ Queued(k)' \/ k = P!None
    BY <1>3, <1>11
  <2> QED BY <1>1, <1>10, <2>1, <2>2, <2>3, <2>4, <2>5, PassesOn
<1>13. DiscordOnce'
  <2> SUFFICES ASSUME NEW k \in Msgs, trouble'[k] \cap P!CopyOf["discord"] = {} PROVE OnePlace(k)'
    BY DEF DiscordOnce
  <2>1. OnePlace(k)
    BY <1>0, <1>10, NotYet DEF DiscordOnce
  <2>2. k \notin R => OnePlace(k)'
    <3>1. life' = life /\ cursor <= cursor' /\ cursor' \in Nat
      BY <1>0, <1>1, PollNumbers DEF DisCalm
    <3>2. Queued(k)' => Single(k)' /\ (Queued(k) \/ Held(p, k))
      BY <1>1, <1>11, <2>1 DEF OnePlace, Single
    <3> QED BY <1>1, <1>3, <1>10, <2>1, <3>1, <3>2, OnceOn
  <2>3. ASSUME k \in R PROVE OnePlace(k)'
    <3>1. cursor < k
      BY <1>5, <2>3
    <3>2. ~Queued(k) /\ ~(effect[k] > 0)
      <4>1. ~(k <= cursor)
        BY <1>0, <3>1, PollNumbers
      <4> QED BY <1>0, <1>1, <2>1, <4>1 DEF OnePlace, DiscordPasses
    <3>3. \A q \in Poll : ~Held(q, k)
      <4>1. trouble'[k] \cap {"overlap"} = {}
        BY SourceSets
      <4> QED BY <1>10, <2>3, <4>1
    <3>4. \A q \in Poll : Held(q, k)' => q = p
      BY <1>10, <3>3, HandIs
    <3>5. Single(k)' /\ ~Queued(k)' /\ ~(effect'[k] > 0) /\ effect'[k] <= 1
      BY <1>1, <1>11, <2>1, <3>2 DEF OnePlace, Single
    <3> QED BY <3>4, <3>5 DEF OnePlace
  <2> QED BY <2>2, <2>3
<1> QED
  <2>1. "next" \in Stages["discord"] /\ P!None \notin R /\ queue' = queue
    BY <1>0, <1>1, <1>5, <1>10, SourceSets DEF PollFacts
  <2>2. \A k \in Msgs : P!None = k \/ k \in R => k <= sent
    BY <1>3, <1>5, <1>10
  <2>3. cursor' \in 0..sent /\ queue' \in Seq(Msgs) /\ Len(queue') <= MaxMsg * MaxCopies
    BY <1>0, <1>1 DEF PollFacts
  <2> QED BY <1>1, <1>10, <1>11, <1>12, <1>13, <2>1, <2>2, <2>3, DisRest

\* The cursor moves, and what is to be done is in hand.
LEMMA TakeKeeps ==
    ASSUME PollInv, NEW p \in Poll, P!Take(p)
    PROVE  PollInv'
<1>1. /\ source = "discord" /\ life = "up" /\ At(p) = "next" /\ poll[p].rest # {} /\ DisCalm /\ source' = source
      /\ UNCHANGED <<queue, effect, trouble, pollFaults>>
  BY DEF P!Take, P!Due, P!service, P!history, At, DisCalm
<1>0. /\ PollFacts /\ P!CopiesComeFrom /\ DiscordPasses /\ DiscordOnce /\ cursor \in 0..sent /\ PollKnows
  BY <1>1, DisFacts DEF PollInv
<1>2. /\ poll[p].msg = P!None /\ poll[p].rest \subseteq Msgs
      /\ \A k \in Msgs : ~InMsg(p, k) /\ (InRest(p, k) <=> k \in poll[p].rest) /\ k # P!None
  <2>1. Shaped(p)
    BY DEF PollInv, PollShapes
  <2>2. poll[p].msg = P!None
    BY <1>1, <2>1 DEF Shaped
  <2> QED BY <1>0, <2>2, PollOne DEF InMsg, InRest, PollFacts
<1>3. PICK m \in Msgs : m = P!Oldest(poll[p].rest) /\ m \in poll[p].rest /\ \A n \in poll[p].rest : m <= n
  BY <1>1, <1>2, OldestIs
<1>4. /\ cursor' = IF m > cursor THEN m ELSE cursor
      /\ poll' = [poll EXCEPT ![p] = [at |-> IF what[m] = "other" THEN "next" ELSE "attachment",
                                      msg |-> IF what[m] = "other" THEN P!None ELSE m,
                                      rest |-> poll[p].rest \ {m}]]
  BY <1>3 DEF P!Take
<1>5. PICK a \in {"next", "attachment"}, h \in {P!None, m} :
        /\ Becomes(p, a, h, poll[p].rest \ {m})
        /\ what[m] = "other" => a = "next" /\ h = P!None
        /\ what[m] # "other" => a = "attachment" /\ h = m
  <2> DEFINE R == poll[p].rest \ {m}
  <2>0. R \in SUBSET Msgs
    BY <1>2
  <2>1. CASE what[m] = "other"
    <3>1. poll' = [poll EXCEPT ![p] = [at |-> "next", msg |-> P!None, rest |-> R]]
      BY <1>4, <2>1
    <3> HIDE DEF R
    <3>2. Becomes(p, "next", P!None, R)
      BY <1>0, <2>0, <3>1, Moving DEF PollStage
    <3> QED BY <2>1, <3>2 DEF R
  <2>2. CASE what[m] # "other"
    <3>1. poll' = [poll EXCEPT ![p] = [at |-> "attachment", msg |-> m, rest |-> R]]
      BY <1>4, <2>2
    <3> HIDE DEF R
    <3>2. Becomes(p, "attachment", m, R)
      BY <1>0, <2>0, <3>1, Moving DEF PollStage
    <3> QED BY <2>2, <3>2 DEF R
  <2> QED BY <2>1, <2>2
<1>6. PICK R \in SUBSET Msgs : R = poll[p].rest \ {m}
  BY <1>2
<1>7. Becomes(p, a, h, R)
  BY <1>5, <1>6
<1>8. /\ cursor' \in Nat /\ cursor <= cursor' /\ m <= cursor' /\ cursor' \in 0..sent /\ m \in Nat
      /\ \A k \in Msgs : k \in Nat /\ (cursor' < k => cursor < k) /\ (k <= cursor => k <= cursor')
                         /\ (cursor < k /\ k <= cursor' => k <= m)
  <2>1. m <= sent /\ m \in Nat /\ cursor \in Nat /\ sent \in Nat /\ \A k \in Msgs : k \in Nat
    BY <1>0, <1>2, <1>3, PollNumbers DEF PollKnows
  <2> QED BY <1>0, <1>4, <2>1
<1>9. \A k \in Msgs : Queued(k)' <=> Queued(k)
  BY <1>1 DEF Queued
<1>10. Grows
  BY <1>0, <1>1, GrowsStill
<1>11. \A x, k \in Msgs : x \in poll[p].rest /\ cursor < k /\ k < x => k \in poll[p].rest
  BY <1>0, <1>2 DEF DiscordPasses
<1>12. DiscordPasses'
  <2>1. what' = what
    BY <1>1 DEF DisCalm
  <2>2. \A x \in R : \A k \in Msgs : cursor' < k /\ k < x => k \in R
    <3> SUFFICES ASSUME NEW x \in R, NEW k \in Msgs, cursor' < k, k < x PROVE k \in R
      OBVIOUS
    <3>1. x \in Msgs /\ x \in poll[p].rest
      BY <1>2, <1>6
    <3>2. k \in poll[p].rest
      BY <1>8, <1>11, <3>1
    <3>3. k # m
      BY <1>8
    <3> QED BY <1>6, <3>2, <3>3
  <2>3. \A k \in Msgs : k = h \/ Queued(k)' => k <= cursor'
    BY <1>0, <1>2, <1>8, <1>9 DEF DiscordPasses
  <2>4. \A k \in Msgs : cursor < k /\ k <= cursor' => what[k] = "other" \/ k = h
    <3> SUFFICES ASSUME NEW k \in Msgs, cursor < k, k <= cursor', what[k] # "other" PROVE k = h
      OBVIOUS
    <3>1. k <= m
      BY <1>8
    <3>2. k = m
      <4>1. k < m => k \in poll[p].rest
        BY <1>3, <1>11
      <4>2. k < m => m <= k
        BY <1>3, <4>1
      <4> QED BY <1>8, <3>1, <4>2
    <3> QED BY <1>5, <3>2
  <2>5. \A k \in Msgs : Queued(k) \/ InMsg(p, k) => Dealt(k)' \/ Queued(k)' \/ k = h
    BY <1>2, <1>9
  <2> QED BY <1>1, <1>7, <1>8, <1>10, <2>1, <2>2, <2>3, <2>4, <2>5, PassesOn
<1>13. DiscordOnce'
  <2> SUFFICES ASSUME NEW k \in Msgs, trouble'[k] \cap P!CopyOf["discord"] = {} PROVE OnePlace(k)'
    BY DEF DiscordOnce
  <2>1. OnePlace(k)
    BY <1>0, <1>1 DEF DiscordOnce
  <2>2. life' = life
    BY <1>1 DEF DisCalm
  <2>3. k = h \/ k \in R => Held(p, k)
    BY <1>2, <1>3, <1>6 DEF Held
  <2>4. Queued(k)' => Single(k)' /\ Queued(k) /\ k # h /\ k \notin R
    <3>1. Queued(k)' => Queued(k) /\ ~Held(p, k)
      BY <1>9, <2>1 DEF OnePlace
    <3>2. Single(k)'
      BY <1>1, <2>1 DEF OnePlace, Single
    <3> QED BY <2>3, <3>1, <3>2
  <2>5. effect'[k] = effect[k]
    BY <1>1
  <2> QED BY <1>1, <1>7, <1>8, <1>10, <2>1, <2>2, <2>3, <2>4, <2>5, OnceOn
<1> QED
  <2>1. a \in Stages["discord"] /\ a # "idle" /\ (a \in {"idle", "next"} <=> h = P!None)
    BY <1>2, <1>5, SourceSets
  <2>2. \A k \in Msgs : h = k \/ k \in R => k <= sent
    BY <1>0, <1>2, <1>3, <1>6 DEF PollKnows
  <2>3. queue' \in Seq(Msgs) /\ Len(queue') <= MaxMsg * MaxCopies
    BY <1>0, <1>1 DEF PollFacts
  <2>4. h \notin R
    BY <1>2, <1>6
  <2>5. \A k \in Msgs : effect'[k] = effect[k]
    BY <1>1
  <2> QED BY <1>1, <1>7, <1>8, <1>9, <1>10, <1>12, <1>13, <2>1, <2>2, <2>3, <2>4, <2>5, DisRest

\* A poll is done with its message: it was acted on, was queued, or met with a mishap.
LEMMA DoneWith ==
    ASSUME PollInv, source = "discord", NEW p \in Poll, NEW m \in Msgs, poll[p].msg = m, At(p) # "idle",
           NEW a \in {"idle", "next"}, NEW R \in SUBSET Msgs, Becomes(p, a, P!None, R), Grows, DisCalm, cursor' = cursor,
           R = {} \/ (R = poll[p].rest /\ a = "next"),
           queue' \in Seq(Msgs), Len(queue') <= MaxMsg * MaxCopies,
           \A k \in Msgs : Queued(k)' => Queued(k) \/ k = m,
           \A k \in Msgs : Queued(k) => Queued(k)',
           \A k \in Msgs : Single(k) /\ ~(k = m /\ Queued(k)) => Single(k)',
           Dealt(m)' \/ Queued(m)',
           \A k \in Msgs : effect'[k] = effect[k] \/ (k = m /\ effect'[k] = effect[k] + 1 /\ \A n \in Msgs : Queued(n)' => Queued(n))
    PROVE  PollInv'
<1>0. /\ PollFacts /\ P!CopiesComeFrom /\ DiscordPasses /\ DiscordOnce /\ cursor \in 0..sent /\ PollKnows
  BY DisFacts DEF PollInv
<1>1. /\ \A k \in Msgs : (InMsg(p, k) <=> k = m) /\ (InRest(p, k) <=> k \in poll[p].rest) /\ k # P!None
      /\ m \notin poll[p].rest
  <2>1. Shaped(p)
    BY DEF PollInv, PollShapes
  <2> QED BY <1>0, <2>1 DEF InMsg, InRest, PollFacts, Shaped
<1>2. life = "up"
  BY <1>0 DEF PollInv, PollShapes, PollFacts
<1>3. m <= sent /\ m <= cursor
  BY <1>0, <1>1 DEF PollKnows, DiscordPasses
<1>4. cursor' \in Nat /\ cursor <= cursor' /\ \A k \in Msgs : ~(cursor < k /\ k <= cursor)
  BY <1>0, PollNumbers
<1>5. R \subseteq poll[p].rest
  OBVIOUS
<1>12. DiscordPasses'
  <2>1. what' = what
    BY DEF DisCalm
  <2>2. \A x \in R : \A k \in Msgs : cursor' < k /\ k < x => k \in R
    <3>1. CASE R = {}
      BY <3>1
    <3>2. CASE R = poll[p].rest
      <4> SUFFICES ASSUME NEW x \in R, NEW k \in Msgs, cursor < k, k < x PROVE k \in R
        OBVIOUS
      <4>1. x \in Msgs /\ InRest(p, x)
        BY <1>1, <3>2
      <4> QED BY <1>0, <1>1, <3>2, <4>1 DEF DiscordPasses
    <3> QED BY <3>1, <3>2
  <2>3. \A k \in Msgs : k = P!None \/ Queued(k)' => k <= cursor'
    BY <1>0, <1>1, <1>3 DEF DiscordPasses
  <2>4. \A k \in Msgs : cursor < k /\ k <= cursor' => what[k] = "other" \/ k = P!None
    BY <1>4
  <2>5. \A k \in Msgs : Queued(k) \/ InMsg(p, k) => Dealt(k)' \/ Queued(k)' \/ k = P!None
    BY <1>1
  <2> QED BY <1>4, <2>1, <2>2, <2>3, <2>4, <2>5, PassesOn
<1>13. DiscordOnce'
  <2> SUFFICES ASSUME NEW k \in Msgs, trouble'[k] \cap P!CopyOf["discord"] = {} PROVE OnePlace(k)'
    BY DEF DiscordOnce
  <2>1. OnePlace(k)
    BY <1>0, NotYet DEF DiscordOnce
  <2>2. life' = life
    BY DEF DisCalm
  <2>3. (k \in R => Held(p, k)) /\ k # P!None /\ m \notin R
    BY <1>1, <1>5 DEF Held
  <2>6. k = m => Held(p, k) /\ ~Queued(k)
    <3>1. k = m => Held(p, k)
      BY <1>1 DEF Held
    <3> QED BY <2>1, <3>1 DEF OnePlace
  <2>4. Queued(k)' => Single(k)' /\ (Queued(k) \/ Held(p, k)) /\ k \notin R
    <3> SUFFICES ASSUME Queued(k)' PROVE Single(k)' /\ (Queued(k) \/ Held(p, k)) /\ k \notin R
      OBVIOUS
    <3>1. Single(k)
      BY <2>1 DEF OnePlace
    <3>2. Single(k)'
      BY <2>6, <3>1
    <3>3. Queued(k) => ~Held(p, k)
      BY <2>1 DEF OnePlace
    <3> QED BY <2>3, <2>6, <3>2, <3>3
  <2>5. effect'[k] = effect[k] \/ (effect'[k] = effect[k] + 1 /\ Held(p, k) /\ k \notin R /\ ~Queued(k)' /\ k <= cursor')
    <3>1. CASE effect'[k] = effect[k]
      BY <3>1
    <3>2. CASE k = m /\ effect'[k] = effect[k] + 1 /\ \A n \in Msgs : Queued(n)' => Queued(n)
      BY <1>3, <2>3, <2>6, <3>2
    <3> QED BY <3>1, <3>2
  <2>7. Queued(k)' => Single(k)' /\ (Queued(k) \/ Held(p, k))
    BY <2>4
  <2>8. Queued(k)' => k # P!None /\ k \notin R
    BY <2>3, <2>4
  <2>9. k = P!None \/ k \in R => Held(p, k)
    BY <2>3
  <2> QED BY <1>4, <2>1, <2>2, <2>3, <2>5, <2>7, <2>8, <2>9, OnceOn
<1> QED
  <2>1. a \in Stages["discord"] /\ (a = "idle" => R = {}) /\ P!None \notin R
    BY <1>1, <1>5, SourceSets
  <2>2. \A k \in Msgs : P!None = k \/ k \in R => k <= sent
    BY <1>0, <1>1, <1>5 DEF PollKnows
  <2>3. \A k \in Msgs : effect'[k] = effect[k] \/ k <= sent
    BY <1>3
  <2>4. \A k \in Msgs : Queued(k)' => Queued(k) \/ InMsg(p, k)
    BY <1>1
  <2>5. cursor' \in 0..sent
    BY <1>0
  <2> QED BY <1>2, <1>12, <1>13, <2>1, <2>2, <2>3, <2>4, <2>5, DisRest

\* A message in hand has had no effect, unless polls overlapped or the cursor was lost.
LEMMA NoEffectYet ==
    ASSUME PollInv, source = "discord", NEW p \in Poll, NEW m \in Msgs, poll[p].msg = m
    PROVE  effect[m] > 0 => trouble[m] \cap P!CopyOf[source] # {}
<1>1. DiscordOnce /\ Held(p, m)
  BY DEF PollInv, Held, InMsg
<1>2. trouble[m] \cap P!CopyOf["discord"] = {} => ~(effect[m] > 0)
  BY <1>1 DEF DiscordOnce, OnePlace
<1> QED BY <1>2

LEMMA QueueHead ==
    ASSUME PollFacts, queue # <<>>
    PROVE  Head(queue) \in Msgs
  BY HeadTailProperties DEF PollFacts

\* A command runs, a task is queued, or its attachment cannot be written.
LEMMA TakenKeeps ==
    ASSUME PollInv, NEW p \in Poll, P!Taken(p)
    PROVE  PollInv'
<1>0. PollFacts /\ P!CopiesComeFrom
  BY PollFactsAre DEF PollInv
<1>a. Shaped(p) /\ At(p) = "attachment"
  BY DEF PollInv, PollShapes, P!Taken, P!Due, At
<1>1. source = "discord" /\ At(p) # "idle" /\ DisCalm /\ source' = source /\ cursor' = cursor
  <2>1. source = "discord"
    BY <1>0, <1>a, SourceSets DEF Shaped, PollFacts
  <2> QED BY <1>a, <2>1 DEF P!Taken, P!service, DisCalm
<1>m. PICK m \in Msgs : poll[p].msg = m
  <2>1. poll[p].msg # P!None
    BY <1>a DEF Shaped
  <2> QED BY <1>0, <2>1, PollOne
<1>R. PICK R \in SUBSET Msgs : poll[p].rest = R
  BY <1>0, PollOne
<1>b. poll[p] \in PollRec
  BY <1>0 DEF PollFacts
<1>2. \/ /\ poll' = [poll EXCEPT ![p] = [poll[p] EXCEPT !.at = "next", !.msg = P!None]]
         /\ UNCHANGED <<trouble, pollFaults>>
         /\ \/ P!Acts(m) /\ UNCHANGED queue
            \/ Len(queue) < MaxMsg * MaxCopies /\ queue' = Append(queue, m) /\ UNCHANGED effect
      \/ /\ P!Fails /\ P!Befalls({m}, "fetch") /\ UNCHANGED <<queue, effect>>
         /\ poll' = [poll EXCEPT ![p] = [P!Idle EXCEPT !.at = "next"]]
  BY <1>m DEF P!Taken
<1>c. "next" \in {"idle", "next"} /\ {} \in SUBSET Msgs
  OBVIOUS
<1>3. CASE /\ poll' = [poll EXCEPT ![p] = [poll[p] EXCEPT !.at = "next", !.msg = P!None]]
           /\ UNCHANGED <<trouble, pollFaults>>
           /\ \/ P!Acts(m) /\ UNCHANGED queue
              \/ Len(queue) < MaxMsg * MaxCopies /\ queue' = Append(queue, m) /\ UNCHANGED effect
  <2>1. Becomes(p, "next", P!None, R)
    <3>1. [poll[p] EXCEPT !.at = "next", !.msg = P!None] = [at |-> "next", msg |-> P!None, rest |-> R]
      <4> DEFINE r == poll[p]
      <4>1. r \in PollRec /\ r.rest = R
        BY <1>b, <1>R
      <4> HIDE DEF r
      <4>2. [r EXCEPT !.at = "next", !.msg = P!None] = [at |-> "next", msg |-> P!None, rest |-> r.rest]
        BY <4>1, TwoFields DEF PollStage
      <4>3. [r EXCEPT !.at = "next", !.msg = P!None] = [at |-> "next", msg |-> P!None, rest |-> R]
        BY <4>1, <4>2
      <4> QED BY <4>3 DEF r
    <3>2. poll' = [poll EXCEPT ![p] = [at |-> "next", msg |-> P!None, rest |-> R]]
      BY <1>3, <3>1
    <3> QED BY <1>0, <3>2, Moving DEF PollStage
  <2>2. CASE P!Acts(m) /\ UNCHANGED queue
    <3>1. effect[m] > 0 => trouble[m] \cap P!CopyOf[source] # {}
      BY <1>1, <1>m, NoEffectYet
    <3>2. Grows /\ effect'[m] > 0 /\ \A k \in Msgs : k # m => effect'[k] = effect[k]
      BY <1>0, <1>1, <1>3, <2>2, <3>1, GrowsActs
    <3>3. effect'[m] = effect[m] + 1
      BY <1>0, <2>2, Acting
    <3>4. \A k \in Msgs : (Queued(k)' <=> Queued(k)) /\ (Single(k)' <=> Single(k))
      BY <2>2 DEF Queued, Single
    <3>5. Dealt(m)'
      BY <3>2 DEF Dealt
    <3>6. queue' \in Seq(Msgs) /\ Len(queue') <= MaxMsg * MaxCopies
      BY <1>0, <2>2 DEF PollFacts
    <3>7. \A k \in Msgs : effect'[k] = effect[k] \/ (k = m /\ effect'[k] = effect[k] + 1 /\ \A n \in Msgs : Queued(n)' => Queued(n))
      BY <3>2, <3>3, <3>4
    <3> QED BY <1>1, <1>m, <1>R, <1>c, <2>1, <3>2, <3>4, <3>5, <3>6, <3>7, DoneWith
  <2>3. CASE Len(queue) < MaxMsg * MaxCopies /\ queue' = Append(queue, m) /\ UNCHANGED effect
    <3>1. Grows
      BY <1>0, <1>1, <1>3, <2>3, GrowsStill
    <3>2. /\ queue' \in Seq(Msgs) /\ Len(queue') = Len(queue) + 1
          /\ \A k \in Msgs : Queued(k)' <=> Queued(k) \/ k = m
          /\ \A k \in Msgs : Single(k) /\ ~(k = m /\ Queued(k)) => Single(k)'
      BY <1>0, <2>3, QueueMore
    <3>3. Len(queue') <= MaxMsg * MaxCopies
      <4> DEFINE B == MaxMsg * MaxCopies
      <4>1. B \in Nat /\ Len(queue) \in Nat /\ Len(queue) < B /\ Len(queue') = Len(queue) + 1
        BY <1>0, <2>3, <3>2 DEF PollFacts
      <4> HIDE DEF B
      <4>2. Len(queue') <= B
        BY <4>1
      <4> QED BY <4>2 DEF B
    <3>4. Dealt(m)' \/ Queued(m)'
      BY <3>2
    <3>5. \A k \in Msgs : effect'[k] = effect[k]
      BY <2>3
    <3> QED BY <1>1, <1>m, <1>R, <1>c, <2>1, <3>1, <3>2, <3>3, <3>4, <3>5, DoneWith
  <2> QED BY <1>3, <2>2, <2>3
<1>4. CASE /\ P!Fails /\ P!Befalls({m}, "fetch") /\ UNCHANGED <<queue, effect>>
           /\ poll' = [poll EXCEPT ![p] = [P!Idle EXCEPT !.at = "next"]]
  <2>1. Becomes(p, "next", P!None, {})
    <3> DEFINE r == P!Idle
    <3>1. r \in PollRec /\ r.msg = P!None /\ r.rest = {}
      BY DEF P!Idle, PollRec, PollStage
    <3>2. poll' = [poll EXCEPT ![p] = [r EXCEPT !.at = "next"]]
      BY <1>4
    <3> HIDE DEF r
    <3>3. [r EXCEPT !.at = "next"] = [at |-> "next", msg |-> r.msg, rest |-> r.rest]
      BY <3>1 DEF PollRec
    <3>4. poll' = [poll EXCEPT ![p] = [at |-> "next", msg |-> P!None, rest |-> {}]]
      BY <3>1, <3>2, <3>3
    <3> QED BY <1>0, <3>4, Moving DEF PollStage
  <2>2. Grows
    BY <1>0, <1>1, <1>4, GrowsFails DEF Mishaps
  <2>3. \A k \in Msgs : (Queued(k)' <=> Queued(k)) /\ (Single(k)' <=> Single(k)) /\ effect'[k] = effect[k]
    BY <1>4 DEF Queued, Single
  <2>4. Dealt(m)'
    <3>1. P!Befalls({m}, "fetch") /\ "fetch" \in Mishaps
      BY <1>4 DEF Mishaps
    <3>2. \A k \in Msgs : k \in {m} => trouble'[k] = trouble[k] \cup {"fetch"}
      BY <1>0, <3>1, Befalling
    <3>3. "fetch" \in trouble'[m] /\ "fetch" \in P!LossOf["discord"]
      BY <3>2, SourceSets
    <3> QED BY <3>3 DEF Dealt
  <2>5. queue' \in Seq(Msgs) /\ Len(queue') <= MaxMsg * MaxCopies
    BY <1>0, <1>4 DEF PollFacts
  <2> QED BY <1>1, <1>m, <1>c, <2>1, <2>2, <2>3, <2>4, <2>5, DoneWith
<1> QED BY <1>2, <1>3, <1>4

\* One task of the queue is taken up, or there is none.
LEMMA DrainKeeps ==
    ASSUME PollInv, NEW p \in Poll, P!Drain(p)
    PROVE  PollInv'
<1>1. /\ source = "discord" /\ life = "up" /\ At(p) = "next" /\ poll[p].rest = {} /\ DisCalm /\ source' = source
      /\ UNCHANGED <<cursor, effect, trouble, pollFaults>>
  BY DEF P!Drain, P!Due, P!service, P!history, At, DisCalm
<1>0. /\ PollFacts /\ P!CopiesComeFrom /\ DiscordPasses /\ DiscordOnce /\ cursor \in 0..sent /\ PollKnows
  BY <1>1, DisFacts DEF PollInv
<1>2. \A k \in Msgs : ~InMsg(p, k) /\ ~InRest(p, k) /\ k # P!None
  <2>1. poll[p].msg = P!None
    BY <1>1 DEF PollInv, PollShapes, Shaped
  <2> QED BY <1>0, <1>1, <2>1 DEF InMsg, InRest, PollFacts
<1>3. Grows
  BY <1>0, <1>1, GrowsStill
<1>4. life' = life /\ what' = what
  BY <1>1 DEF DisCalm
<1>5. cursor' \in Nat /\ cursor <= cursor' /\ \A k \in Msgs : ~(cursor < k /\ k <= cursor')
  BY <1>0, <1>1, PollNumbers
<1>6. CASE queue = <<>>
  <2>1. Becomes(p, "idle", P!None, {}) /\ queue' = queue
    BY <1>0, <1>6, Ending DEF P!Drain
  <2>2. \A k \in Msgs : (Queued(k)' <=> Queued(k)) /\ (Single(k)' <=> Single(k))
    BY <2>1 DEF Queued, Single
  <2>3. DiscordPasses'
    <3>1. \A k \in Msgs : k = P!None \/ Queued(k)' => k <= cursor'
      BY <1>0, <1>1, <1>2, <2>2 DEF DiscordPasses
    <3> QED BY <1>1, <1>2, <1>3, <1>4, <1>5, <2>1, <2>2, <3>1, PassesOn
  <2>4. DiscordOnce'
    <3> SUFFICES ASSUME NEW k \in Msgs, trouble'[k] \cap P!CopyOf["discord"] = {} PROVE OnePlace(k)'
      BY DEF DiscordOnce
    <3>1. OnePlace(k)
      BY <1>0, <1>1 DEF DiscordOnce
    <3>2. Queued(k)' => Single(k)' /\ Queued(k)
      BY <2>2, <3>1 DEF OnePlace
    <3> QED BY <1>1, <1>2, <1>3, <1>4, <1>5, <2>1, <3>1, <3>2, OnceOn
  <2>5. "idle" \in Stages["discord"]
    BY SourceSets
  <2>6. queue' \in Seq(Msgs) /\ Len(queue') <= MaxMsg * MaxCopies
    BY <1>0, <2>1 DEF PollFacts
  <2>7. \A k \in Msgs : effect'[k] = effect[k] /\ k # P!None /\ (Queued(k)' => Queued(k))
    BY <1>1, <1>2, <2>2
  <2> QED BY <1>0, <1>1, <1>3, <2>1, <2>3, <2>4, <2>5, <2>6, <2>7, DisRest
<1>7. CASE queue # <<>>
  <2>1. PICK m \in Msgs : m = Head(queue)
    BY <1>0, <1>7, QueueHead
  <2>2. /\ queue' = Tail(queue)
        /\ poll' = [poll EXCEPT ![p] = [P!Idle EXCEPT !.at = "append", !.msg = m]]
    BY <1>7, <2>1 DEF P!Drain
  <2>3. Becomes(p, "append", m, {})
    <3> DEFINE r == P!Idle
    <3>1. r \in PollRec /\ r.rest = {}
      BY DEF P!Idle, PollRec, PollStage
    <3>2. poll' = [poll EXCEPT ![p] = [r EXCEPT !.at = "append", !.msg = m]]
      BY <2>2
    <3> HIDE DEF r
    <3>3. [r EXCEPT !.at = "append", !.msg = m] = [at |-> "append", msg |-> m, rest |-> r.rest]
      BY <3>1, TwoFields DEF PollStage
    <3>4. poll' = [poll EXCEPT ![p] = [at |-> "append", msg |-> m, rest |-> {}]]
      BY <3>1, <3>2, <3>3
    <3> QED BY <1>0, <3>4, Moving DEF PollStage
  <2>4. /\ queue' \in Seq(Msgs) /\ Len(queue') = Len(queue) - 1
        /\ \A k \in Msgs : Queued(k) <=> Queued(k)' \/ k = m
        /\ \A k \in Msgs : Single(k) => Single(k)' /\ ~(k = m /\ Queued(k)')
    BY <1>0, <1>7, <2>1, <2>2, QueueLess
  <2>5. Len(queue') <= MaxMsg * MaxCopies
    <3> DEFINE B == MaxMsg * MaxCopies
    <3>1. B \in Nat /\ Len(queue) \in Nat /\ Len(queue) <= B /\ Len(queue') = Len(queue) - 1
      BY <1>0, <2>4 DEF PollFacts
    <3> HIDE DEF B
    <3>2. Len(queue') <= B
      BY <3>1
    <3> QED BY <3>2 DEF B
  <2>6. m <= cursor /\ m <= sent
    BY <1>0, <2>4 DEF DiscordPasses, PollKnows
  <2>7. DiscordPasses'
    <3>1. \A k \in Msgs : k = m \/ Queued(k)' => k <= cursor'
      BY <1>0, <1>1, <2>4 DEF DiscordPasses
    <3>2. \A k \in Msgs : Queued(k) \/ InMsg(p, k) => Dealt(k)' \/ Queued(k)' \/ k = m
      BY <1>2, <2>4
    <3>3. {} \subseteq Msgs /\ \A x \in {} : \A k \in Msgs : cursor' < k /\ k < x => k \in {}
      OBVIOUS
    <3> QED BY <1>1, <1>3, <1>4, <1>5, <2>3, <3>1, <3>2, <3>3, PassesOn
  <2>8. DiscordOnce'
    <3> SUFFICES ASSUME NEW k \in Msgs, trouble'[k] \cap P!CopyOf["discord"] = {} PROVE OnePlace(k)'
      BY DEF DiscordOnce
    <3>1. OnePlace(k) /\ Single(k)
      BY <1>0, <1>1 DEF DiscordOnce, OnePlace
    <3>2. Queued(k)' => Single(k)' /\ Queued(k) /\ k # m
      BY <2>4, <3>1
    <3>3. k = m => Queued(k) /\ ~Queued(k)'
      BY <2>4, <3>1
    <3>4. k \notin {}
      OBVIOUS
    <3>5. effect'[k] = effect[k]
      BY <1>1
    <3> QED BY <1>1, <1>3, <1>4, <1>5, <2>3, <3>1, <3>2, <3>3, <3>4, <3>5, OnceOn
  <2>9. "append" \in Stages["discord"] /\ m # P!None /\ m \notin {}
    BY <1>2, SourceSets
  <2>10. \A k \in Msgs : effect'[k] = effect[k] /\ (Queued(k)' => Queued(k))
    BY <1>1, <2>4
  <2> QED BY <1>0, <1>1, <1>3, <2>3, <2>4, <2>5, <2>6, <2>7, <2>8, <2>9, <2>10, DisRest
<1> QED BY <1>6, <1>7

\* The append, whatever becomes of it.
LEMMA DrainedKeeps ==
    ASSUME PollInv, NEW p \in Poll, P!Drained(p)
    PROVE  PollInv'
<1>0. PollFacts /\ P!CopiesComeFrom
  BY PollFactsAre DEF PollInv
<1>1. /\ source = "discord" /\ At(p) = "append" /\ At(p) # "idle" /\ DisCalm /\ source' = source /\ cursor' = cursor /\ queue' = queue
      /\ P!Ends(p)
  BY DEF P!Drained, P!Due, P!service, At, DisCalm
<1>m. PICK m \in Msgs : poll[p].msg = m
  <2>1. poll[p].msg # P!None
    BY <1>1 DEF PollInv, PollShapes, Shaped
  <2> QED BY <1>0, <2>1, PollOne
<1>2. \/ P!Acts(m) /\ UNCHANGED <<trouble, pollFaults>>
      \/ P!Fails /\ P!Befalls({m}, "append") /\ UNCHANGED effect
  BY <1>m DEF P!Drained
<1>3. Becomes(p, "idle", P!None, {})
  BY <1>0, <1>1, Ending
<1>4. \A k \in Msgs : (Queued(k)' <=> Queued(k)) /\ (Single(k)' <=> Single(k))
  BY <1>1 DEF Queued, Single
<1>5. queue' \in Seq(Msgs) /\ Len(queue') <= MaxMsg * MaxCopies
  BY <1>0, <1>1 DEF PollFacts
<1>6. "idle" \in {"idle", "next"} /\ {} \in SUBSET Msgs
  OBVIOUS
<1>7. CASE P!Acts(m) /\ UNCHANGED <<trouble, pollFaults>>
  <2>1. effect[m] > 0 => trouble[m] \cap P!CopyOf[source] # {}
    BY <1>1, <1>m, NoEffectYet
  <2>2. Grows /\ effect'[m] > 0 /\ \A k \in Msgs : k # m => effect'[k] = effect[k]
    BY <1>0, <1>1, <1>7, <2>1, GrowsActs
  <2>3. effect'[m] = effect[m] + 1
    BY <1>0, <1>7, Acting
  <2>4. Dealt(m)'
    BY <2>2 DEF Dealt
  <2>5. \A k \in Msgs : effect'[k] = effect[k] \/ (k = m /\ effect'[k] = effect[k] + 1 /\ \A n \in Msgs : Queued(n)' => Queued(n))
    BY <1>4, <2>2, <2>3
  <2> QED BY <1>1, <1>m, <1>3, <1>4, <1>5, <1>6, <2>2, <2>4, <2>5, DoneWith
<1>8. CASE P!Fails /\ P!Befalls({m}, "append") /\ UNCHANGED effect
  <2>1. Grows
    BY <1>0, <1>1, <1>8, GrowsFails DEF Mishaps
  <2>2. Dealt(m)'
    <3>1. P!Befalls({m}, "append") /\ "append" \in Mishaps
      BY <1>8 DEF Mishaps
    <3>2. \A k \in Msgs : k \in {m} => trouble'[k] = trouble[k] \cup {"append"}
      BY <1>0, <3>1, Befalling
    <3>3. "append" \in trouble'[m] /\ "append" \in P!LossOf["discord"]
      BY <3>2, SourceSets
    <3> QED BY <3>3 DEF Dealt
  <2>3. \A k \in Msgs : effect'[k] = effect[k]
    BY <1>8
  <2> QED BY <1>1, <1>m, <1>3, <1>4, <1>5, <1>6, <2>1, <2>2, <2>3, DoneWith
<1> QED BY <1>2, <1>7, <1>8

-----------------------------------------------------------------------------
(* The mailbox poller. *)

MailCalm == UNCHANGED <<source, sent, what, patch, cursor, etag, queue, life>>

LEMMA MailStays == Grows /\ what' = what => \A k \in Msgs : (MailDealt(k) => MailDealt(k)') /\ (MayCopy(k) => MayCopy(k)')
<1> SUFFICES ASSUME Grows, what' = what, NEW k \in Msgs PROVE (MailDealt(k) => MailDealt(k)') /\ (MayCopy(k) => MayCopy(k)')
  OBVIOUS
<1>1. trouble[k] \subseteq trouble'[k]
  BY DEF Grows
<1>2. effect[k] > 0 => effect'[k] > 0
  BY DEF Grows
<1> QED BY <1>1, <1>2 DEF MailDealt, MayCopy

\* The one poll of a mailbox moves.
LEMMA MailOn ==
    ASSUME PollInv, source = "email", NEW p \in Poll, NEW a, NEW m, NEW R, Becomes(p, a, m, R), Grows, MailCalm, life = "up",
           \A q \in Poll : q # p => At(q) = "idle",
           told \subseteq told', \A k \in told' : k \in told \/ (k \in Msgs /\ InMsg(p, k)),
           a \in Stages["email"], a = "idle" => R = {}, a \in {"idle", "next"} <=> m = P!None, m \notin R,
           \A k \in Msgs : m = k \/ k \in R => k <= sent,
           \A k \in Msgs : effect'[k] = effect[k] \/ k <= sent,
           \A k \in Msgs : (k \in told' /\ k \notin told) \/ (a = "flag" /\ k = m) => MailDealt(k)',
           \A k \in Msgs : effect'[k] > 0 => k \in told' \/ MayCopy(k)' \/ (a = "flag" /\ k = m),
           \A k \in Msgs : k \in R \/ (a = "append" /\ k = m) => k \notin told' /\ (effect'[k] > 0 => MayCopy(k)')
    PROVE  PollInv'
<1>0. PollFacts /\ P!TypeOK /\ PollShapes /\ PollKnows /\ P!CopiesComeFrom /\ MailGoes
  BY PollFactsAre DEF PollInv
<1>1. P!TypeOK'
  <2>1. told' \subseteq Msgs
    BY <1>0 DEF PollFacts
  <2> QED BY <1>0, <2>1, PollTypesNext DEF PollFacts, Becomes, MailCalm, Grows
<1>2. PollShapes'
  <2>1. source' = source /\ patch' = patch /\ queue' = queue /\ life' = "up"
    BY DEF MailCalm
  <2>2. At(p) # "idle" \/ \A q \in Poll : At(q) = "idle"
    OBVIOUS
  <2> QED BY <1>0, <2>1, <2>2, KeepShapes
<1>3. PollKnows'
  <2>1. \A k \in told' \cup patch' : k \in Msgs /\ (k \in told \cup patch \/ InMsg(p, k))
    BY <1>0 DEF PollFacts, MailCalm
  <2>2. sent' = sent /\ what' = what /\ cursor' \in 0..sent
    <3>1. cursor <= sent
      BY <1>0 DEF PollKnows
    <3> QED BY <1>0, <3>1, PollNumbers DEF MailCalm
  <2>3. \A k \in Msgs : Queued(k)' => Queued(k)
    BY DEF Queued, MailCalm
  <2> QED BY <1>0, <2>1, <2>2, <2>3, KeepKnows
<1>4. \A q \in Poll : q # p => At(q)' = "idle"
  BY DEF Becomes, At
<1>5. At(p)' = a
  BY DEF Becomes, At
<1>6. \A k \in Msgs : ToFlag(k)' <=> a = "flag" /\ k = m
  <2> SUFFICES ASSUME NEW k \in Msgs PROVE ToFlag(k)' <=> a = "flag" /\ k = m
    OBVIOUS
  <2>1. InMsg(p, k)' <=> k = m
    BY HandIs
  <2> QED BY <1>4, <1>5, <2>1 DEF ToFlag
<1>7. ASSUME NEW k \in Msgs, ToDo(k)' PROVE k \in R \/ (a = "append" /\ k = m)
  <2>1. PICK q \in Poll : InRest(q, k)' \/ (At(q)' = "append" /\ InMsg(q, k)')
    BY <1>7 DEF ToDo
  <2>2. q = p
    <3>1. At(q)' = "idle" => ~InRest(q, k)'
      BY <1>2 DEF PollShapes, Shaped, At, InRest
    <3> QED BY <1>4, <2>1, <3>1
  <2> QED BY <1>5, <2>1, <2>2, HandIs
<1>8. \A k \in Msgs : (MailDealt(k) => MailDealt(k)') /\ (MayCopy(k) => MayCopy(k)')
  BY MailStays DEF MailCalm
<1>9. MailGoes'
  <2>1. \A k \in Msgs : k \in told' \/ ToFlag(k)' => MailDealt(k)'
    BY <1>0, <1>6, <1>8 DEF MailGoes
  <2>2. \A k \in Msgs : effect'[k] > 0 => k \in told' \/ MayCopy(k)' \/ ToFlag(k)'
    BY <1>6
  <2>3. \A k \in Msgs : ToDo(k)' => k \notin told' /\ (effect'[k] > 0 => MayCopy(k)')
    BY <1>7
  <2> QED BY <2>1, <2>2, <2>3 DEF MailGoes
<1> QED BY <1>1, <1>2, <1>3, <1>9 DEF PollInv, MailCalm, Grows

\* What the one poll has.
LEMMA MailFacts ==
    ASSUME PollInv, source = "email", NEW p \in Poll
    PROVE  /\ PollFacts /\ P!CopiesComeFrom /\ Shaped(p)
           /\ \A k \in Msgs : (InMsg(p, k) <=> poll[p].msg = k) /\ (InRest(p, k) <=> k \in poll[p].rest) /\ k # P!None
                              /\ (InMsg(p, k) \/ InRest(p, k) => k <= sent)
           /\ At(p) # "idle" => life = "up" /\ \A q \in Poll : q # p => At(q) = "idle"
           /\ \A q \in Poll : q # p /\ At(q) = "idle" => \A k \in Msgs : ~InMsg(q, k)
           /\ \A k \in Msgs : effect[k] > 0 => k \in told \/ MayCopy(k) \/ ToFlag(k)
           /\ \A k \in Msgs : k \in poll[p].rest \/ (At(p) = "append" /\ poll[p].msg = k) => k \notin told /\ (effect[k] > 0 => MayCopy(k))
           /\ \A k \in Msgs : At(p) = "flag" /\ poll[p].msg = k => MailDealt(k)
<1>1. PollFacts /\ P!CopiesComeFrom /\ PollShapes /\ PollKnows /\ MailGoes
  BY PollFactsAre DEF PollInv
<1>2. \A k \in Msgs : (InMsg(p, k) <=> poll[p].msg = k) /\ (InRest(p, k) <=> k \in poll[p].rest) /\ k # P!None
                      /\ (InMsg(p, k) \/ InRest(p, k) => k <= sent)
  BY <1>1 DEF PollFacts, PollKnows, InMsg, InRest
<1>3. At(p) # "idle" => life = "up" /\ \A q \in Poll : q # p => At(q) = "idle"
  BY <1>1 DEF PollShapes, Alone, PollFacts
<1>4. Shaped(p)
  BY <1>1 DEF PollShapes
<1>5. \A q \in Poll : q # p /\ At(q) = "idle" => \A k \in Msgs : ~InMsg(q, k)
  BY <1>1 DEF PollShapes, Shaped, InMsg, PollFacts
<1>6. \A k \in Msgs : k \in poll[p].rest \/ (At(p) = "append" /\ poll[p].msg = k) => ToDo(k)
  BY <1>2 DEF ToDo
<1>7. \A k \in Msgs : At(p) = "flag" /\ poll[p].msg = k => ToFlag(k)
  BY <1>2 DEF ToFlag
<1> QED BY <1>1, <1>2, <1>3, <1>4, <1>5, <1>6, <1>7 DEF MailGoes

\* The search.
LEMMA SearchKeeps ==
    ASSUME PollInv, NEW p \in Poll, P!Search(p)
    PROVE  PollInv'
<1>1. /\ source = "email" /\ life = "up" /\ At(p) = "idle" /\ \A q \in Poll : At(q) = "idle"
      /\ MailCalm /\ source' = source /\ UNCHANGED <<told, effect, trouble, pollFaults>>
  BY DEF P!Search, P!Due, P!service, P!history, At, MailCalm
<1>2. PollFacts /\ P!CopiesComeFrom /\ \A k \in Msgs : effect[k] > 0 => k \in told \/ MayCopy(k) \/ ToFlag(k)
  BY <1>1, MailFacts
<1>3. Grows /\ what' = what
  BY <1>1, <1>2, GrowsStill DEF MailCalm
<1>4. \A k \in Msgs : ~ToFlag(k)
  BY <1>1 DEF ToFlag
<1> DEFINE R == P!Unmarked
<1>5. R \subseteq Msgs /\ \A k \in R : k <= sent /\ k \notin told /\ k # P!None
  <2>1. R = (1..sent) \ told
    BY DEF P!Unmarked
  <2> QED BY <1>2, <2>1, PollNumbers DEF PollFacts
<1>6. poll' = [poll EXCEPT ![p] = [P!Idle EXCEPT !.at = "next", !.rest = R]]
  BY DEF P!Search
<1> HIDE DEF R
<1>7. Becomes(p, "next", P!None, R)
  <2> DEFINE r == P!Idle
  <2>1. r \in PollRec /\ r.msg = P!None
    BY DEF P!Idle, PollRec, PollStage
  <2>2. poll' = [poll EXCEPT ![p] = [r EXCEPT !.at = "next", !.rest = R]]
    BY <1>6
  <2> HIDE DEF r
  <2>3. [r EXCEPT !.at = "next", !.rest = R] = [at |-> "next", msg |-> r.msg, rest |-> R]
    BY <1>5, <2>1, StageAndRest DEF PollStage
  <2>4. poll' = [poll EXCEPT ![p] = [at |-> "next", msg |-> P!None, rest |-> R]]
    BY <2>1, <2>2, <2>3
  <2> QED BY <1>2, <1>5, <2>4, Moving DEF PollStage
<1>8. \A k \in Msgs : effect'[k] > 0 => k \in told' \/ MayCopy(k)'
  BY <1>1, <1>2, <1>3, <1>4, MailStays
<1>9. \A k \in Msgs : k \in R => k \notin told' /\ (effect'[k] > 0 => MayCopy(k)')
  BY <1>1, <1>5, <1>8
<1>10. "next" \in Stages["email"] /\ P!None \notin R /\ \A k \in Msgs : (P!None = k \/ k \in R => k <= sent)
  BY <1>2, <1>5, SourceSets DEF PollFacts
<1>11. told \subseteq told' /\ (\A k \in told' : k \in told) /\ \A k \in Msgs : effect'[k] = effect[k]
  BY <1>1
<1> QED BY <1>1, <1>3, <1>7, <1>8, <1>9, <1>10, <1>11, MailOn

\* A mail is read: of no interest, to be saved, or not to be read at all.
LEMMA ReadKeeps ==
    ASSUME PollInv, NEW p \in Poll, P!Read(p)
    PROVE  PollInv'
<1>1. /\ source = "email" /\ At(p) = "next" /\ poll[p].rest # {}
      /\ MailCalm /\ source' = source /\ UNCHANGED <<told, effect>>
  BY DEF P!Read, P!Due, P!service, At, MailCalm
<1>2. /\ PollFacts /\ P!CopiesComeFrom /\ poll[p].rest \subseteq Msgs
      /\ \A k \in Msgs : effect[k] > 0 => k \in told \/ MayCopy(k) \/ ToFlag(k)
      /\ \A k \in Msgs : k \in poll[p].rest => k \notin told /\ k <= sent /\ (effect[k] > 0 => MayCopy(k))
      /\ life = "up" /\ \A q \in Poll : q # p => At(q) = "idle"
  BY <1>1, MailFacts, PollOne
<1>3. PICK m \in Msgs : m = P!Oldest(poll[p].rest) /\ m \in poll[p].rest
  BY <1>1, <1>2, OldestIs
<1>4. PICK R \in SUBSET Msgs : R = poll[p].rest \ {m}
  BY <1>2
<1>5. \E a \in {"next", "append", "flag"} : \E h \in {P!None, m} :
        /\ Becomes(p, a, h, R) /\ Grows /\ (a = "next" <=> h = P!None)
        /\ a = "flag" => MailDealt(m)'
  <2> DEFINE Goes(a, h) == poll' = [poll EXCEPT ![p] = [at |-> a, msg |-> h, rest |-> R]]
  <2>0. \A a \in PollStage : \A h \in {P!None, m} : Goes(a, h) => Becomes(p, a, h, R)
    BY <1>2, Moving
  <2>1. \/ what[m] = "other" /\ Goes("next", P!None) /\ UNCHANGED <<trouble, pollFaults>>
        \/ what[m] # "other" /\ Goes("append", m) /\ UNCHANGED <<trouble, pollFaults>>
        \/ P!Fails /\ P!Befalls({m}, "fetch") /\ Goes("flag", m)
    BY <1>3, <1>4 DEF P!Read
  <2> HIDE DEF Goes
  <2>2. m # P!None /\ {"next", "append", "flag"} \subseteq PollStage
    BY <1>2 DEF PollFacts, PollStage
  <2>3. CASE what[m] = "other" /\ Goes("next", P!None) /\ UNCHANGED <<trouble, pollFaults>>
    <3>1. Grows
      BY <1>1, <1>2, <2>3, GrowsStill
    <3>2. Becomes(p, "next", P!None, R)
      BY <2>0, <2>2, <2>3
    <3> QED BY <3>1, <3>2
  <2>4. CASE what[m] # "other" /\ Goes("append", m) /\ UNCHANGED <<trouble, pollFaults>>
    <3>1. Grows
      BY <1>1, <1>2, <2>4, GrowsStill
    <3>2. Becomes(p, "append", m, R)
      BY <2>0, <2>2, <2>4
    <3> QED BY <2>2, <3>1, <3>2
  <2>5. CASE P!Fails /\ P!Befalls({m}, "fetch") /\ Goes("flag", m)
    <3>1. Grows
      BY <1>1, <1>2, <2>5, GrowsFails DEF Mishaps
    <3>2. Becomes(p, "flag", m, R)
      BY <2>0, <2>2, <2>5
    <3>3. P!Befalls({m}, "fetch") /\ "fetch" \in Mishaps
      BY <2>5 DEF Mishaps
    <3>4. \A k \in Msgs : k \in {m} => trouble'[k] = trouble[k] \cup {"fetch"}
      BY <1>2, <3>3, Befalling
    <3>5. "fetch" \in trouble'[m] /\ "fetch" \in P!LossOf["email"]
      BY <3>4, SourceSets
    <3>6. MailDealt(m)'
      BY <3>5 DEF MailDealt
    <3> QED BY <2>2, <3>1, <3>2, <3>6
  <2> QED BY <2>1, <2>3, <2>4, <2>5
<1>6. PICK a \in {"next", "append", "flag"} : \E h \in {P!None, m} :
        /\ Becomes(p, a, h, R) /\ Grows /\ (a = "next" <=> h = P!None)
        /\ a = "flag" => MailDealt(m)'
  BY <1>5
<1>7. PICK h \in {P!None, m} :
        /\ Becomes(p, a, h, R) /\ Grows /\ (a = "next" <=> h = P!None)
        /\ a = "flag" => MailDealt(m)'
  BY <1>6
<1>8. \A k \in Msgs : ~ToFlag(k) /\ k # P!None
  <2>1. \A q \in Poll : At(q) # "flag"
    BY <1>1, <1>2
  <2> QED BY <1>2, <2>1 DEF ToFlag, PollFacts
<1>9. \A k \in Msgs : MayCopy(k) => MayCopy(k)'
  BY <1>1, <1>7, MailStays DEF MailCalm
<1>10. \A k \in Msgs : effect'[k] > 0 => k \in told' \/ MayCopy(k)'
  BY <1>1, <1>2, <1>8, <1>9
<1>11. \A k \in Msgs : k \in R \/ k = h => k \in poll[p].rest
  BY <1>3, <1>4, <1>8
<1>12. \A k \in Msgs : k \in R \/ (a = "append" /\ k = h) => k \notin told' /\ (effect'[k] > 0 => MayCopy(k)')
  BY <1>1, <1>2, <1>9, <1>11
<1>13. /\ told \subseteq told' /\ \A k \in told' : k \in told
       /\ \A k \in Msgs : effect'[k] = effect[k] /\ (h = k \/ k \in R => k <= sent)
       /\ \A k \in Msgs : (k \in told' /\ k \notin told) \/ (a = "flag" /\ k = h) => MailDealt(k)'
  BY <1>1, <1>2, <1>7, <1>8, <1>11
<1>14. a \in Stages["email"] /\ a # "idle" /\ (a \in {"idle", "next"} <=> h = P!None) /\ h \notin R
  BY <1>2, <1>4, <1>7, SourceSets DEF PollFacts
<1> QED BY <1>1, <1>2, <1>7, <1>10, <1>12, <1>13, <1>14, MailOn

\* The append; a failure leads to the same flag.
LEMMA SavedKeeps ==
    ASSUME PollInv, NEW p \in Poll, P!Saved(p)
    PROVE  PollInv'
<1>1. /\ source = "email" /\ At(p) = "append" /\ P!To(p, "flag")
      /\ MailCalm /\ source' = source /\ told' = told
  BY DEF P!Saved, P!Due, P!service, At, MailCalm
<1>2. /\ PollFacts /\ P!CopiesComeFrom /\ poll[p].rest \subseteq Msgs /\ Shaped(p)
      /\ \A k \in Msgs : effect[k] > 0 => k \in told \/ MayCopy(k) \/ ToFlag(k)
      /\ \A k \in Msgs : k \in poll[p].rest \/ poll[p].msg = k => k \notin told /\ k <= sent /\ (effect[k] > 0 => MayCopy(k))
      /\ life = "up" /\ \A q \in Poll : q # p => At(q) = "idle"
  BY <1>1, MailFacts, PollOne
<1>m. PICK m \in Msgs : poll[p].msg = m
  <2>1. poll[p].msg # P!None
    BY <1>1, <1>2 DEF Shaped
  <2> QED BY <1>2, <2>1, PollOne
<1>R. PICK R \in SUBSET Msgs : R = poll[p].rest
  BY <1>2
<1>3. Becomes(p, "flag", m, R)
  BY <1>1, <1>2, <1>m, <1>R, Going DEF PollStage
<1>4. Grows /\ MailDealt(m)' /\ \A k \in Msgs : k # m => effect'[k] = effect[k]
  <2>1. \/ P!Acts(m) /\ UNCHANGED <<trouble, pollFaults>>
        \/ P!Fails /\ P!Befalls({m}, "append") /\ UNCHANGED effect
    BY <1>m DEF P!Saved
  <2>2. CASE P!Acts(m) /\ UNCHANGED <<trouble, pollFaults>>
    <3>1. effect[m] > 0 => trouble[m] \cap P!CopyOf[source] # {}
      BY <1>1, <1>2, <1>m DEF MayCopy
    <3>2. Grows /\ effect'[m] > 0 /\ \A k \in Msgs : k # m => effect'[k] = effect[k]
      BY <1>1, <1>2, <2>2, <3>1, GrowsActs
    <3>3. MailDealt(m)'
      BY <3>2 DEF MailDealt
    <3> QED BY <3>2, <3>3
  <2>3. CASE P!Fails /\ P!Befalls({m}, "append") /\ UNCHANGED effect
    <3>1. Grows
      BY <1>1, <1>2, <2>3, GrowsFails DEF Mishaps
    <3>3. P!Befalls({m}, "append") /\ "append" \in Mishaps
      BY <2>3 DEF Mishaps
    <3>4. \A k \in Msgs : k \in {m} => trouble'[k] = trouble[k] \cup {"append"}
      BY <1>2, <3>3, Befalling
    <3>5. "append" \in trouble'[m] /\ "append" \in P!LossOf["email"]
      BY <3>4, SourceSets
    <3>6. MailDealt(m)'
      BY <3>5 DEF MailDealt
    <3> QED BY <2>3, <3>1, <3>6
  <2> QED BY <2>1, <2>2, <2>3
<1>5. \A k \in Msgs : ~ToFlag(k) /\ k # P!None
  <2>1. \A q \in Poll : At(q) # "flag"
    BY <1>1, <1>2
  <2> QED BY <1>2, <2>1 DEF ToFlag, PollFacts
<1>6. \A k \in Msgs : MayCopy(k) => MayCopy(k)'
  BY <1>1, <1>4, MailStays DEF MailCalm
<1>7. m \notin R /\ m # P!None
  BY <1>2, <1>5, <1>m, <1>R DEF Shaped
<1>8. \A k \in Msgs : effect'[k] > 0 => k \in told' \/ MayCopy(k)' \/ k = m
  BY <1>1, <1>2, <1>4, <1>5, <1>6
<1>9. \A k \in Msgs : k \in R => k \notin told' /\ (effect'[k] > 0 => MayCopy(k)')
  BY <1>1, <1>2, <1>4, <1>6, <1>7, <1>R
<1>10. /\ told \subseteq told' /\ \A k \in told' : k \in told
       /\ \A k \in Msgs : (effect'[k] = effect[k] \/ k <= sent) /\ (m = k \/ k \in R => k <= sent)
       /\ \A k \in Msgs : (k \in told' /\ k \notin told) \/ k = m => MailDealt(k)'
  BY <1>1, <1>2, <1>4, <1>m, <1>R
<1>11. "flag" \in Stages["email"] /\ "flag" # "idle" /\ ~("flag" \in {"idle", "next"}) /\ "flag" # "append"
  BY SourceSets
<1> QED BY <1>1, <1>2, <1>3, <1>4, <1>7, <1>8, <1>9, <1>10, <1>11, MailOn

\* The flag.
LEMMA FlagKeeps ==
    ASSUME PollInv, NEW p \in Poll, P!Flag(p)
    PROVE  PollInv'
<1>0. PollFacts /\ Shaped(p) /\ At(p) = "flag"
  BY PollFactsAre DEF PollInv, PollShapes, P!Flag, P!Due, At
<1>1. /\ source = "email" /\ MailCalm /\ source' = source /\ UNCHANGED <<effect, trouble, pollFaults>>
  <2>1. source = "email"
    BY <1>0, SourceSets DEF Shaped, PollFacts
  <2> QED BY <2>1 DEF P!Flag, P!history, MailCalm
<1>2. /\ P!CopiesComeFrom /\ poll[p].rest \subseteq Msgs
      /\ \A k \in Msgs : effect[k] > 0 => k \in told \/ MayCopy(k) \/ ToFlag(k)
      /\ \A k \in Msgs : k \in poll[p].rest => k \notin told /\ (effect[k] > 0 => MayCopy(k))
      /\ \A k \in Msgs : k \in poll[p].rest \/ poll[p].msg = k => k <= sent
      /\ \A k \in Msgs : poll[p].msg = k => MailDealt(k) /\ InMsg(p, k)
      /\ life = "up" /\ \A q \in Poll : q # p => At(q) = "idle"
  BY <1>0, <1>1, MailFacts, PollOne
<1>m. PICK m \in Msgs : poll[p].msg = m
  <2>1. poll[p].msg # P!None
    BY <1>0 DEF Shaped
  <2> QED BY <1>0, <2>1, PollOne
<1>R. PICK R \in SUBSET Msgs : R = poll[p].rest
  BY <1>2
<1>3. told' = told \cup {m} /\ poll' = [poll EXCEPT ![p] = [poll[p] EXCEPT !.at = "next", !.msg = P!None]]
  BY <1>m DEF P!Flag
<1>4. Becomes(p, "next", P!None, R)
  <2> DEFINE r == poll[p]
  <2>1. r \in PollRec /\ r.rest = R
    BY <1>0, <1>R DEF PollFacts
  <2>2. poll' = [poll EXCEPT ![p] = [r EXCEPT !.at = "next", !.msg = P!None]]
    BY <1>3
  <2> HIDE DEF r
  <2>3. [r EXCEPT !.at = "next", !.msg = P!None] = [at |-> "next", msg |-> P!None, rest |-> r.rest]
    BY <2>1, TwoFields DEF PollStage
  <2>4. poll' = [poll EXCEPT ![p] = [at |-> "next", msg |-> P!None, rest |-> R]]
    BY <2>1, <2>2, <2>3
  <2> QED BY <1>0, <2>4, Moving DEF PollStage
<1>5. Grows
  BY <1>0, <1>1, <1>2, GrowsStill
<1>6. \A k \in Msgs : ToFlag(k) => k = m
  <2>1. \A q \in Poll : At(q) = "flag" => q = p
    BY <1>2
  <2> QED BY <1>m, <2>1 DEF ToFlag, InMsg
<1>7. \A k \in Msgs : (MailDealt(k) => MailDealt(k)') /\ (MayCopy(k) => MayCopy(k)')
  BY <1>1, <1>5, MailStays DEF MailCalm
<1>8. m \notin R
  BY <1>0, <1>m, <1>R DEF Shaped
<1>9. \A k \in Msgs : effect'[k] > 0 => k \in told' \/ MayCopy(k)'
  BY <1>1, <1>2, <1>3, <1>6, <1>7
<1>10. \A k \in Msgs : k \in R => k \notin told' /\ (effect'[k] > 0 => MayCopy(k)')
  BY <1>1, <1>2, <1>3, <1>7, <1>8, <1>R
<1>11. /\ told \subseteq told' /\ \A k \in told' : k \in told \/ (k \in Msgs /\ InMsg(p, k))
       /\ \A k \in Msgs : effect'[k] = effect[k] /\ k # P!None /\ (k \in R => k <= sent)
       /\ \A k \in Msgs : k \in told' /\ k \notin told => MailDealt(k)'
  <2>1. \A k \in Msgs : k # P!None
    BY <1>0 DEF PollFacts
  <2> QED BY <1>1, <1>2, <1>3, <1>7, <1>m, <1>R, <2>1
<1>12. "next" \in Stages["email"] /\ P!None \notin R
  BY <1>0, SourceSets DEF PollFacts
<1> QED BY <1>1, <1>2, <1>4, <1>5, <1>9, <1>10, <1>11, <1>12, MailOn

\* A poll of a mailbox is over.
LEMMA MailOver ==
    ASSUME PollInv, source = "email", NEW p \in Poll, Becomes(p, "idle", P!None, {}), At(p) # "idle", Grows, MailCalm,
           told' = told, effect' = effect,
           \A k \in Msgs : At(p) = "flag" /\ poll[p].msg = k => MayCopy(k)'
    PROVE  PollInv'
<1>1. /\ PollFacts /\ life = "up" /\ \A q \in Poll : q # p => At(q) = "idle"
      /\ \A k \in Msgs : effect[k] > 0 => k \in told \/ MayCopy(k) \/ ToFlag(k)
  BY MailFacts
<1>2. \A k \in Msgs : ToFlag(k) => MayCopy(k)'
  <2> SUFFICES ASSUME NEW k \in Msgs, ToFlag(k) PROVE MayCopy(k)'
    OBVIOUS
  <2>1. PICK q \in Poll : At(q) = "flag" /\ InMsg(q, k)
    BY DEF ToFlag
  <2>2. q = p
    BY <1>1, <2>1
  <2> QED BY <2>1, <2>2 DEF InMsg
<1>3. \A k \in Msgs : MayCopy(k) => MayCopy(k)'
  BY MailStays DEF MailCalm
<1>4. \A k \in Msgs : effect'[k] > 0 => k \in told' \/ MayCopy(k)'
  BY <1>1, <1>2, <1>3
<1>5. /\ told \subseteq told' /\ \A k \in told' : k \in told
      /\ \A k \in Msgs : effect'[k] = effect[k] /\ k # P!None /\ ~(k \in told' /\ k \notin told)
      /\ "idle" \in Stages["email"]
  BY <1>1, SourceSets DEF PollFacts
<1> QED BY <1>1, <1>4, <1>5, MailOn

LEMMA DroppedKeeps ==
    ASSUME PollInv, NEW p \in Poll, P!Dropped(p)
    PROVE  PollInv'
<1>1. /\ source = "email" /\ At(p) \in {"next", "flag"} /\ MailCalm /\ source' = source /\ UNCHANGED <<told, effect>> /\ P!Ends(p) /\ P!Fails
      /\ IF At(p) = "flag" THEN P!Befalls({poll[p].msg}, "flag") ELSE UNCHANGED trouble
  BY DEF P!Dropped, P!service, At, MailCalm
<1>2. PollFacts /\ P!CopiesComeFrom /\ At(p) # "idle"
  BY <1>1, MailFacts
<1>3. Becomes(p, "idle", P!None, {})
  BY <1>1, <1>2, Ending
<1>4. CASE At(p) = "flag" /\ P!Befalls({poll[p].msg}, "flag")
  <2>1. Grows
    BY <1>1, <1>2, <1>4, GrowsFails DEF Mishaps
  <2>2. ASSUME NEW k \in Msgs, poll[p].msg = k PROVE MayCopy(k)'
    <3>1. P!Befalls({k}, "flag") /\ "flag" \in Mishaps
      BY <1>4, <2>2 DEF Mishaps
    <3>2. \A n \in Msgs : n \in {k} => trouble'[n] = trouble[n] \cup {"flag"}
      BY <1>2, <3>1, Befalling
    <3>3. "flag" \in trouble'[k] /\ "flag" \in P!CopyOf["email"]
      BY <3>2, SourceSets
    <3> QED BY <3>3 DEF MayCopy
  <2> QED BY <1>1, <1>2, <1>3, <2>1, <2>2, MailOver
<1>5. CASE At(p) # "flag" /\ UNCHANGED trouble
  <2>1. P!CopiesComeFrom'
    BY <1>1, <1>2, <1>5, NoCopies
  <2>2. Grows
    BY <1>1, <1>2, <1>5, <2>1, Failing DEF Grows, PollFacts
  <2> QED BY <1>1, <1>2, <1>3, <1>5, <2>2, MailOver
<1> QED BY <1>1, <1>4, <1>5

LEMMA SearchEndsKeeps ==
    ASSUME PollInv, NEW p \in Poll, P!SearchEnds(p)
    PROVE  PollInv'
<1>1. /\ source = "email" /\ At(p) = "next" /\ MailCalm /\ source' = source /\ P!Ends(p)
      /\ UNCHANGED <<told, effect, trouble, pollFaults>>
  BY DEF P!SearchEnds, P!Due, P!service, P!history, At, MailCalm
<1>2. PollFacts /\ P!CopiesComeFrom
  BY <1>1, MailFacts
<1>3. Becomes(p, "idle", P!None, {})
  BY <1>1, <1>2, Ending
<1>4. Grows
  BY <1>1, <1>2, GrowsStill
<1> QED BY <1>1, <1>3, <1>4, MailOver

-----------------------------------------------------------------------------
(* All pollers. *)

\* A new message.
LEMMA ArrivesKeeps ==
    ASSUME PollInv, NEW w \in P!What, P!Arrives(w)
    PROVE  PollInv'
<1>0. PollFacts /\ P!TypeOK /\ PollShapes /\ PollKnows /\ P!CopiesComeFrom
  BY PollFactsAre DEF PollInv
<1>1. /\ sent < MaxMsg /\ sent' = sent + 1 /\ what' = [what EXCEPT ![sent + 1] = w]
      /\ UNCHANGED <<source, told, patch, cursor, etag, queue, poll, life, effect, trouble, pollFaults>>
  BY DEF P!Arrives, P!memory, P!history
<1>2. /\ sent + 1 \in Msgs /\ sent' \in 0..MaxMsg /\ sent \in Nat /\ cursor \in Nat
      /\ \A k \in Msgs : k \in Nat /\ (k <= sent => k <= sent' /\ k # sent + 1) /\ (k > sent' => k > sent /\ k # sent + 1)
  <2>1. MaxMsg \in Nat /\ sent \in Nat /\ cursor \in Nat /\ \A k \in Msgs : k \in Nat
    BY <1>0, PollNumbers
  <2>2. sent + 1 \in Nat /\ 0 < sent + 1 /\ sent + 1 <= MaxMsg
    BY <1>1, <2>1
  <2>3. sent + 1 \in Msgs
    BY <1>0, <2>2, PollNumbers
  <2> QED BY <1>1, <2>1, <2>2, <2>3
<1>3. what' \in [Msgs -> {"task", "command", "other"}] /\ \A k \in Msgs : k # sent + 1 => what'[k] = what[k]
  BY <1>0, <1>1, <1>2 DEF PollFacts, P!What
<1>4. P!TypeOK'
  BY <1>0, <1>1, <1>2, <1>3, PollTypesNext DEF PollFacts
<1>5. PollShapes'
  BY <1>0, <1>1 DEF PollShapes, Shaped, Alone, At
<1>6. PollKnows'
  <2>1. cursor' <= sent' /\ \A k \in told' \cup patch' : k <= sent'
    <3>1. cursor <= sent /\ \A k \in told \cup patch : k <= sent /\ k \in Msgs
      BY <1>0 DEF PollKnows, PollFacts
    <3>2. cursor <= sent'
      BY <1>1, <1>2, <3>1
    <3> QED BY <1>1, <1>2, <3>1, <3>2
  <2>2. \A k \in Msgs : Queued(k)' => k <= sent'
    BY <1>0, <1>1, <1>2 DEF PollKnows, Queued
  <2>3. \A p \in Poll : \A k \in Msgs : InMsg(p, k)' \/ InRest(p, k)' => k <= sent'
    BY <1>0, <1>1, <1>2 DEF PollKnows, InMsg, InRest
  <2>4. \A k \in Msgs : k > sent' => what'[k] = "other" /\ effect'[k] = 0
    BY <1>0, <1>1, <1>2, <1>3 DEF PollKnows
  <2> QED BY <2>1, <2>2, <2>3, <2>4 DEF PollKnows
<1>7. P!CopiesComeFrom'
  BY <1>0, <1>1, NoCopies
\* Nobody has heard of the new message.
<1>8. \A k \in Msgs : k <= sent => what'[k] = what[k]
  BY <1>2, <1>3
<1>9. ASSUME source = "webhook" PROVE WebGoes'
  <2>1. WebGoes
    BY <1>9 DEF PollInv
  <2>2. \A k \in Msgs : (k \in told \cup patch \/ k <= cursor) /\ what'[k] # "other" => effect[k] > 0 \/ "error body" \in trouble[k]
    <3> SUFFICES ASSUME NEW k \in Msgs, k \in told \cup patch \/ k <= cursor, what'[k] # "other"
                 PROVE  effect[k] > 0 \/ "error body" \in trouble[k]
      OBVIOUS
    <3>1. cursor <= sent /\ (k \in told \cup patch => k <= sent)
      BY <1>0 DEF PollKnows
    <3>2. k <= sent
      BY <1>2, <3>1
    <3> QED BY <1>8, <2>1, <3>2 DEF WebGoes
  <2>3. \A p \in Poll : At(p)' # "idle" =>
           /\ cursor < poll[p].msg
           /\ \A k \in Msgs : k < poll[p].msg => k \in told
           /\ effect[poll[p].msg] > 0 => "crash" \in trouble[poll[p].msg]
    BY <1>1, <2>1 DEF WebGoes, At
  <2>4. \A k \in Msgs : effect[k] > 0 => k \in told \/ k <= cursor \/ "crash" \in trouble[k]
    BY <2>1 DEF WebGoes
  <2> QED BY <1>1, <2>2, <2>3, <2>4 DEF WebGoes
<1>10. \A k \in Msgs : (Queued(k)' <=> Queued(k)) /\ (Single(k)' <=> Single(k)) /\ (Dealt(k)' <=> Dealt(k))
  BY <1>1 DEF Queued, Single, Dealt
<1>11. \A p \in Poll, k \in Msgs : (InMsg(p, k)' <=> InMsg(p, k)) /\ (InRest(p, k)' <=> InRest(p, k)) /\ (Held(p, k)' <=> Held(p, k))
  BY <1>1 DEF InMsg, InRest, Held
<1>12. ASSUME source = "discord" PROVE DiscordPasses'
  <2>1. DiscordPasses
    BY <1>12 DEF PollInv
  <2>2. ASSUME NEW k \in Msgs, k <= cursor, what'[k] # "other" PROVE Dealt(k) \/ Queued(k) \/ \E p \in Poll : InMsg(p, k)
    <3>1. cursor <= sent
      BY <1>0 DEF PollKnows
    <3>2. k <= sent
      BY <1>2, <2>2, <3>1
    <3> QED BY <1>8, <2>1, <2>2, <3>2 DEF DiscordPasses
  <2> QED BY <1>1, <1>10, <1>11, <2>1, <2>2 DEF DiscordPasses
<1>13. ASSUME source = "discord" PROVE DiscordOnce'
  <2>1. DiscordOnce
    BY <1>13 DEF PollInv
  <2>2. ASSUME NEW k \in Msgs, OnePlace(k) PROVE OnePlace(k)'
    BY <1>1, <1>10, <1>11, <2>2 DEF OnePlace
  <2> QED BY <1>1, <2>1, <2>2 DEF DiscordOnce
<1>14. ASSUME source = "email" PROVE MailGoes'
  <2>1. MailGoes
    BY <1>14 DEF PollInv
  <2>2. \A k \in Msgs : (ToFlag(k)' <=> ToFlag(k)) /\ (ToDo(k)' <=> ToDo(k)) /\ (MayCopy(k)' <=> MayCopy(k))
    BY <1>1 DEF ToFlag, ToDo, MayCopy, At, InMsg, InRest
  <2>3. ASSUME NEW k \in Msgs, k \in told \/ ToFlag(k) PROVE MailDealt(k)'
    <3>1. k <= sent
      BY <1>0, <2>3 DEF PollKnows, ToFlag
    <3>2. MailDealt(k) /\ what'[k] = what[k]
      BY <1>8, <2>1, <2>3, <3>1 DEF MailGoes
    <3> QED BY <1>1, <3>2 DEF MailDealt
  <2> QED BY <1>1, <2>1, <2>2, <2>3 DEF MailGoes
<1> QED BY <1>1, <1>4, <1>5, <1>6, <1>7, <1>9, <1>12, <1>13, <1>14 DEF PollInv

\* The process dies.
LEMMA CrashKeeps ==
    ASSUME PollInv, P!Crash
    PROVE  PollInv'
<1>0. PollFacts /\ P!TypeOK /\ PollShapes /\ PollKnows /\ P!CopiesComeFrom
  BY PollFactsAre DEF PollInv
<1> DEFINE S == {m \in P!Msg \ told : effect[m] > 0} \cup P!InHand
<1>1. /\ P!Fails /\ life' = "down" /\ P!Befalls(S, "crash")
      /\ patch' \in {patch, {}} /\ cursor' = 0 /\ etag' = P!None /\ queue' = <<>>
      /\ poll' = [p \in Poll |-> P!Idle]
      /\ UNCHANGED <<source, sent, what, told, effect>>
  BY DEF P!Crash
<1>2. \A k \in Msgs : effect[k] > 0 /\ k \notin told => k \in S
  BY DEF P!Msg, Msgs
<1> HIDE DEF S
<1>3. Grows
  BY <1>0, <1>1, GrowsFails DEF Mishaps
<1>4. \A k \in Msgs : k \in S => "crash" \in trouble'[k]
  <2>1. "crash" \in Mishaps
    BY DEF Mishaps
  <2>2. \A k \in Msgs : k \in S => trouble'[k] = trouble[k] \cup {"crash"}
    BY <1>0, <1>1, <2>1, Befalling
  <2> QED BY <2>2
<1>5. /\ poll' \in [Poll -> PollRec]
      /\ \A p \in Poll : poll'[p].at = "idle" /\ poll'[p].msg = P!None /\ poll'[p].rest = {}
  <2>1. P!Idle \in PollRec /\ P!Idle.at = "idle" /\ P!Idle.msg = P!None /\ P!Idle.rest = {}
    BY DEF P!Idle, PollRec, PollStage
  <2> QED BY <1>1, <2>1
<1>6. queue' \in Seq(Msgs) /\ Len(queue') = 0 /\ 0 <= MaxMsg * MaxCopies
  <2> DEFINE B == MaxMsg * MaxCopies
  <2>1. B \in Nat
    BY <1>0 DEF PollFacts
  <2> HIDE DEF B
  <2>2. 0 <= B
    BY <2>1
  <2>3. queue' \in Seq(Msgs) /\ Len(queue') = 0
    BY <1>1
  <2> QED BY <2>2, <2>3 DEF B
<1>7. P!TypeOK'
  <2>1. P!None \in 0..P!None /\ 0 \in 0..MaxMsg /\ patch' \subseteq Msgs
    BY <1>0, <1>1 DEF PollFacts
  <2>2. Len(queue') <= MaxMsg * MaxCopies
    BY <1>6
  <2> QED BY <1>0, <1>1, <1>3, <1>5, <1>6, <2>1, <2>2, PollTypesNext DEF PollFacts, Grows
<1>8. \A p \in Poll, k \in Msgs : ~InMsg(p, k)' /\ ~InRest(p, k)' /\ ~Held(p, k)'
  BY <1>0, <1>5 DEF PollFacts, InMsg, InRest, Held
<1>9. \A p \in Poll : At(p)' = "idle"
  BY <1>5 DEF At
<1>10. \A k \in Msgs : ~Queued(k)' /\ Single(k)'
  <2>1. \A i \in 1..Len(queue') : FALSE
    BY <1>6
  <2> QED BY <2>1 DEF Queued, Single
<1>11. PollShapes'
  <2>1. "idle" \in Stages[source]
    BY <1>0, SourceSets DEF PollFacts
  <2>2. \A p \in Poll : Shaped(p)'
    BY <1>1, <1>5, <1>9, <2>1 DEF Shaped
  <2>3. Alone'
    BY <1>1, <1>9 DEF Alone
  <2>4. source # "webhook" => patch' = {}
    BY <1>0, <1>1 DEF PollShapes
  <2> QED BY <1>1, <1>9, <2>2, <2>3, <2>4 DEF PollShapes
<1>12. PollKnows'
  <2>1. 0 <= sent /\ \A k \in told' \cup patch' : k <= sent
    BY <1>0, <1>1, PollNumbers DEF PollKnows
  <2>2. \A k \in Msgs : k > sent => what[k] = "other" /\ effect[k] = 0
    BY <1>0 DEF PollKnows
  <2> QED BY <1>1, <1>8, <1>10, <2>1, <2>2 DEF PollKnows
<1>13. \A k \in Msgs : ~(k <= 0) /\ trouble[k] \subseteq trouble'[k]
  <2>1. \A k \in Msgs : k \in Nat /\ 0 < k
    BY <1>0, PollNumbers
  <2> QED BY <1>3, <2>1 DEF Grows
<1>14. ASSUME source = "webhook" PROVE WebGoes'
  <2>1. WebGoes
    BY <1>14 DEF PollInv
  <2>2. \A k \in Msgs : (k \in told \cup patch' \/ k <= 0) /\ what[k] # "other" => effect[k] > 0 \/ "error body" \in trouble'[k]
    BY <1>1, <1>13, <2>1 DEF WebGoes
  <2>3. \A k \in Msgs : effect[k] > 0 => k \in told \/ "crash" \in trouble'[k]
    BY <1>2, <1>4
  <2> QED BY <1>1, <1>9, <2>2, <2>3 DEF WebGoes
<1>15. ASSUME source = "discord" PROVE DiscordPasses' /\ DiscordOnce'
  <2>1. DiscordPasses'
    BY <1>1, <1>8, <1>10, <1>13 DEF DiscordPasses
  <2>2. ASSUME NEW k \in Msgs, trouble'[k] \cap P!CopyOf["discord"] = {} PROVE OnePlace(k)'
    <3>1. OnePlace(k)
      BY <1>3, <1>15, <2>2, NotYet DEF PollInv, DiscordOnce
    <3> QED BY <1>1, <1>8, <1>10, <3>1 DEF OnePlace
  <2> QED BY <2>1, <2>2 DEF DiscordOnce
<1>16. ASSUME source = "email" PROVE MailGoes'
  <2>1. MailGoes
    BY <1>16 DEF PollInv
  <2>2. \A k \in Msgs : ~ToFlag(k)' /\ ~ToDo(k)'
    BY <1>8 DEF ToFlag, ToDo
  <2>3. \A k \in Msgs : k \in told => MailDealt(k)'
    BY <1>1, <1>3, <2>1, MailStays DEF MailGoes
  <2>4. \A k \in Msgs : effect[k] > 0 => k \in told \/ MayCopy(k)'
    BY <1>2, <1>4, SourceSets DEF MayCopy
  <2> QED BY <1>1, <2>2, <2>3, <2>4 DEF MailGoes
<1> QED BY <1>1, <1>3, <1>7, <1>11, <1>12, <1>14, <1>15, <1>16 DEF PollInv, Grows

\* The process starts again.
LEMMA RestartKeeps ==
    ASSUME PollInv, P!Restart
    PROVE  PollInv'
<1>0. PollFacts /\ P!TypeOK /\ PollShapes /\ PollKnows /\ P!CopiesComeFrom
  BY PollFactsAre DEF PollInv
<1>1. /\ life = "down" /\ life' = "up"
      /\ UNCHANGED <<source, sent, what, told, patch, etag, queue, poll, effect>>
      /\ \/ source # "discord" /\ UNCHANGED <<cursor, trouble, pollFaults>>
         \/ /\ source = "discord" /\ cursor' = sent /\ UNCHANGED pollFaults
            /\ P!Befalls({m \in 1..sent : effect[m] = 0}, "missed")
         \/ source = "discord" /\ P!Fails /\ UNCHANGED cursor /\ P!Befalls(1..sent, "unseeded")
  BY DEF P!Restart, P!service
<1>2. Grows
  <2>1. CASE source # "discord" /\ UNCHANGED <<cursor, trouble, pollFaults>>
    BY <1>0, <1>1, <2>1, GrowsStill
  <2>2. CASE /\ source = "discord" /\ cursor' = sent /\ UNCHANGED pollFaults
             /\ P!Befalls({m \in 1..sent : effect[m] = 0}, "missed")
    BY <1>0, <1>1, <2>2, GrowsFails DEF Mishaps
  <2>3. CASE source = "discord" /\ P!Fails /\ UNCHANGED cursor /\ P!Befalls(1..sent, "unseeded")
    BY <1>0, <1>1, <2>3, GrowsFails DEF Mishaps
  <2> QED BY <1>1, <2>1, <2>2, <2>3
<1>3. sent \in 0..MaxMsg /\ sent \in Nat /\ cursor \in Nat /\ cursor <= sent /\ cursor' \in {cursor, sent}
  BY <1>0, <1>1, PollNumbers DEF PollFacts, PollKnows
<1>4. cursor' \in 0..MaxMsg /\ cursor' <= sent /\ cursor' \in Nat
  BY <1>0, <1>3 DEF PollFacts
<1>5. P!TypeOK'
  BY <1>0, <1>1, <1>2, <1>4, PollTypesNext DEF PollFacts, Grows
<1>6. PollShapes'
  BY <1>0, <1>1 DEF PollShapes, Shaped, Alone, At
<1>7. PollKnows'
  BY <1>0, <1>1, <1>4 DEF PollKnows, Queued, InMsg, InRest
<1>8. queue = <<>> /\ \A p \in Poll : At(p) = "idle"
  BY <1>0, <1>1 DEF PollShapes
<1>9. \A k \in Msgs : ~Queued(k)' /\ Single(k)'
  <2>1. \A i \in 1..Len(queue') : FALSE
    BY <1>1, <1>8
  <2> QED BY <2>1 DEF Queued, Single
<1>10. \A p \in Poll, k \in Msgs : ~InMsg(p, k)' /\ ~InRest(p, k)' /\ ~Held(p, k)'
  <2>1. \A p \in Poll : poll[p].msg = P!None /\ poll[p].rest = {}
    BY <1>0, <1>8 DEF PollShapes, Shaped
  <2> QED BY <1>0, <1>1, <2>1 DEF PollFacts, InMsg, InRest, Held
<1>11. ASSUME source = "webhook" PROVE WebGoes'
  <2>1. WebGoes /\ UNCHANGED <<cursor, trouble>>
    BY <1>1, <1>11 DEF PollInv
  <2> QED BY <1>1, <2>1 DEF WebGoes, At
<1>12. ASSUME source = "email" PROVE MailGoes'
  <2>1. MailGoes /\ UNCHANGED trouble
    BY <1>1, <1>12 DEF PollInv
  <2> QED BY <1>1, <2>1 DEF MailGoes, ToFlag, ToDo, MailDealt, MayCopy, At, InMsg, InRest
<1>13. ASSUME source = "discord" PROVE DiscordPasses' /\ DiscordOnce'
  <2>0. DiscordPasses /\ DiscordOnce
    BY <1>13 DEF PollInv
  <2>1. \A k \in Msgs : ~Queued(k) /\ \A p \in Poll : ~InMsg(p, k)
    BY <1>1, <1>9, <1>10 DEF Queued, InMsg
  <2>2. ASSUME NEW k \in Msgs, k <= cursor', what[k] # "other" PROVE Dealt(k)'
    <3>1. CASE k <= cursor
      <4>1. Dealt(k)
        BY <2>0, <2>1, <2>2, <3>1 DEF DiscordPasses
      <4> QED BY <1>2, <4>1, DealtStays
    <3>2. CASE /\ cursor' = sent /\ P!Befalls({m \in 1..sent : effect[m] = 0}, "missed")
      <4>1. effect[k] \in Nat
        BY <1>2 DEF Grows
      <4>2. CASE effect[k] > 0
        BY <1>1, <4>2 DEF Dealt
      <4>3. CASE effect[k] = 0
        <5>1. k \in {m \in 1..sent : effect[m] = 0}
          <6>1. k \in 1..sent
            BY <1>0, <1>3, <2>2, <3>2, PollNumbers
          <6> QED BY <4>3, <6>1
        <5> DEFINE S == {m \in 1..sent : effect[m] = 0}
        <5>2. "missed" \in Mishaps /\ P!Befalls(S, "missed") /\ k \in S
          BY <3>2, <5>1 DEF Mishaps
        <5> HIDE DEF S
        <5>3. \A n \in Msgs : n \in S => trouble'[n] = trouble[n] \cup {"missed"}
          BY <1>0, <5>2, Befalling
        <5>4. "missed" \in trouble'[k] /\ "missed" \in P!LossOf["discord"]
          BY <5>2, <5>3, SourceSets
        <5> QED BY <5>4 DEF Dealt
      <4> QED BY <4>1, <4>2, <4>3
    <3> QED BY <1>1, <1>13, <2>2, <3>1, <3>2
  <2>3. DiscordPasses'
    BY <1>1, <1>9, <1>10, <2>2 DEF DiscordPasses
  <2>4. ASSUME NEW k \in Msgs, trouble'[k] \cap P!CopyOf["discord"] = {} PROVE OnePlace(k)'
    <3>1. OnePlace(k)
      BY <1>2, <2>0, <2>4, NotYet DEF DiscordOnce
    <3>2. effect[k] > 0 => k <= cursor'
      <4>1. effect[k] > 0 => k <= sent
        <5>1. k > sent => effect[k] = 0
          BY <1>0 DEF PollKnows
        <5>2. k > sent \/ k <= sent
          BY <1>0, <1>3, PollNumbers
        <5>3. effect[k] > 0 => effect[k] # 0
          OBVIOUS
        <5> QED BY <5>1, <5>2, <5>3
      <4>2. CASE cursor' = sent
        BY <4>1, <4>2
      <4>3. CASE P!Befalls(1..sent, "unseeded")
        <5>1. "unseeded" \in Mishaps
          BY DEF Mishaps
        <5>2. \A n \in Msgs : n \in 1..sent => trouble'[n] = trouble[n] \cup {"unseeded"}
          BY <1>0, <4>3, <5>1, Befalling
        <5>3. k \in 1..sent => "unseeded" \in trouble'[k] /\ "unseeded" \in P!CopyOf["discord"]
          BY <5>2, SourceSets
        <5>4. k \notin 1..sent
          BY <2>4, <5>3
        <5>5. ~(k <= sent)
          BY <1>0, <1>3, <5>4, PollNumbers
        <5> QED BY <4>1, <5>5
      <4> QED BY <1>1, <1>13, <4>2, <4>3
    <3> QED BY <1>1, <1>9, <1>10, <3>1, <3>2 DEF OnePlace
  <2> QED BY <2>3, <2>4 DEF DiscordOnce
<1> QED BY <1>1, <1>2, <1>5, <1>6, <1>7, <1>11, <1>12, <1>13 DEF PollInv, Grows

\* Nothing happens to the pollers.
LEMMA PollsStutter ==
    ASSUME PollInv, UNCHANGED pv
    PROVE  PollInv'
<1>0. PollFacts /\ P!TypeOK /\ PollShapes /\ PollKnows /\ P!CopiesComeFrom
  BY PollFactsAre DEF PollInv
<1>1. UNCHANGED <<source, sent, what, told, patch, cursor, etag, queue, poll, life, effect, trouble, pollFaults>>
  BY DEF pv
<1>2. P!TypeOK'
  BY <1>0, <1>1, PollTypesNext DEF PollFacts
<1>3. PollShapes' /\ PollKnows'
  BY <1>0, <1>1 DEF PollShapes, Shaped, Alone, At, PollKnows, Queued, InMsg, InRest
<1>4. P!CopiesComeFrom'
  BY <1>0, <1>1, NoCopies
<1>5. (WebGoes => WebGoes') /\ (MailGoes => MailGoes')
  BY <1>1 DEF WebGoes, MailGoes, ToFlag, ToDo, MailDealt, MayCopy, At, InMsg, InRest
<1>6. DiscordPasses => DiscordPasses'
  BY <1>1 DEF DiscordPasses, Dealt, Queued, InMsg, InRest
<1>7. DiscordOnce => DiscordOnce'
  <2>1. \A k \in Msgs : OnePlace(k) => OnePlace(k)'
    BY <1>1 DEF OnePlace, Single, Held, Queued, InMsg, InRest
  <2> QED BY <1>1, <2>1 DEF DiscordOnce
<1> QED BY <1>1, <1>2, <1>3, <1>4, <1>5, <1>6, <1>7 DEF PollInv

LEMMA PollsStep == PollInv /\ [P!Next]_pv => PollInv'
<1> SUFFICES ASSUME PollInv, [P!Next]_pv PROVE PollInv'
  OBVIOUS
<1>1. ASSUME NEW w \in P!What, P!Arrives(w) PROVE PollInv'
  BY <1>1, ArrivesKeeps
<1>2. ASSUME NEW p \in Poll, P!Runs(p) PROVE PollInv'
  <2>1. CASE P!List(p) \/ P!Detail(p) \/ P!Queued(p)
    BY <2>1, ListKeeps, DetailKeeps, WebAppendKeeps
  <2>2. CASE P!Fetch(p) \/ P!Take(p) \/ P!Taken(p) \/ P!Drain(p) \/ P!Drained(p)
    BY <2>2, FetchKeeps, TakeKeeps, TakenKeeps, DrainKeeps, DrainedKeeps
  <2>3. CASE P!Search(p) \/ P!Read(p) \/ P!Saved(p) \/ P!Flag(p) \/ P!SearchEnds(p)
    BY <2>3, SearchKeeps, ReadKeeps, SavedKeeps, FlagKeeps, SearchEndsKeeps
  <2> QED BY <1>2, <2>1, <2>2, <2>3 DEF P!Runs
<1>3. ASSUME NEW m \in P!Msg, P!Patched(m) PROVE PollInv'
  BY <1>3, PatchedKeeps DEF P!Msg, Msgs
<1> QED BY <1>1, <1>2, <1>3, DroppedKeeps, CrashKeeps, RestartKeeps, PollsStutter DEF P!Next

LEMMA PollsStart == P!Init => PollInv
<1> SUFFICES ASSUME P!Init PROVE PollInv
  OBVIOUS
<1>1. /\ source \in {"webhook", "discord", "email"} /\ sent = 0 /\ what = [m \in Msgs |-> "other"] /\ told = {} /\ patch = {}
      /\ cursor = 0 /\ etag = P!None /\ queue = <<>> /\ poll = [p \in Poll |-> P!Idle] /\ life = "up"
      /\ effect = [m \in Msgs |-> 0] /\ trouble = [m \in Msgs |-> {}] /\ pollFaults = 0
  BY DEF P!Init, P!Source, P!Msg, Msgs
<1>2. MaxMsg \in Nat /\ MaxCopies \in Nat /\ PollFaults \in Nat /\ P!None = MaxMsg + 1
  BY Bounds DEF P!None
<1>3. \A k \in Msgs : k \in Nat /\ 0 < k /\ k # P!None /\ ~(k <= 0)
  BY <1>2 DEF Msgs
<1>4. /\ poll \in [Poll -> PollRec]
      /\ \A p \in Poll : poll[p].at = "idle" /\ poll[p].msg = P!None /\ poll[p].rest = {}
  <2>1. P!Idle \in PollRec /\ P!Idle.at = "idle" /\ P!Idle.msg = P!None /\ P!Idle.rest = {}
    BY DEF P!Idle, PollRec, PollStage
  <2> QED BY <1>1, <2>1
<1>5. queue \in Seq(Msgs) /\ Len(queue) = 0 /\ Len(queue) <= MaxMsg * MaxCopies
  <2> DEFINE B == MaxMsg * MaxCopies
  <2>1. B \in Nat
    BY <1>2
  <2> HIDE DEF B
  <2>3. queue \in Seq(Msgs) /\ Len(queue) = 0
    BY <1>1
  <2>2. Len(queue) <= B
    BY <2>1, <2>3
  <2> QED BY <2>2, <2>3 DEF B
<1>6. P!TypeOK
  <2>1. P!None \in 0..P!None /\ 0 \in 0..MaxMsg /\ 0 \in 0..MaxCopies /\ 0 \in 0..PollFaults
    BY <1>2
  <2> QED BY <1>1, <1>4, <1>5, <2>1, PollTypes
<1>7. \A p \in Poll, k \in Msgs : ~InMsg(p, k) /\ ~InRest(p, k) /\ ~Held(p, k)
  BY <1>3, <1>4 DEF InMsg, InRest, Held
<1>8. \A k \in Msgs : ~Queued(k) /\ Single(k)
  <2>1. \A i \in 1..Len(queue) : FALSE
    BY <1>5
  <2> QED BY <2>1 DEF Queued, Single
<1>9. \A p \in Poll : At(p) = "idle"
  BY <1>4 DEF At
<1>10. PollShapes
  <2>1. "idle" \in Stages[source]
    BY <1>1, SourceSets
  <2>2. \A p \in Poll : Shaped(p)
    BY <1>4, <1>9, <2>1 DEF Shaped
  <2> QED BY <1>1, <1>9, <2>2 DEF PollShapes, Alone
<1>11. PollKnows
  BY <1>1, <1>7, <1>8 DEF PollKnows
<1>12. \A k \in Msgs : effect[k] = 0 /\ ~(effect[k] > 0) /\ ~(effect[k] > 1) /\ effect[k] <= 1
  BY <1>1
<1>13. P!CopiesComeFrom
  BY <1>12 DEF P!CopiesComeFrom, P!Msg, Msgs
<1>14. WebGoes
  BY <1>1, <1>3, <1>9, <1>12 DEF WebGoes
<1>15. DiscordPasses
  BY <1>1, <1>3, <1>7, <1>8 DEF DiscordPasses
<1>16. DiscordOnce
  BY <1>7, <1>8, <1>12 DEF DiscordOnce, OnePlace
<1>17. MailGoes
  BY <1>1, <1>7, <1>12 DEF MailGoes, ToFlag, ToDo
<1> QED BY <1>6, <1>10, <1>11, <1>13, <1>14, <1>15, <1>16, <1>17 DEF PollInv

LEMMA PollsSuffice == PollInv => PollersHold
<1> SUFFICES ASSUME PollInv PROVE P!LostComesFrom
  BY DEF PollInv, PollersHold
<1>0. PollFacts
  BY PollFactsAre DEF PollInv
<1> SUFFICES ASSUME NEW m \in Msgs, what[m] # "other", P!Past(m), effect[m] = 0, m \notin P!InHand
             PROVE  trouble[m] \cap P!LossOf[source] # {}
  BY DEF P!LostComesFrom, P!Msg, Msgs
<1>1. ~(effect[m] > 0)
  OBVIOUS
<1>2. CASE source = "webhook"
  <2>1. m <= cursor \/ m \in told
    BY <1>2 DEF P!Past
  <2>2. "error body" \in trouble[m]
    BY <1>1, <1>2, <2>1 DEF PollInv, WebGoes
  <2> QED BY <1>2, <2>2, SourceSets
<1>3. CASE source = "discord"
  <2>1. m <= cursor
    BY <1>3 DEF P!Past
  <2>2. ~Queued(m)
    BY DEF P!InHand, Queued
  <2>3. \A p \in Poll : ~InMsg(p, m)
    BY DEF P!InHand, P!InPoll, InMsg, P!Msg, Msgs
  <2>4. Dealt(m)
    BY <1>3, <2>1, <2>2, <2>3 DEF PollInv, DiscordPasses
  <2> QED BY <1>1, <1>3, <2>4 DEF Dealt
<1>4. CASE source = "email"
  <2>1. m \in told
    BY <1>4 DEF P!Past
  <2>2. MailDealt(m)
    BY <1>4, <2>1 DEF PollInv, MailGoes
  <2> QED BY <1>1, <1>4, <2>2 DEF MailDealt
<1> QED BY <1>0, <1>2, <1>3, <1>4 DEF PollFacts

LEMMA PollersAlways == MCSpec => []PollInv
<1>1. MCInit => PollInv
  BY PollsStart DEF MCInit
<1>2. PollInv /\ [MCNext]_<<part, dv, pv, iv, lv, vv>> => PollInv'
  <2>1. [MCNext]_<<part, dv, pv, iv, lv, vv>> => [P!Next]_pv
    BY DEF MCNext
  <2> QED BY <2>1, PollsStep
<1> QED BY <1>1, <1>2, PTL DEF MCSpec

\* No message of a webhook, a channel or a mailbox is lost or acted on twice but by the
\* mishaps its poller does not survive (HttpWebhookPoller, DiscordPoller, EmailTaskPoller:
\* pollAndAppend): for any number of messages, polls at once and faults.
THEOREM PollersCorrect == MCSpec => []PollersHold
  BY PollersAlways, PollsSuffice, PTL

\* Whatever reaches the loop besides its pushed tasks is neither lost nor done twice but
\* by the mishaps named in the parts: messages of the pollers, instant steers, and the
\* tasks the verify gate closes (taskLoop.ts: _handleSteer, verify gate; pollers/*).
THEOREM WorkCorrect == MCSpec => []WorkHolds
<1>1. PollersHold /\ SteersHold /\ GateHolds => WorkHolds
  BY DEF WorkHolds
<1> QED BY <1>1, GateCorrect, SteersCorrect, PollersCorrect, PTL
=============================================================================
