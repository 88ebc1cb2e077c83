------------------------- MODULE DurableSteerProofs -------------------------
(***************************************************************************)
(* The durable steer queue for any number of steers, crashes, teardowns,   *)
(* timeouts and failed writes; and, at the end, the other parts of          *)
(* MCDurableSteer: the launch slot for any number of loops, grok's leader    *)
(* for any number of backends, its pane for any number of turns, and a       *)
(* workspace's loops for any number of processes and polls.                 *)
(***************************************************************************)
EXTENDS MCDurableSteer, FiniteSetTheorems, TLAPS

\* Every steer the session knows of was accepted, and a clean answer, or the
\* mark of a delivery, is evidence that the steer has run.
Evidence ==
    /\ seen \subseteq accepted /\ seen \subseteq ran /\ queued \subseteq accepted
    /\ \A s \in Steer : inflight[s] # "no" => s \in accepted
    /\ \A i \in DOMAIN agent : agent[i].steer \in accepted
    /\ \A s \in Steer : <<s, "clean">> \in replies => s \in ran /\ s \in accepted

\* The journal: what is started again is on it, and what is settled is off it
\* unless a write went wrong.
Journal ==
    /\ \A s \in Steer : inflight[s] = "starting" => s \in queued
    /\ seen \cap queued \subseteq damaged
    /\ NeverForgotten

IInv == Types /\ Evidence /\ Journal

-----------------------------------------------------------------------------
\* Every step keeps the types.
LEMMA TypesStep ==
    ASSUME Types, [Next]_vars
    PROVE  Types'
<1>1. CASE Boundary
  BY <1>1, SteerAssumption DEF Types, Prompts, Boundary, Due, disk, session
<1>2. CASE AgentEnds
  <2>1. agent \in Seq(Prompts) /\ agent # <<>>
    BY <1>2 DEF AgentEnds, Types
  <2>2. Head(agent) \in Prompts /\ Tail(agent) \in Seq(Prompts)
    BY <2>1
  <2>3. Head(agent).steer \in Steer
    BY <2>2 DEF Prompts
  <2> QED
    BY <1>2, <2>2, <2>3, SteerAssumption DEF Types, AgentEnds, Answer, disk
<1>3. CASE Teardown
  BY <1>3, SteerAssumption DEF Types, Prompts, Teardown, Gone, Idle, disk, session
<1>4. CASE Reconnect
  BY <1>4, SteerAssumption DEF Types, Prompts, Reconnect, Replays, disk, session
<1>5. CASE Crash
  BY <1>5, SteerAssumption DEF Types, Prompts, Crash, Killed, Gone, Idle, Replays, disk, session
<1>6. ASSUME NEW s \in Steer, Send(s) PROVE Types'
  BY <1>6, SteerAssumption DEF Types, Prompts, Send, disk, session
<1>7. ASSUME NEW s \in Steer, Receive(s) PROVE Types'
  <2>1. Prompt(s) \in Prompts
    BY <1>7 DEF Prompt, Prompts
  <2>2. agent' \in Seq(Prompts)
    BY <1>7, <2>1 DEF Types, Receive, HandOver
  <2>3. inflight' \in [Steer -> {"no", "starting", "waiting"}]
    BY <1>7 DEF Types, Receive, HandOver
  <2>4. /\ queued' \subseteq Steer /\ tail' \in {"whole", "torn"}
        /\ damaged' \subseteq Steer /\ faults' \in 0..MaxFaults
    BY <1>7, SteerAssumption DEF Types, Receive, Enqueue, disk
  <2> QED
    BY <1>7, <2>2, <2>3, <2>4 DEF Types, Receive
<1>8. ASSUME NEW s \in Steer, Ensured(s) PROVE Types'
  BY <1>8, SteerAssumption DEF Types, Prompts, Ensured, HandOver, Prompt, disk, session
<1>9. ASSUME NEW s \in Steer, EnsureFails(s) PROVE Types'
  BY <1>9, SteerAssumption DEF Types, Prompts, EnsureFails, disk, session
<1>10. ASSUME NEW s \in Steer, Answered(s) PROVE Types'
  BY <1>10, SteerAssumption DEF Types, Prompts, Answered, Settle, Remove, Unclean, disk, session
<1>11. ASSUME NEW s \in Steer, Timeout(s) PROVE Types'
  <2>1. /\ agent \in Seq(Prompts)
        /\ \A i \in DOMAIN agent : agent[i] \in Prompts
    BY DEF Types
  <2>2. \A i \in DOMAIN agent : [agent[i] EXCEPT !.awaited = "no"] \in Prompts
    BY <2>1 DEF Prompts
  <2>3. agent' \in [1..Len(agent) -> Prompts]
    BY <1>11, <2>1, <2>2 DEF Timeout
  <2>4. agent' \in Seq(Prompts)
    BY <2>1, <2>3
  <2> QED
    BY <1>11, <2>4, SteerAssumption DEF Types, Timeout, disk
<1>12. ASSUME NEW s \in Steer, CrashInEnqueue(s) PROVE Types'
  BY <1>12, SteerAssumption DEF Types, Prompts, CrashInEnqueue, Killed, Gone, Idle, Replays, IsNew, disk, session
<1>13. ASSUME NEW s \in Steer, CrashInRemove(s) PROVE Types'
  BY <1>13, SteerAssumption DEF Types, Prompts, CrashInRemove, Killed, Gone, Idle, Replays, disk, session
<1>14. CASE UNCHANGED vars
  BY <1>14 DEF Types, Prompts, vars, disk, session
<1> QED
  BY <1>1, <1>2, <1>3, <1>4, <1>5, <1>6, <1>7, <1>8, <1>9, <1>10, <1>11, <1>12, <1>13, <1>14 DEF Next

\* Every step keeps the evidence.
LEMMA EvidenceStep ==
    ASSUME Types, Evidence, [Next]_vars
    PROVE  Evidence'
<1>1. CASE Boundary
  BY <1>1, SteerAssumption DEF Types, Prompts, Evidence, Boundary, Due, disk, session
<1>2. CASE AgentEnds
  BY <1>2, SteerAssumption DEF Types, Prompts, Evidence, AgentEnds, Answer, disk, session
<1>3. CASE Teardown
  BY <1>3, SteerAssumption DEF Types, Prompts, Evidence, Teardown, Gone, Idle, disk, session
<1>4. CASE Reconnect
  BY <1>4, SteerAssumption DEF Types, Prompts, Evidence, Reconnect, Replays, disk, session
<1>5. CASE Crash
  BY <1>5, SteerAssumption DEF Types, Prompts, Evidence, Crash, Killed, Gone, Idle, Replays, disk, session
<1>6. ASSUME NEW s \in Steer, Send(s) PROVE Evidence'
  BY <1>6, SteerAssumption DEF Types, Prompts, Evidence, Send, disk, session
<1>7. ASSUME NEW s \in Steer, Receive(s) PROVE Evidence'
  BY <1>7, SteerAssumption DEF Types, Prompts, Evidence, Receive, IsNew, Enqueue, HandOver, Prompt, disk, session
<1>8. ASSUME NEW s \in Steer, Ensured(s) PROVE Evidence'
  BY <1>8, SteerAssumption DEF Types, Prompts, Evidence, Ensured, HandOver, Prompt, disk, session
<1>9. ASSUME NEW s \in Steer, EnsureFails(s) PROVE Evidence'
  BY <1>9, SteerAssumption DEF Types, Prompts, Evidence, EnsureFails, disk, session
<1>10. ASSUME NEW s \in Steer, Answered(s) PROVE Evidence'
  BY <1>10, SteerAssumption DEF Types, Prompts, Evidence, Answered, Settle, Remove, Unclean, disk, session
<1>11. ASSUME NEW s \in Steer, Timeout(s) PROVE Evidence'
  BY <1>11, SteerAssumption DEF Types, Prompts, Evidence, Timeout, disk, session
<1>12. ASSUME NEW s \in Steer, CrashInEnqueue(s) PROVE Evidence'
  BY <1>12, SteerAssumption DEF Types, Prompts, Evidence, CrashInEnqueue, Killed, Gone, Idle, Replays, IsNew, disk, session
<1>13. ASSUME NEW s \in Steer, CrashInRemove(s) PROVE Evidence'
  BY <1>13, SteerAssumption DEF Types, Prompts, Evidence, CrashInRemove, Killed, Gone, Idle, Replays, disk, session
<1>14. CASE UNCHANGED vars
  BY <1>14 DEF Types, Prompts, Evidence, vars, disk, session
<1> QED
  BY <1>1, <1>2, <1>3, <1>4, <1>5, <1>6, <1>7, <1>8, <1>9, <1>10, <1>11, <1>12, <1>13, <1>14 DEF Next

\* Every step keeps the journal.
LEMMA JournalStep ==
    ASSUME IInv, [Next]_vars
    PROVE  Journal'
<1>1. CASE Boundary
  BY <1>1, SteerAssumption DEF IInv, Types, Evidence, Journal, NeverForgotten, Boundary, Due, disk, session
<1>2. CASE AgentEnds
  BY <1>2, SteerAssumption DEF IInv, Types, Evidence, Journal, NeverForgotten, AgentEnds, Answer, disk, session
<1>3. CASE Teardown
  BY <1>3, SteerAssumption DEF IInv, Types, Evidence, Journal, NeverForgotten, Teardown, Gone, Idle, disk, session
<1>4. CASE Reconnect
  BY <1>4, SteerAssumption DEF IInv, Types, Evidence, Journal, NeverForgotten, Reconnect, Replays, disk, session
<1>5. CASE Crash
  BY <1>5, SteerAssumption DEF IInv, Types, Evidence, Journal, NeverForgotten, Crash, Killed, Gone, Idle, Replays, disk, session
<1>6. ASSUME NEW s \in Steer, Send(s) PROVE Journal'
  BY <1>6, SteerAssumption DEF IInv, Types, Evidence, Journal, NeverForgotten, Send, disk, session
<1>7. ASSUME NEW s \in Steer, Receive(s) PROVE Journal'
  BY <1>7, SteerAssumption DEF IInv, Types, Evidence, Journal, NeverForgotten, Receive, IsNew, Enqueue, HandOver, Prompt, disk, session
<1>8. ASSUME NEW s \in Steer, Ensured(s) PROVE Journal'
  BY <1>8, SteerAssumption DEF IInv, Types, Evidence, Journal, NeverForgotten, Ensured, HandOver, Prompt, disk, session
<1>9. ASSUME NEW s \in Steer, EnsureFails(s) PROVE Journal'
  BY <1>9, SteerAssumption DEF IInv, Types, Evidence, Journal, NeverForgotten, EnsureFails, disk, session
<1>10. ASSUME NEW s \in Steer, Answered(s) PROVE Journal'
  BY <1>10, SteerAssumption DEF IInv, Types, Evidence, Journal, NeverForgotten, Answered, Settle, Remove, Unclean, disk, session
<1>11. ASSUME NEW s \in Steer, Timeout(s) PROVE Journal'
  BY <1>11, SteerAssumption DEF IInv, Types, Evidence, Journal, NeverForgotten, Timeout, disk, session
<1>12. ASSUME NEW s \in Steer, CrashInEnqueue(s) PROVE Journal'
  BY <1>12, SteerAssumption DEF IInv, Types, Evidence, Journal, NeverForgotten, CrashInEnqueue, Killed, Gone, Idle, Replays, IsNew, disk, session
<1>13. ASSUME NEW s \in Steer, CrashInRemove(s) PROVE Journal'
  BY <1>13, SteerAssumption DEF IInv, Types, Evidence, Journal, NeverForgotten, CrashInRemove, Killed, Gone, Idle, Replays, disk, session
<1>14. CASE UNCHANGED vars
  BY <1>14 DEF IInv, Types, Evidence, Journal, NeverForgotten, vars, disk, session
<1> QED
  BY <1>1, <1>2, <1>3, <1>4, <1>5, <1>6, <1>7, <1>8, <1>9, <1>10, <1>11, <1>12, <1>13, <1>14 DEF Next


-----------------------------------------------------------------------------
\* A step that neither touches the session nor begins or ends a wait keeps the
\* promises.
LEMMA SameSession ==
    ASSUME OnePromise, agent' = agent, replies' = replies,
           \A s \in Steer : inflight'[s] = "waiting" <=> inflight[s] = "waiting"
    PROVE  OnePromise'
  BY DEF OnePromise, Asked, Answers

\* When the agent process is gone, nothing is promised.
LEMMA NothingPromised ==
    ASSUME Gone
    PROVE  OnePromise'
<1>1. \A s \in Steer : inflight'[s] # "waiting"
  BY DEF Gone, Idle
<1>2. \A s \in Steer : Asked(s)' = {} /\ Answers(s)' = {}
  BY DEF Gone, Asked, Answers
<1> QED
  BY <1>1, <1>2 DEF OnePromise

\* A steer that is not being waited for gets one promise.
LEMMA OneMore ==
    ASSUME Types, OnePromise, replies' = replies,
           NEW s \in Steer, inflight[s] # "waiting", HandOver(s)
    PROVE  OnePromise'
<1>1. Asked(s) = {} /\ Answers(s) = {}
  BY DEF OnePromise
<1>2. /\ agent \in Seq(Prompts) /\ agent' = Append(agent, Prompt(s))
      /\ inflight' = [inflight EXCEPT ![s] = "waiting"]
      /\ inflight \in [Steer -> {"no", "starting", "waiting"}]
  BY DEF HandOver, Types
<1>3. /\ DOMAIN agent = 1..Len(agent) /\ DOMAIN agent' = 1..(Len(agent) + 1)
      /\ \A i \in DOMAIN agent : agent'[i] = agent[i]
      /\ agent'[Len(agent) + 1] = Prompt(s) /\ Len(agent) \in Nat
  BY <1>2
<1>4. Asked(s)' = {Len(agent) + 1}
  BY <1>1, <1>3 DEF Asked
<1>5. \A t \in Steer \ {s} : Asked(t)' = Asked(t)
  BY <1>3 DEF Asked, Prompt
<1>6. \A t \in Steer : Answers(t)' = Answers(t)
  BY DEF Answers
<1>7. /\ inflight'[s] = "waiting"
      /\ \A t \in Steer \ {s} : inflight'[t] = inflight[t]
  BY <1>2
<1> QED
  BY <1>1, <1>4, <1>5, <1>6, <1>7 DEF OnePromise

\* A steer that is not waited for any more has no promise left.
LEMMA OneLess ==
    ASSUME Types, OnePromise, NEW s \in Steer,
           inflight' = [inflight EXCEPT ![s] = "no"],
           Asked(s)' = {}, Answers(s)' = {},
           \A t \in Steer \ {s} : Asked(t)' = Asked(t) /\ Answers(t)' = Answers(t)
    PROVE  OnePromise'
<1>1. /\ inflight'[s] = "no"
      /\ \A t \in Steer \ {s} : inflight'[t] = inflight[t]
  BY DEF Types
<1> QED
  BY <1>1 DEF OnePromise

\* Every step keeps the promises: what leaves the agent's queue arrives as an
\* answer, and what is given up is not awaited any more.
LEMMA PromiseStep ==
    ASSUME Types, OnePromise, [Next]_vars
    PROVE  OnePromise'
<1> USE DEF Asked, Answers, Prompt
<1>1. CASE Boundary
  BY <1>1, SameSession DEF Types, Boundary, Due, session
<1>2. CASE AgentEnds
  <2>1. agent \in Seq(Prompts) /\ agent # <<>>
    BY <1>2 DEF AgentEnds, Types
  <2>2. /\ Len(agent) \in Nat \ {0} /\ DOMAIN agent = 1..Len(agent)
        /\ DOMAIN agent' = 1..(Len(agent) - 1)
        /\ \A i \in DOMAIN agent' : agent'[i] = agent[i + 1]
        /\ Head(agent) = agent[1]
    BY <1>2, <2>1 DEF AgentEnds
  <2>3. agent[1] \in Prompts
    BY <2>1, <2>2
  <2>4. /\ agent[1].awaited = "yes" => agent[1] = Prompt(agent[1].steer)
        /\ \A s \in Steer : agent[1] = Prompt(s) => agent[1].steer = s /\ agent[1].awaited = "yes"
    BY <2>3 DEF Prompts
  <2> SUFFICES ASSUME NEW s \in Steer
               PROVE  /\ inflight'[s] = "waiting" <=> Asked(s)' # {} \/ Answers(s)' # {}
                      /\ Asked(s)' = {} \/ Answers(s)' = {}
                      /\ \A i, j \in Asked(s)' : i = j
                      /\ \A a, b \in Answers(s)' : a = b
    BY DEF OnePromise
  <2>5. Asked(s)' = {i \in 1..(Len(agent) - 1) : agent[i + 1] = Prompt(s)}
    BY <2>2
  <2>6. inflight' = inflight
    BY <1>2 DEF AgentEnds
  <2>7. CASE agent[1] = Prompt(s)
    <3>1. \A i \in DOMAIN agent : i # 1 => agent[i] # Prompt(s)
      BY <2>2, <2>7 DEF OnePromise
    <3>2. Asked(s)' = {}
      BY <3>1, <2>2, <2>5
    <3>3. \E a \in {"clean", "error"} : replies' = replies \cup {<<s, a>>}
      BY <1>2, <2>2, <2>4, <2>7 DEF AgentEnds, Answer
    <3>4. Answers(s) = {} /\ inflight[s] = "waiting"
      BY <2>2, <2>7 DEF OnePromise
    <3> QED
      BY <3>2, <3>3, <3>4, <2>6
  <2>8. CASE agent[1] # Prompt(s)
    <3>1. Answers(s)' = Answers(s)
      BY <1>2, <2>2, <2>3, <2>4, <2>8 DEF AgentEnds, Answer
    <3>2. \A i \in Asked(s) : i - 1 \in Asked(s)'
      BY <2>2, <2>5, <2>8
    <3>3. \A i \in Asked(s)' : i + 1 \in Asked(s)
      BY <2>2, <2>5
    <3>4. \A i, j \in Asked(s)' : i = j
      BY <3>3, <2>5 DEF OnePromise
    <3>5. Asked(s)' # {} <=> Asked(s) # {}
      BY <3>2, <3>3
    <3> HIDE DEF Asked, Answers
    <3> QED
      BY <3>1, <3>4, <3>5, <2>6 DEF OnePromise
  <2> QED
    BY <2>7, <2>8
<1>3. CASE Teardown
  BY <1>3, NothingPromised DEF Teardown
<1>4. CASE Reconnect
  BY <1>4, SameSession DEF Reconnect, session
<1>5. CASE Crash
  BY <1>5, NothingPromised DEF Crash, Killed
<1>6. ASSUME NEW s \in Steer, Send(s) PROVE OnePromise'
  BY <1>6, SameSession DEF Send, session
<1>7. ASSUME NEW s \in Steer, Receive(s) PROVE OnePromise'
  <2>1. CASE IsNew(s) /\ HandOver(s)
    BY <1>7, <2>1, OneMore DEF Receive, IsNew
  <2>2. CASE UNCHANGED <<agent, inflight>>
    BY <1>7, <2>2, SameSession DEF Receive
  <2> QED
    BY <1>7, <2>1, <2>2 DEF Receive
<1>8. ASSUME NEW s \in Steer, Ensured(s) PROVE OnePromise'
  BY <1>8, OneMore DEF Ensured
<1>9. ASSUME NEW s \in Steer, EnsureFails(s) PROVE OnePromise'
  BY <1>9, SameSession DEF Types, EnsureFails, session
<1>10. ASSUME NEW s \in Steer, Answered(s) PROVE OnePromise'
  <2>1. Answers(s) # {}
    BY <1>10 DEF Answered
  <2>2. /\ agent' = agent /\ replies' = replies \ {<<s, "clean">>, <<s, "error">>}
        /\ inflight' = [inflight EXCEPT ![s] = "no"]
    BY <1>10 DEF Answered, Settle, Unclean
  <2>3. Asked(s)' = {} /\ Answers(s)' = {}
    BY <2>1, <2>2 DEF OnePromise
  <2>4. \A t \in Steer \ {s} : Asked(t)' = Asked(t) /\ Answers(t)' = Answers(t)
    BY <2>2
  <2> HIDE DEF Asked, Answers
  <2> QED
    BY <2>2, <2>3, <2>4, OneLess
<1>11. ASSUME NEW s \in Steer, Timeout(s) PROVE OnePromise'
  <2>1. agent \in Seq(Prompts) /\ DOMAIN agent' = DOMAIN agent
    BY <1>11 DEF Timeout, Types
  <2>2. ASSUME NEW i \in DOMAIN agent
        PROVE  /\ agent'[i] # Prompt(s)
               /\ \A t \in Steer \ {s} : agent'[i] = Prompt(t) <=> agent[i] = Prompt(t)
    <3>1. agent[i] \in Prompts
      BY <2>1
    <3>2. agent'[i] = IF agent[i].steer = s THEN [agent[i] EXCEPT !.awaited = "no"] ELSE agent[i]
      BY <1>11 DEF Timeout
    <3> QED
      BY <3>1, <3>2 DEF Prompts
  <2>3. Asked(s)' = {} /\ \A t \in Steer \ {s} : Asked(t)' = Asked(t)
    BY <2>1, <2>2
  <2>4. /\ replies' = replies \ {<<s, "clean">>, <<s, "error">>}
        /\ inflight' = [inflight EXCEPT ![s] = "no"]
    BY <1>11 DEF Timeout
  <2>5. Answers(s)' = {} /\ \A t \in Steer \ {s} : Answers(t)' = Answers(t)
    BY <2>4
  <2> HIDE DEF Asked, Answers
  <2> QED
    BY <2>3, <2>4, <2>5, OneLess
<1>12. ASSUME NEW s \in Steer, CrashInEnqueue(s) PROVE OnePromise'
  BY <1>12, NothingPromised DEF CrashInEnqueue, Killed
<1>13. ASSUME NEW s \in Steer, CrashInRemove(s) PROVE OnePromise'
  BY <1>13, NothingPromised DEF CrashInRemove, Killed
<1>14. CASE UNCHANGED vars
  BY <1>14, SameSession DEF vars, session
<1> QED
  BY <1>1, <1>2, <1>3, <1>4, <1>5, <1>6, <1>7, <1>8, <1>9, <1>10, <1>11, <1>12, <1>13, <1>14 DEF Next

-----------------------------------------------------------------------------
LEMMA InitHolds == Init => IInv /\ OnePromise
  BY SteerAssumption DEF Init, Idle, IInv, Types, Evidence, Journal, NeverForgotten,
     OnePromise, Asked, Answers

LEMMA Invariance == Spec => []IInv
<1>1. Init => IInv
  BY InitHolds
<1>2. IInv /\ [Next]_vars => IInv'
  BY TypesStep, EvidenceStep, JournalStep DEF IInv
<1> QED
  BY <1>1, <1>2, PTL DEF Spec

\* Types, and one promise for each steer in _acpSteerInflight.
THEOREM TypeCorrect == Spec => []TypeOK
<1>1. Init => TypeOK
  BY InitHolds DEF IInv, TypeOK
<1>2. TypeOK /\ [Next]_vars => TypeOK'
  BY TypesStep, PromiseStep DEF TypeOK
<1> QED
  BY <1>1, <1>2, PTL DEF Spec

\* An accepted steer stays on the journal until it is settled.
THEOREM NeverForgottenCorrect == Spec => []NeverForgotten
<1>1. IInv => NeverForgotten
  BY DEF IInv, Journal
<1> QED
  BY <1>1, Invariance, PTL

\* A settled steer is not handed over again.
THEOREM NotRunAgainCorrect == Spec => NotRunAgain
<1>1. ASSUME IInv, [Next]_vars, NEW t \in Steer, HandedOver(t)
      PROVE  t \notin seen \/ t \in damaged
  <2>1. agent \in Seq(Prompts) /\ Len(agent) \in Nat
    BY <1>1 DEF IInv, Types
  <2>2. ASSUME NEW s \in Steer, HandOver(s)
        PROVE  s = t
    BY <1>1, <2>1, <2>2 DEF HandedOver, HandOver, Prompt
  <2>3. ASSUME NEW s \in Steer, Receive(s)
        PROVE  t \notin seen
    BY <1>1, <2>1, <2>2, <2>3 DEF Receive, IsNew, HandedOver
  <2>4. ASSUME NEW s \in Steer, Ensured(s)
        PROVE  t \notin seen \/ t \in damaged
    BY <1>1, <2>2, <2>4 DEF Ensured, IInv, Journal
  <2>5. ~AgentEnds
    BY <1>1, <2>1 DEF AgentEnds, HandedOver
  <2>6. \A s \in Steer : ~Timeout(s)
    BY <1>1, <2>1 DEF Timeout, HandedOver
  <2>7. agent' # agent /\ ~Gone
    BY <1>1, <2>1 DEF HandedOver, Gone
  <2> QED
    BY <1>1, <2>3, <2>4, <2>5, <2>6, <2>7
    DEF Next, Boundary, Teardown, Reconnect, Crash, Killed, Send, EnsureFails,
        Answered, CrashInEnqueue, CrashInRemove, vars, session
<1>2. IInv /\ [Next]_vars => [\A s \in Steer : HandedOver(s) => s \notin seen \/ s \in damaged]_vars
  BY <1>1
<1> QED
  BY <1>2, Invariance, PTL DEF Spec, NotRunAgain

-----------------------------------------------------------------------------
\* A step of the code is a step of the abstract queue, or none.
LEMMA StepMaps ==
    ASSUME IInv, [Next]_vars
    PROVE  [Abstract!Next]_(Abstract!vars)
<1> USE DEF Abstract!Next, Abstract!vars, Abstract!Accept, Abstract!Run, Abstract!Settle
<1>1. CASE AgentEnds
  <2>1. agent \in Seq(Prompts) /\ agent # <<>>
    BY <1>1 DEF AgentEnds, IInv, Types
  <2>2. Head(agent) \in Prompts /\ Head(agent) = agent[1] /\ 1 \in DOMAIN agent
    BY <2>1
  <2>3. Head(agent).steer \in Steer /\ Head(agent).steer \in accepted
    BY <2>2 DEF Prompts, IInv, Evidence
  <2> QED
    BY <1>1, <2>3 DEF AgentEnds, IInv, Evidence
<1>2. ASSUME NEW s \in Steer, Receive(s) PROVE [Abstract!Next]_(Abstract!vars)
  <2>1. CASE s \in seen
    BY <1>2, <2>1 DEF Receive, IInv, Evidence
  <2>2. CASE s \notin seen
    BY <1>2, <2>2 DEF Receive
  <2> QED
    BY <2>1, <2>2
<1>3. ASSUME NEW s \in Steer, Answered(s) PROVE [Abstract!Next]_(Abstract!vars)
  <2>1. CASE <<s, "clean">> \in replies /\ Settle(s)
    BY <1>3, <2>1 DEF Answered, Settle, IInv, Evidence
  <2>2. CASE Unclean(s)
    BY <1>3, <2>2 DEF Answered, Unclean
  <2> QED
    BY <1>3, <2>1, <2>2 DEF Answered
<1>4. CASE Boundary \/ Teardown \/ Reconnect \/ Crash \/ UNCHANGED vars
  BY <1>4 DEF Boundary, Teardown, Reconnect, Crash, Killed, vars
<1>5. ASSUME NEW s \in Steer,
             \/ Send(s) \/ Ensured(s) \/ EnsureFails(s) \/ Timeout(s)
             \/ CrashInEnqueue(s) \/ CrashInRemove(s)
      PROVE  [Abstract!Next]_(Abstract!vars)
  BY <1>5 DEF Send, Ensured, EnsureFails, Timeout, CrashInEnqueue, CrashInRemove, Killed
<1> QED
  BY <1>1, <1>2, <1>3, <1>4, <1>5 DEF Next

\* The code implements SteerQueue: at-least-once delivery.
THEOREM Implements == Spec => AtLeastOnce
<1>1. Init => Abstract!Init
  BY DEF Init, Abstract!Init
<1> QED
  BY <1>1, StepMaps, Invariance, PTL DEF Spec, AtLeastOnce, Abstract!Spec
-----------------------------------------------------------------------------
(* The slot in which panes are launched (LaunchSlot).                       *)

\* Elements that are all the same are one at most.
LEMMA AtMostOne ==
    ASSUME NEW X, \A x, y \in X : x = y
    PROVE  IsFiniteSet(X) /\ Cardinality(X) <= 1
<1>1. CASE X = {}
  BY <1>1, FS_EmptySet
<1>2. CASE X # {}
  <2>1. PICK x \in X : TRUE
    BY <1>2
  <2>2. X = {x}
    BY <2>1
  <2> QED BY <2>2, FS_Singleton
<1> QED BY <1>1, <1>2

SlotTrust == [of : SUBSET Agent, bad : {"no", "yes"}]

\* The types, those of what is read with them.
SlotTypes ==
    /\ lock \in [by : Agent \cup {"none", "nobody"}, age : {"fresh", "stale"}]
    /\ at \in [Agent -> {"away", "wait", "steal", "space", "trust", "write", "up", "dead"}]
    /\ judged \in [Agent -> {"gone", "there"}]
    /\ trusted \in SlotTrust /\ read \in [Agent -> SlotTrust]
    /\ mishaps \in 0..MaxMishaps
    /\ causes \subseteq {"slow", "killed", "impatient", "late", "lost"}

\* A lock that was found stale, and is still there, is stale.
JudgedStale == \A a \in Agent : judged[a] = "there" => lock.by # "none" /\ lock.age = "stale"

\* As long as nobody was slow or killed, the lock is of a loop inside, and fresh.
LockIsUsed ==
    causes \cap {"slow", "killed"} = {} =>
        /\ "late" \notin causes /\ lock.age = "fresh"
        /\ lock.by # "none" => lock.by \in S!Inside
        /\ \A a \in Agent : at[a] # "steal"

\* As long as nobody was slow or impatient, and no lock removed by mistake, who is inside
\* has the lock, and what it read of the file is what the file says.
InsideHasLock ==
    causes \cap {"slow", "impatient", "late"} = {} =>
        /\ "lost" \notin causes
        /\ \A a \in S!Inside : lock.by = a /\ lock.age = "fresh"
        /\ \A a \in Agent : at[a] = "write" => read[a] = trusted

SlotInv == SlotTypes /\ JudgedStale /\ LockIsUsed /\ InsideHasLock

\* At first the slot is free, or its lock was left by a loop that was killed.
LEMMA SlotStart == S!LsInit => SlotInv
<1> SUFFICES ASSUME S!LsInit PROVE SlotInv
  OBVIOUS
<1>1. SlotTypes
  BY MachineBounds DEF S!LsInit, SlotTypes, SlotTrust, S!Free, S!Left, S!Nothing
<1>2. S!Inside = {}
  BY DEF S!LsInit, S!Inside
<1> QED BY <1>1, <1>2 DEF S!LsInit, SlotInv, JudgedStale, LockIsUsed, InsideHasLock, S!Free, S!Left, S!Nothing

\* Every step keeps the types.
LEMMA SlotTypesStep ==
    ASSUME SlotTypes, S!LsNext
    PROVE  SlotTypes'
<1> USE MachineBounds DEF SlotTypes, SlotTrust, S!Goes
<1>1. CASE S!LockAges
  BY <1>1 DEF S!LockAges
<1>2. ASSUME NEW a \in Agent, S!Wants(a) PROVE SlotTypes'
  BY <1>2 DEF S!Wants
<1>3. ASSUME NEW a \in Agent, S!Creates(a) PROVE SlotTypes'
  BY <1>3 DEF S!Creates
<1>4. ASSUME NEW a \in Agent, S!Judges(a) PROVE SlotTypes'
  BY <1>4 DEF S!Judges
<1>5. ASSUME NEW a \in Agent, S!Steals(a) PROVE SlotTypes'
  BY <1>5 DEF S!Steals, S!Free
<1>6. ASSUME NEW a \in Agent, S!GivesUp(a) PROVE SlotTypes'
  BY <1>6 DEF S!GivesUp
<1>7. ASSUME NEW a \in Agent, S!Spaced(a) PROVE SlotTypes'
  BY <1>7 DEF S!Spaced
<1>8. ASSUME NEW a \in Agent, S!ReadsTrust(a) PROVE SlotTypes'
  BY <1>8 DEF S!ReadsTrust
<1>9. ASSUME NEW a \in Agent, S!Launches(a) PROVE SlotTypes'
  <2>1. trusted' \in SlotTrust
    BY <1>9 DEF S!Launches, S!Rebuilt
  <2>2. read' \in [Agent -> SlotTrust] /\ lock' \in [by : Agent \cup {"none", "nobody"}, age : {"fresh", "stale"}]
    BY <1>9 DEF S!Launches, S!Nothing, S!Free
  <2> QED BY <1>9, <2>1, <2>2 DEF S!Launches
<1>10. ASSUME NEW a \in Agent, S!Killed(a) PROVE SlotTypes'
  BY <1>10 DEF S!Killed, S!Nothing
<1>11. ASSUME NEW a \in Agent, S!Again(a) PROVE SlotTypes'
  BY <1>11 DEF S!Again
<1> QED BY <1>1, <1>2, <1>3, <1>4, <1>5, <1>6, <1>7, <1>8, <1>9, <1>10, <1>11 DEF S!LsNext, S!Acquires

\* Every step keeps the invariant.
LEMMA SlotStep == SlotInv /\ (S!LsNext \/ UNCHANGED sv) => SlotInv'
<1> SUFFICES ASSUME SlotInv, S!LsNext \/ UNCHANGED sv PROVE SlotInv'
  OBVIOUS
<1>0. CASE UNCHANGED sv
  BY <1>0 DEF sv, SlotInv, SlotTypes, JudgedStale, LockIsUsed, InsideHasLock, S!Inside
<1> SUFFICES ASSUME S!LsNext PROVE SlotInv'
  BY <1>0
<1>t. SlotTypes'
  BY SlotTypesStep DEF SlotInv
<1> USE MachineNames DEF SlotInv, SlotTypes, S!Goes, S!Inside, JudgedStale, LockIsUsed, InsideHasLock
<1>1. CASE S!LockAges
  BY <1>t, <1>1 DEF S!LockAges
<1>2. ASSUME NEW a \in Agent, S!Wants(a) PROVE SlotInv'
  BY <1>t, <1>2 DEF S!Wants
<1>3. ASSUME NEW a \in Agent, S!Creates(a) PROVE SlotInv'
  BY <1>t, <1>3 DEF S!Creates
<1>4. ASSUME NEW a \in Agent, S!Judges(a) PROVE SlotInv'
  BY <1>t, <1>4 DEF S!Judges
<1>5. ASSUME NEW a \in Agent, S!Steals(a) PROVE SlotInv'
  BY <1>t, <1>5 DEF S!Steals, S!Free
<1>6. ASSUME NEW a \in Agent, S!GivesUp(a) PROVE SlotInv'
  BY <1>t, <1>6 DEF S!GivesUp
<1>7. ASSUME NEW a \in Agent, S!Spaced(a) PROVE SlotInv'
  BY <1>t, <1>7 DEF S!Spaced
<1>8. ASSUME NEW a \in Agent, S!ReadsTrust(a) PROVE SlotInv'
  BY <1>t, <1>8 DEF S!ReadsTrust
<1>9. ASSUME NEW a \in Agent, S!Launches(a) PROVE SlotInv'
  <2>1. causes \cap {"slow", "impatient", "late"} = {} => trusted.of \subseteq trusted'.of
    BY <1>9 DEF S!Launches, S!Rebuilt
  <2>2. causes \cap {"slow", "impatient", "late"} = {} => \A b \in Agent : at'[b] # "write" /\ b \notin S!Inside'
    BY <1>9 DEF S!Launches
  <2>3. causes' \in {causes, causes \cup {"lost"}} /\ (trusted.of \subseteq trusted'.of => causes' = causes)
    BY <1>9 DEF S!Launches
  <2>4. JudgedStale'
    BY <1>9 DEF S!Launches
  <2>5. InsideHasLock'
    BY <2>1, <2>2, <2>3
  <2>6. LockIsUsed'
    BY <1>9, <2>3 DEF S!Launches, S!Free
  <2> QED BY <1>t, <2>4, <2>5, <2>6
<1>10. ASSUME NEW a \in Agent, S!Killed(a) PROVE SlotInv'
  BY <1>t, <1>10 DEF S!Killed
<1>11. ASSUME NEW a \in Agent, S!Again(a) PROVE SlotInv'
  BY <1>t, <1>11 DEF S!Again
<1> QED BY <1>1, <1>2, <1>3, <1>4, <1>5, <1>6, <1>7, <1>8, <1>9, <1>10, <1>11 DEF S!LsNext, S!Acquires

\* The invariant gives what the run checks.
LEMMA SlotSuffices == SlotInv => S!LsTypeOK /\ S!SlotHolds
<1> SUFFICES ASSUME SlotInv PROVE S!LsTypeOK /\ S!SlotHolds
  OBVIOUS
<1>1. S!LsTypeOK
  BY DEF SlotInv, SlotTypes, SlotTrust, S!LsTypeOK
<1>2. S!LateComesFrom /\ S!LostComesFrom
  BY DEF SlotInv, LockIsUsed, InsideHasLock, S!LateComesFrom, S!LostComesFrom
<1>3. S!MeetingComesFrom
  <2>1. CASE causes \cap {"slow", "killed", "impatient"} = {}
    <3>1. causes \cap {"slow", "impatient", "late"} = {}
      BY <2>1 DEF SlotInv, LockIsUsed
    <3>2. \A x, y \in S!Inside : x = y
      BY <3>1 DEF SlotInv, InsideHasLock
    <3>3. IsFiniteSet(S!Inside) /\ Cardinality(S!Inside) <= 1
      BY <3>2, AtMostOne
    <3>4. Cardinality(S!Inside) \in Nat
      BY <3>3, FS_CardinalityType
    <3>5. S!Cardinality(S!Inside) = Cardinality(S!Inside)
      BY DEF S!Cardinality, Cardinality
    <3>6. ~(S!Cardinality(S!Inside) > 1)
      BY <3>3, <3>4, <3>5
    <3> QED BY <3>6 DEF S!MeetingComesFrom
  <2>2. CASE causes \cap {"slow", "killed", "impatient"} # {}
    BY <2>2 DEF S!MeetingComesFrom
  <2> QED BY <2>1, <2>2
<1> QED BY <1>1, <1>2, <1>3 DEF S!SlotHolds

\* Whichever part is looked at, the slot keeps its invariant.
LEMMA SlotAlways == MCSpec => []SlotInv
<1>1. MCInit => SlotInv
  BY SlotStart DEF MCInit
<1>2. SlotInv /\ [MCNext]_<<part, dv, tv, sv, gv, lv>> => SlotInv'
  <2>1. [MCNext]_<<part, dv, tv, sv, gv, lv>> => S!LsNext \/ UNCHANGED sv
    BY DEF MCNext
  <2> QED BY <2>1, SlotStep
<1> QED BY <1>1, <1>2, PTL DEF MCSpec

\* Two loops launch at once, a lock is removed by mistake, and a trusted folder is lost, only
\* after a loop was slow, killed or impatient inside (tui.ts:428-474): for any number of loops.
THEOREM SlotCorrect == MCSpec => [](S!LsTypeOK /\ S!SlotHolds)
  BY SlotAlways, SlotSuffices, PTL

-----------------------------------------------------------------------------
(* The detached leader of grok (GrokLeader).                                *)

\* A start: no file tells of a backend yet, and the socket file is its own, but for cut starts.
StartsAlone ==
    G!Starting =>
        /\ glFile = G!NoFile /\ glLoop.b \in G!GlBackend
        /\ glSocket \in {0, glLoop.b} \cup glCut

\* As long as nothing was given up, there is one conversation only.
OneConversation ==
    glWhy = {} =>
        /\ glSaved = "first" /\ glSid \in {"none", "first"}
        /\ \A b \in G!GlBackend : glKeep[b] # 0 => glSeed[b] = "first"
        /\ glFile.of # 0 => glFile.sid = "first"

\* As long as nothing died or was cut short, nothing was given up, the backend in the file
\* is whole, and so is that of a start, as far as it got.
CalmBackends ==
    glFaults = 0 /\ glCut = {} =>
        /\ glWhy = {}
        /\ glFile.of # 0 => /\ glLeader[glFile.of] = "up" /\ glKeep[glFile.of] = glFile.of
                            /\ glWarm[glFile.of] = "first"
        /\ G!Starting /\ glSocket # 0 => glLeader[glLoop.b] = "up"
        /\ glLoop.pc = "sid" => /\ glLeader[glLoop.b] = "up" /\ glKeep[glLoop.b] = glLoop.b
                                /\ glSid # "none" => glWarm[glLoop.b] = "first"

GlInv ==
    /\ G!GlTypeOK /\ StartsAlone /\ G!LeakComesFrom /\ G!PairsComeFrom
    /\ OneConversation /\ CalmBackends

\* At first there is no backend.
LEMMA LeaderStart == G!GlInit => GlInv
<1> SUFFICES ASSUME G!GlInit PROVE GlInv
  OBVIOUS
<1> USE MachineBounds DEF G!GlInit, G!GlBackend
<1>1. G!GlTypeOK
  BY DEF G!GlTypeOK, G!NoFile, G!GlSession, G!Loop
<1> QED BY <1>1 DEF GlInv, StartsAlone, G!Starting, G!LeakComesFrom, G!Alive, G!PairsComeFrom, OneConversation,
                    CalmBackends, G!NoFile, G!Loop

\* Once processes were killed: no keepalive is another's, a leader keeps what it had in
\* memory for its keepalive.
KeepsGo ==
    /\ glKeep' \in [G!GlBackend -> 0 .. GlMaxBackend]
    /\ \A b \in G!GlBackend : glKeep'[b] \in {0, glKeep[b]}
WarmStays ==
    /\ glWarm' \in [G!GlBackend -> G!GlSession]
    /\ \A b \in G!GlBackend : glLeader'[b] = "up" /\ (\E k \in G!GlBackend : glKeep'[k] = b) => glWarm'[b] = glWarm[b]

LEMMA KeepsLeft ==
    ASSUME G!GlTypeOK, NEW ks, NEW ls, glKeep' = G!KeepsWithout(ks, ls)
    PROVE  /\ KeepsGo
           /\ ks = {} /\ ls = {} => glKeep' = glKeep
  BY MachineBounds DEF G!KeepsWithout, G!GlTypeOK, KeepsGo

LEMMA WarmLeft ==
    ASSUME G!GlTypeOK, NEW loop, glWarm' = G!WarmWith(glKeep', loop, glLeader')
    PROVE  WarmStays
  BY DEF G!WarmWith, G!GlTypeOK, G!GlSession, WarmStays

\* Killing the processes of a set of backends.
LeadersGo(bs) ==
    /\ glLeader' \in [G!GlBackend -> {"new", "none", "boot", "up"}]
    /\ \A b \in G!GlBackend : glLeader'[b] \in {"boot", "up"} => b \notin bs /\ glLeader'[b] = glLeader[b]
AllStay == glLeader' = glLeader /\ glKeep' = glKeep
KilledLeaves(bs) == LeadersGo(bs) /\ KeepsGo /\ WarmStays /\ (bs = {} => AllStay)

LEMMA KillingLeaves ==
    ASSUME NEW bs, NEW loop, bs \subseteq G!GlBackend, G!GlTypeOK, G!Kill(bs, loop)
    PROVE  KilledLeaves(bs)
<1>0. bs \subseteq G!GlBackend /\ G!GlTypeOK /\ G!Kill(bs, loop)
  OBVIOUS
<1>1. LeadersGo(bs)
  BY DEF G!Kill, G!GlTypeOK, G!Alive, LeadersGo
<1>2. glKeep' = G!KeepsWithout(bs, {b \in bs : G!Alive(b)}) /\ glWarm' = G!WarmWith(glKeep', loop, glLeader')
  BY DEF G!Kill
<1>3. KeepsGo /\ WarmStays
  BY <1>2, KeepsLeft, WarmLeft
<1>4. bs = {} => glLeader' = glLeader
  BY DEF G!Kill, G!GlTypeOK
<1>5. bs = {} => glKeep' = glKeep
  <2>1. bs = {} => {b \in bs : G!Alive(b)} = {}
    OBVIOUS
  <2> QED BY <2>1, <1>2, KeepsLeft
<1>6. bs = {} => AllStay
  BY <1>4, <1>5 DEF AllStay
<1>7. LeadersGo(bs) /\ KeepsGo /\ WarmStays /\ (bs = {} => AllStay)
  BY <1>1, <1>3, <1>6
<1> QED BY <1>7 DEF KilledLeaves


\* Every step keeps the invariant.
LEMMA LeaderStep == GlInv /\ (G!GlNext \/ UNCHANGED gv) => GlInv'
<1> SUFFICES ASSUME GlInv, G!GlNext \/ UNCHANGED gv PROVE GlInv'
  OBVIOUS
<1> USE DEF GlInv
<1>0. CASE UNCHANGED gv
  BY <1>0 DEF gv, G!GlTypeOK, StartsAlone, G!Starting, G!LeakComesFrom, G!Alive, G!Known, G!PairsComeFrom, OneConversation, CalmBackends
<1>i. G!GlTypeOK
  OBVIOUS
<1>a. glFile.of \in 0 .. GlMaxBackend /\ ({glFile.of} \ {0}) \in SUBSET G!GlBackend
  BY MachineBounds DEF G!GlTypeOK, G!GlBackend
<1>b. \A b \in G!GlBackend : b # 0 /\ b \in 0 .. GlMaxBackend
  BY MachineBounds DEF G!GlBackend
<1> USE MachineBounds DEF G!Loop, G!NoFile, G!GlSession, G!Starting, G!Alive, G!Known
<1>1. CASE G!Adopts
  <2>1. G!GlTypeOK'
    BY <1>1, <1>a, <1>b DEF G!Adopts, G!Healthy, G!GlTypeOK, StartsAlone
  <2>2. StartsAlone'
    BY <1>1, <1>a, <1>b DEF G!Adopts, G!Healthy, G!GlTypeOK, StartsAlone
  <2>3. G!LeakComesFrom'
    BY <1>1, <1>a, <1>b DEF G!Adopts, G!Healthy, G!GlTypeOK, G!LeakComesFrom, StartsAlone
  <2>4. G!PairsComeFrom'
    BY <1>1, <1>a, <1>b DEF G!Adopts, G!Healthy, G!GlTypeOK, G!PairsComeFrom, StartsAlone
  <2>5. OneConversation'
    BY <1>1, <1>a, <1>b DEF G!Adopts, G!Healthy, G!GlTypeOK, OneConversation
  <2>6. CalmBackends'
    BY <1>1, <1>a, <1>b DEF G!Adopts, G!Healthy, G!GlTypeOK, CalmBackends, StartsAlone, G!LeakComesFrom, G!PairsComeFrom, OneConversation
  <2> QED BY <2>1, <2>2, <2>3, <2>4, <2>5, <2>6
<1>2. CASE G!SocketSeen
  <2>1. G!GlTypeOK'
    BY <1>2, <1>a, <1>b DEF G!SocketSeen, G!GlTypeOK, StartsAlone
  <2>2. StartsAlone'
    BY <1>2, <1>a, <1>b DEF G!SocketSeen, G!GlTypeOK, StartsAlone
  <2>3. G!LeakComesFrom'
    BY <1>2, <1>a, <1>b DEF G!SocketSeen, G!GlTypeOK, G!LeakComesFrom, StartsAlone
  <2>4. G!PairsComeFrom'
    BY <1>2, <1>a, <1>b DEF G!SocketSeen, G!GlTypeOK, G!PairsComeFrom, StartsAlone
  <2>5. OneConversation'
    BY <1>2, <1>a, <1>b DEF G!SocketSeen, G!GlTypeOK, OneConversation
  <2>6. CalmBackends'
    BY <1>2, <1>a, <1>b DEF G!SocketSeen, G!GlTypeOK, CalmBackends, StartsAlone, G!LeakComesFrom, G!PairsComeFrom, OneConversation
  <2> QED BY <2>1, <2>2, <2>3, <2>4, <2>5, <2>6
<1>3. CASE G!SidSeen
  <2>1. G!GlTypeOK'
    BY <1>3, <1>a, <1>b DEF G!SidSeen, G!GlTypeOK, StartsAlone
  <2>2. StartsAlone'
    BY <1>3, <1>a, <1>b DEF G!SidSeen, G!GlTypeOK, StartsAlone
  <2>3. G!LeakComesFrom'
    BY <1>3, <1>a, <1>b DEF G!SidSeen, G!GlTypeOK, G!LeakComesFrom, StartsAlone
  <2>4. G!PairsComeFrom'
    BY <1>3, <1>a, <1>b DEF G!SidSeen, G!GlTypeOK, G!PairsComeFrom, StartsAlone
  <2>5. OneConversation'
    BY <1>3, <1>a, <1>b DEF G!SidSeen, G!GlTypeOK, OneConversation
  <2>6. CalmBackends'
    BY <1>3, <1>a, <1>b DEF G!SidSeen, G!GlTypeOK, CalmBackends, StartsAlone, G!LeakComesFrom, G!PairsComeFrom, OneConversation
  <2> QED BY <2>1, <2>2, <2>3, <2>4, <2>5, <2>6
<1>4. CASE G!StartTimesOut
  <2>k. G!Kill({glLoop.b}, glLoop')
    BY <1>4, <1>a, <1>b DEF G!StartTimesOut, StartsAlone
  <2>m. {glLoop.b} \in SUBSET G!GlBackend
    BY <1>4, <1>a, <1>b DEF G!StartTimesOut, StartsAlone
  <2>l. KilledLeaves({glLoop.b})
    BY ONLY <2>k, <2>m, <1>i, KillingLeaves
  <2>1. G!GlTypeOK'
    BY <1>4, <1>a, <1>b, <2>l DEF KilledLeaves, LeadersGo, AllStay, KeepsGo, WarmStays, G!StartTimesOut, G!GlTypeOK, StartsAlone
  <2>2. StartsAlone'
    BY <1>4, <1>a, <1>b, <2>l DEF KilledLeaves, LeadersGo, AllStay, KeepsGo, WarmStays, G!StartTimesOut, G!GlTypeOK, StartsAlone
  <2>3. G!LeakComesFrom'
    BY <1>4, <1>a, <1>b, <2>l DEF KilledLeaves, LeadersGo, AllStay, KeepsGo, WarmStays, G!StartTimesOut, G!GlTypeOK, G!LeakComesFrom, StartsAlone
  <2>4. G!PairsComeFrom'
    BY <1>4, <1>a, <1>b, <2>l DEF KilledLeaves, LeadersGo, AllStay, KeepsGo, WarmStays, G!StartTimesOut, G!GlTypeOK, G!PairsComeFrom, StartsAlone
  <2>5. OneConversation'
    BY <1>4, <1>a, <1>b, <2>l DEF KilledLeaves, LeadersGo, AllStay, KeepsGo, WarmStays, G!StartTimesOut, G!GlTypeOK, OneConversation
  <2>6. CalmBackends'
    BY <1>4, <1>a, <1>b, <2>l DEF KilledLeaves, LeadersGo, AllStay, KeepsGo, WarmStays, G!StartTimesOut, G!GlTypeOK, CalmBackends, StartsAlone, G!LeakComesFrom, G!PairsComeFrom, OneConversation
  <2> QED BY <2>1, <2>2, <2>3, <2>4, <2>5, <2>6
<1>5. CASE G!LoopStarts
  <2>1. G!GlTypeOK'
    BY <1>5, <1>a, <1>b DEF G!LoopStarts, G!GlTypeOK, StartsAlone
  <2>2. StartsAlone'
    BY <1>5, <1>a, <1>b DEF G!LoopStarts, G!GlTypeOK, StartsAlone
  <2>3. G!LeakComesFrom'
    BY <1>5, <1>a, <1>b DEF G!LoopStarts, G!GlTypeOK, G!LeakComesFrom, StartsAlone
  <2>4. G!PairsComeFrom'
    BY <1>5, <1>a, <1>b DEF G!LoopStarts, G!GlTypeOK, G!PairsComeFrom, StartsAlone
  <2>5. OneConversation'
    BY <1>5, <1>a, <1>b DEF G!LoopStarts, G!GlTypeOK, OneConversation
  <2>6. CalmBackends'
    BY <1>5, <1>a, <1>b DEF G!LoopStarts, G!GlTypeOK, CalmBackends, StartsAlone, G!LeakComesFrom, G!PairsComeFrom, OneConversation
  <2> QED BY <2>1, <2>2, <2>3, <2>4, <2>5, <2>6
<1>6. CASE G!LoopDies
  <2>k. KeepsGo
    BY <1>6, MachineBounds DEF G!LoopDies, KeepsGo, G!GlTypeOK
  <2>v. glWarm' = G!WarmWith(glKeep', glLoop', glLeader')
    BY <1>6 DEF G!LoopDies
  <2>w. WarmStays
    BY <2>v, WarmLeft
  <2>1. G!GlTypeOK'
    BY <1>6, <1>a, <1>b, <2>k, <2>w DEF KeepsGo, WarmStays, G!LoopDies, G!GlTypeOK, StartsAlone
  <2>2. StartsAlone'
    BY <1>6, <1>a, <1>b, <2>k, <2>w DEF KeepsGo, WarmStays, G!LoopDies, G!GlTypeOK, StartsAlone
  <2>3. G!LeakComesFrom'
    BY <1>6, <1>a, <1>b, <2>k, <2>w DEF KeepsGo, WarmStays, G!LoopDies, G!GlTypeOK, G!LeakComesFrom, StartsAlone
  <2>4. G!PairsComeFrom'
    BY <1>6, <1>a, <1>b, <2>k, <2>w DEF KeepsGo, WarmStays, G!LoopDies, G!GlTypeOK, G!PairsComeFrom, StartsAlone
  <2>5. OneConversation'
    BY <1>6, <1>a, <1>b, <2>k, <2>w DEF KeepsGo, WarmStays, G!LoopDies, G!GlTypeOK, OneConversation
  <2>6. CalmBackends'
    BY <1>6, <1>a, <1>b, <2>k, <2>w DEF KeepsGo, WarmStays, G!LoopDies, G!GlTypeOK, CalmBackends, StartsAlone, G!LeakComesFrom, G!PairsComeFrom, OneConversation
  <2> QED BY <2>1, <2>2, <2>3, <2>4, <2>5, <2>6
<1>7. CASE G!Poisoned
  <2>k. G!Kill({glFile.of} \ {0}, glLoop')
    BY <1>7, <1>a, <1>b DEF G!Poisoned, StartsAlone
  <2>m. {glFile.of} \ {0} \in SUBSET G!GlBackend
    BY <1>7, <1>a, <1>b DEF G!Poisoned, StartsAlone
  <2>l. KilledLeaves({glFile.of} \ {0})
    BY ONLY <2>k, <2>m, <1>i, KillingLeaves
  <2>1. G!GlTypeOK'
    BY <1>7, <1>a, <1>b, <2>l DEF KilledLeaves, LeadersGo, AllStay, KeepsGo, WarmStays, G!Poisoned, G!GlTypeOK, StartsAlone
  <2>2. StartsAlone'
    BY <1>7, <1>a, <1>b, <2>l DEF KilledLeaves, LeadersGo, AllStay, KeepsGo, WarmStays, G!Poisoned, G!GlTypeOK, StartsAlone
  <2>3. G!LeakComesFrom'
    BY <1>7, <1>a, <1>b, <2>l DEF KilledLeaves, LeadersGo, AllStay, KeepsGo, WarmStays, G!Poisoned, G!GlTypeOK, G!LeakComesFrom, StartsAlone
  <2>4. G!PairsComeFrom'
    BY <1>7, <1>a, <1>b, <2>l DEF KilledLeaves, LeadersGo, AllStay, KeepsGo, WarmStays, G!Poisoned, G!GlTypeOK, G!PairsComeFrom, StartsAlone
  <2>5. OneConversation'
    BY <1>7, <1>a, <1>b, <2>l DEF KilledLeaves, LeadersGo, AllStay, KeepsGo, WarmStays, G!Poisoned, G!GlTypeOK, OneConversation
  <2>6. CalmBackends'
    <3>1. ~(glFaults = 0 /\ glCut = {})
      <4> SUFFICES ASSUME glFaults = 0, glCut = {} PROVE FALSE
        OBVIOUS
      <4>1. glLoop.b \in G!GlBackend /\ glLeader[glLoop.b] = "up" /\ glLoop.pc = "attached"
        BY <1>7 DEF G!Poisoned, G!GlTypeOK, G!GlBackend
      <4>2. glFile.of = glLoop.b
        BY <4>1 DEF G!LeakComesFrom
      <4>3. glWarm[glLoop.b] = "first" /\ glFile.sid = "first"
        BY <4>1, <4>2, <1>b DEF CalmBackends, OneConversation
      <4> QED BY <4>3, <1>7 DEF G!Poisoned
    <3> QED BY <3>1, <1>7 DEF CalmBackends, G!Poisoned
  <2> QED BY <2>1, <2>2, <2>3, <2>4, <2>5, <2>6
<1>8. CASE G!ClientEnds
  <2>1. G!GlTypeOK'
    BY <1>8, <1>a, <1>b DEF G!ClientEnds, G!GlTypeOK, StartsAlone
  <2>2. StartsAlone'
    BY <1>8, <1>a, <1>b DEF G!ClientEnds, G!GlTypeOK, StartsAlone
  <2>3. G!LeakComesFrom'
    BY <1>8, <1>a, <1>b DEF G!ClientEnds, G!GlTypeOK, G!LeakComesFrom, StartsAlone
  <2>4. G!PairsComeFrom'
    BY <1>8, <1>a, <1>b DEF G!ClientEnds, G!GlTypeOK, G!PairsComeFrom, StartsAlone
  <2>5. OneConversation'
    BY <1>8, <1>a, <1>b DEF G!ClientEnds, G!GlTypeOK, OneConversation
  <2>6. CalmBackends'
    BY <1>8, <1>a, <1>b DEF G!ClientEnds, G!GlTypeOK, CalmBackends, StartsAlone, G!LeakComesFrom, G!PairsComeFrom, OneConversation
  <2> QED BY <2>1, <2>2, <2>3, <2>4, <2>5, <2>6
<1>9. CASE G!LeaderStop
  <2>k. G!Kill({glFile.of} \ {0}, glLoop)
    BY <1>9, <1>a, <1>b DEF G!LeaderStop, StartsAlone
  <2>m. {glFile.of} \ {0} \in SUBSET G!GlBackend
    BY <1>9, <1>a, <1>b DEF G!LeaderStop, StartsAlone
  <2>l. KilledLeaves({glFile.of} \ {0})
    BY ONLY <2>k, <2>m, <1>i, KillingLeaves
  <2>1. G!GlTypeOK'
    BY <1>9, <1>a, <1>b, <2>l DEF KilledLeaves, LeadersGo, AllStay, KeepsGo, WarmStays, G!LeaderStop, G!GlTypeOK, StartsAlone
  <2>2. StartsAlone'
    BY <1>9, <1>a, <1>b, <2>l DEF KilledLeaves, LeadersGo, AllStay, KeepsGo, WarmStays, G!LeaderStop, G!GlTypeOK, StartsAlone
  <2>3. G!LeakComesFrom'
    BY <1>9, <1>a, <1>b, <2>l DEF KilledLeaves, LeadersGo, AllStay, KeepsGo, WarmStays, G!LeaderStop, G!GlTypeOK, G!LeakComesFrom, StartsAlone
  <2>4. G!PairsComeFrom'
    BY <1>9, <1>a, <1>b, <2>l DEF KilledLeaves, LeadersGo, AllStay, KeepsGo, WarmStays, G!LeaderStop, G!GlTypeOK, G!PairsComeFrom, StartsAlone
  <2>5. OneConversation'
    BY <1>9, <1>a, <1>b, <2>l DEF KilledLeaves, LeadersGo, AllStay, KeepsGo, WarmStays, G!LeaderStop, G!GlTypeOK, OneConversation
  <2>6. CalmBackends'
    BY <1>9, <1>a, <1>b, <2>l DEF KilledLeaves, LeadersGo, AllStay, KeepsGo, WarmStays, G!LeaderStop, G!GlTypeOK, CalmBackends, StartsAlone, G!LeakComesFrom, G!PairsComeFrom, OneConversation
  <2> QED BY <2>1, <2>2, <2>3, <2>4, <2>5, <2>6
<1>10. ASSUME NEW b \in G!GlBackend, G!Starts(b) PROVE GlInv'
  <2>v. glWarm' = G!WarmWith(glKeep', glLoop', glLeader')
    BY <1>10 DEF G!Starts
  <2>u. glKeep' = G!KeepsWithout({glFile.of} \ {0}, {c \in {glFile.of} \ {0} : G!Alive(c)})
    BY <1>10 DEF G!Starts
  <2>k. KeepsGo
    BY <2>u, KeepsLeft
  <2>w. WarmStays
    BY <2>v, WarmLeft
  <2>1. G!GlTypeOK'
    <3>1. glFile' \in [of : 0 .. GlMaxBackend, sid : G!GlSession] /\ glSocket' \in 0 .. GlMaxBackend
          /\ glSid' \in G!GlSession /\ glSaved' \in G!GlSession
      BY <1>10, <1>a, <1>b, <2>k, <2>w DEF G!Starts, G!GlTypeOK, StartsAlone
    <3>2. glLeader' \in [G!GlBackend -> {"new", "none", "boot", "up"}] /\ glKeep' \in [G!GlBackend -> 0 .. GlMaxBackend]
      BY <1>10, <1>a, <1>b, <2>k, <2>w DEF G!Starts, G!GlTypeOK, KeepsGo
    <3>3. glSeed' \in [G!GlBackend -> G!GlSession] /\ glWarm' \in [G!GlBackend -> G!GlSession]
      BY <1>10, <1>a, <1>b, <2>k, <2>w DEF G!Starts, G!GlTypeOK, WarmStays
    <3>4. glLoop' \in [pc : {"off", "idle", "socket", "sid", "attached", "plain"}, b : 0 .. GlMaxBackend]
      BY <1>10, <1>a, <1>b, <2>k, <2>w DEF G!Starts, G!GlTypeOK
    <3>5. glFaults' \in 0 .. GlMaxFaults /\ glCut' \subseteq G!GlBackend /\ glWhy' \subseteq {"refused", "poison"}
      BY <1>10, <1>a, <1>b, <2>k, <2>w DEF G!Starts, G!GlTypeOK
    <3> QED BY <3>1, <3>2, <3>3, <3>4, <3>5 DEF G!GlTypeOK
  <2>2. StartsAlone'
    BY <1>10, <1>a, <1>b, <2>k, <2>w DEF KeepsGo, WarmStays, G!Starts, G!GlTypeOK, StartsAlone
  <2>3. G!LeakComesFrom'
    BY <1>10, <1>a, <1>b, <2>k, <2>w DEF KeepsGo, WarmStays, G!Starts, G!GlTypeOK, G!LeakComesFrom, StartsAlone
  <2>4. G!PairsComeFrom'
    BY <1>10, <1>a, <1>b, <2>k, <2>w DEF KeepsGo, WarmStays, G!Starts, G!GlTypeOK, G!PairsComeFrom, StartsAlone
  <2>5. OneConversation'
    <3>1. UNCHANGED <<glSid, glSaved, glSeed, glWhy>> /\ glFile' = G!NoFile
      BY <1>10 DEF G!Starts
    <3> QED BY <3>1, <2>k DEF KeepsGo, OneConversation
  <2>6. CalmBackends'
    BY <1>10, <1>a, <1>b, <2>k, <2>w DEF KeepsGo, WarmStays, G!Starts, G!GlTypeOK, CalmBackends, StartsAlone, G!LeakComesFrom, G!PairsComeFrom, OneConversation
  <2> QED BY <2>1, <2>2, <2>3, <2>4, <2>5, <2>6
<1>11. ASSUME NEW b \in G!GlBackend, G!LeaderBinds(b) PROVE GlInv'
  <2>1. G!GlTypeOK'
    BY <1>11, <1>a, <1>b DEF G!LeaderBinds, G!GlTypeOK, StartsAlone
  <2>2. StartsAlone'
    <3> SUFFICES ASSUME glLoop.pc \in {"socket", "sid"}
                 PROVE  glFile' = glFile /\ glLoop' = glLoop /\ glSocket' \in {0, glLoop.b} \cup glCut'
      BY <1>11 DEF StartsAlone, G!LeaderBinds
    <3>1. b = glLoop.b \/ b \in glCut
      BY <1>11, <1>b DEF G!LeaderBinds, G!LeakComesFrom, StartsAlone
    <3> QED BY <1>11, <3>1 DEF G!LeaderBinds, StartsAlone
  <2>3. G!LeakComesFrom'
    BY <1>11, <1>a, <1>b DEF G!LeaderBinds, G!GlTypeOK, G!LeakComesFrom, StartsAlone
  <2>4. G!PairsComeFrom'
    BY <1>11, <1>a, <1>b DEF G!LeaderBinds, G!GlTypeOK, G!PairsComeFrom, StartsAlone
  <2>5. OneConversation'
    BY <1>11, <1>a, <1>b DEF G!LeaderBinds, G!GlTypeOK, OneConversation
  <2>6. CalmBackends'
    BY <1>11, <1>a, <1>b DEF G!LeaderBinds, G!GlTypeOK, CalmBackends, StartsAlone, G!LeakComesFrom, G!PairsComeFrom, OneConversation
  <2> QED BY <2>1, <2>2, <2>3, <2>4, <2>5, <2>6
<1>12. ASSUME NEW b \in G!GlBackend, G!KeepEstablishes(b) PROVE GlInv'
  <2>1. G!GlTypeOK'
    <3>1. glFile' \in [of : 0 .. GlMaxBackend, sid : G!GlSession] /\ glSocket' \in 0 .. GlMaxBackend
          /\ glSid' \in G!GlSession /\ glSaved' \in G!GlSession
      BY <1>12, <1>a, <1>b DEF G!KeepEstablishes, G!Refused, G!GlTypeOK, StartsAlone
    <3>2. glLeader' \in [G!GlBackend -> {"new", "none", "boot", "up"}] /\ glKeep' \in [G!GlBackend -> 0 .. GlMaxBackend]
      BY <1>12, <1>a, <1>b DEF G!KeepEstablishes, G!Refused, G!GlTypeOK, KeepsGo
    <3>3. glSeed' \in [G!GlBackend -> G!GlSession] /\ glWarm' \in [G!GlBackend -> G!GlSession]
      BY <1>12, <1>a, <1>b DEF G!KeepEstablishes, G!Refused, G!GlTypeOK, WarmStays
    <3>4. glLoop' \in [pc : {"off", "idle", "socket", "sid", "attached", "plain"}, b : 0 .. GlMaxBackend]
      BY <1>12, <1>a, <1>b DEF G!KeepEstablishes, G!Refused, G!GlTypeOK
    <3>5. glFaults' \in 0 .. GlMaxFaults /\ glCut' \subseteq G!GlBackend /\ glWhy' \subseteq {"refused", "poison"}
      <4>1. glFaults' \in {glFaults, glFaults + 1} /\ (glFaults' = glFaults + 1 /\ glFaults' # glFaults => glFaults < GlMaxFaults)
        BY <1>12 DEF G!KeepEstablishes, G!Refused
      <4>2. glFaults' \in 0 .. GlMaxFaults
        BY <4>1 DEF G!GlTypeOK
      <4>3. glCut' \subseteq G!GlBackend /\ glWhy' \subseteq {"refused", "poison"}
        BY <1>12 DEF G!KeepEstablishes, G!GlTypeOK
      <4> QED BY <4>2, <4>3
    <3> QED BY <3>1, <3>2, <3>3, <3>4, <3>5 DEF G!GlTypeOK
  <2>2. StartsAlone'
    BY <1>12, <1>a, <1>b DEF G!KeepEstablishes, G!Refused, G!GlTypeOK, StartsAlone
  <2>3. G!LeakComesFrom'
    BY <1>12, <1>a, <1>b DEF G!KeepEstablishes, G!Refused, G!GlTypeOK, G!LeakComesFrom, StartsAlone
  <2>4. G!PairsComeFrom'
    BY <1>12, <1>a, <1>b DEF G!KeepEstablishes, G!Refused, G!GlTypeOK, G!PairsComeFrom, StartsAlone
  <2>5. OneConversation'
    BY <1>12, <1>a, <1>b DEF G!KeepEstablishes, G!Refused, G!GlTypeOK, OneConversation
  <2>6. CalmBackends'
    <3> SUFFICES ASSUME glFaults' = 0, glCut' = {} PROVE CalmBackends'
      BY DEF CalmBackends
    <3>1. glFaults = 0 /\ glCut = {} /\ glWhy = {}
      BY <1>12 DEF G!KeepEstablishes, G!GlTypeOK, CalmBackends
    <3>2. glKeep[b] = b /\ glLeader[b] = "up" /\ glSeed[b] = "first"
      BY <1>12, <3>1 DEF G!KeepEstablishes, G!PairsComeFrom, OneConversation
    <3>3. glSid' = "first" /\ glWhy' = {}
      BY <1>12, <3>1, <3>2 DEF G!KeepEstablishes
    <3>4. glWarm' = [glWarm EXCEPT ![b] = "first"]
      BY <1>12, <3>2, <3>3 DEF G!KeepEstablishes
    <3>5. glFile.of = b \/ (glLoop.pc \in {"socket", "sid"} /\ glLoop.b = b)
      BY <3>1, <3>2 DEF G!LeakComesFrom
    <3>6. UNCHANGED <<glFile, glSocket, glLeader, glKeep, glLoop>>
      BY <1>12 DEF G!KeepEstablishes
    <3>7. glFile.of # 0 => glWarm'[glFile.of] = "first"
      BY <3>1, <3>4, <1>a DEF CalmBackends, G!GlTypeOK
    <3>8. glLoop.pc = "sid" => glWarm'[glLoop.b] = "first"
      <4>1. glLoop.pc = "sid" => glLoop.b = b
        BY <3>5, <1>b DEF StartsAlone
      <4>2. glWarm'[b] = "first"
        BY <3>4, <1>12 DEF G!GlTypeOK
      <4> QED BY <4>1, <4>2
    <3> QED BY <3>1, <3>3, <3>6, <3>7, <3>8 DEF CalmBackends
  <2> QED BY <2>1, <2>2, <2>3, <2>4, <2>5, <2>6
<1>13. ASSUME NEW b \in G!GlBackend, G!LeaderDies(b) PROVE GlInv'
  <2>v. glWarm' = G!WarmWith(glKeep', glLoop, glLeader')
    BY <1>13 DEF G!LeaderDies
  <2>u. glKeep' = G!KeepsWithout({}, {b})
    BY <1>13 DEF G!LeaderDies
  <2>k. KeepsGo
    BY <2>u, KeepsLeft
  <2>w. WarmStays
    BY <2>v, WarmLeft
  <2>1. G!GlTypeOK'
    <3>1. glFile' \in [of : 0 .. GlMaxBackend, sid : G!GlSession] /\ glSocket' \in 0 .. GlMaxBackend
          /\ glSid' \in G!GlSession /\ glSaved' \in G!GlSession
      BY <1>13, <1>a, <1>b, <2>k, <2>w DEF G!LeaderDies, G!GlTypeOK, StartsAlone
    <3>2. glLeader' \in [G!GlBackend -> {"new", "none", "boot", "up"}] /\ glKeep' \in [G!GlBackend -> 0 .. GlMaxBackend]
      BY <1>13, <1>a, <1>b, <2>k, <2>w DEF G!LeaderDies, G!GlTypeOK, KeepsGo
    <3>3. glSeed' \in [G!GlBackend -> G!GlSession] /\ glWarm' \in [G!GlBackend -> G!GlSession]
      BY <1>13, <1>a, <1>b, <2>k, <2>w DEF G!LeaderDies, G!GlTypeOK, WarmStays
    <3>4. glLoop' \in [pc : {"off", "idle", "socket", "sid", "attached", "plain"}, b : 0 .. GlMaxBackend]
      BY <1>13, <1>a, <1>b, <2>k, <2>w DEF G!LeaderDies, G!GlTypeOK
    <3>5. glFaults' \in 0 .. GlMaxFaults /\ glCut' \subseteq G!GlBackend /\ glWhy' \subseteq {"refused", "poison"}
      BY <1>13, <1>a, <1>b, <2>k, <2>w DEF G!LeaderDies, G!GlTypeOK
    <3> QED BY <3>1, <3>2, <3>3, <3>4, <3>5 DEF G!GlTypeOK
  <2>2. StartsAlone'
    BY <1>13, <1>a, <1>b, <2>k, <2>w DEF KeepsGo, WarmStays, G!LeaderDies, G!GlTypeOK, StartsAlone
  <2>3. G!LeakComesFrom'
    BY <1>13, <1>a, <1>b, <2>k, <2>w DEF KeepsGo, WarmStays, G!LeaderDies, G!GlTypeOK, G!LeakComesFrom, StartsAlone
  <2>4. G!PairsComeFrom'
    BY <1>13, <1>a, <1>b, <2>k, <2>w DEF KeepsGo, WarmStays, G!LeaderDies, G!GlTypeOK, G!PairsComeFrom, StartsAlone
  <2>5. OneConversation'
    BY <1>13, <1>a, <1>b, <2>k, <2>w DEF KeepsGo, WarmStays, G!LeaderDies, G!GlTypeOK, OneConversation
  <2>6. CalmBackends'
    BY <1>13, <1>a, <1>b, <2>k, <2>w DEF KeepsGo, WarmStays, G!LeaderDies, G!GlTypeOK, CalmBackends, StartsAlone, G!LeakComesFrom, G!PairsComeFrom, OneConversation
  <2> QED BY <2>1, <2>2, <2>3, <2>4, <2>5, <2>6
<1>14. ASSUME NEW b \in G!GlBackend, G!KeepDies(b) PROVE GlInv'
  <2>v. glWarm' = G!WarmWith(glKeep', glLoop, glLeader')
    BY <1>14 DEF G!KeepDies
  <2>u. glKeep' = G!KeepsWithout({b}, {})
    BY <1>14 DEF G!KeepDies
  <2>k. KeepsGo
    BY <2>u, KeepsLeft
  <2>w. WarmStays
    BY <2>v, WarmLeft
  <2>1. G!GlTypeOK'
    <3>1. glFile' \in [of : 0 .. GlMaxBackend, sid : G!GlSession] /\ glSocket' \in 0 .. GlMaxBackend
          /\ glSid' \in G!GlSession /\ glSaved' \in G!GlSession
      BY <1>14, <1>a, <1>b, <2>k, <2>w DEF G!KeepDies, G!GlTypeOK, StartsAlone
    <3>2. glLeader' \in [G!GlBackend -> {"new", "none", "boot", "up"}] /\ glKeep' \in [G!GlBackend -> 0 .. GlMaxBackend]
      BY <1>14, <1>a, <1>b, <2>k, <2>w DEF G!KeepDies, G!GlTypeOK, KeepsGo
    <3>3. glSeed' \in [G!GlBackend -> G!GlSession] /\ glWarm' \in [G!GlBackend -> G!GlSession]
      BY <1>14, <1>a, <1>b, <2>k, <2>w DEF G!KeepDies, G!GlTypeOK, WarmStays
    <3>4. glLoop' \in [pc : {"off", "idle", "socket", "sid", "attached", "plain"}, b : 0 .. GlMaxBackend]
      BY <1>14, <1>a, <1>b, <2>k, <2>w DEF G!KeepDies, G!GlTypeOK
    <3>5. glFaults' \in 0 .. GlMaxFaults /\ glCut' \subseteq G!GlBackend /\ glWhy' \subseteq {"refused", "poison"}
      BY <1>14, <1>a, <1>b, <2>k, <2>w DEF G!KeepDies, G!GlTypeOK
    <3> QED BY <3>1, <3>2, <3>3, <3>4, <3>5 DEF G!GlTypeOK
  <2>2. StartsAlone'
    BY <1>14, <1>a, <1>b, <2>k, <2>w DEF KeepsGo, WarmStays, G!KeepDies, G!GlTypeOK, StartsAlone
  <2>3. G!LeakComesFrom'
    BY <1>14, <1>a, <1>b, <2>k, <2>w DEF KeepsGo, WarmStays, G!KeepDies, G!GlTypeOK, G!LeakComesFrom, StartsAlone
  <2>4. G!PairsComeFrom'
    BY <1>14, <1>a, <1>b, <2>k, <2>w DEF KeepsGo, WarmStays, G!KeepDies, G!GlTypeOK, G!PairsComeFrom, StartsAlone
  <2>5. OneConversation'
    BY <1>14, <1>a, <1>b, <2>k, <2>w DEF KeepsGo, WarmStays, G!KeepDies, G!GlTypeOK, OneConversation
  <2>6. CalmBackends'
    BY <1>14, <1>a, <1>b, <2>k, <2>w DEF KeepsGo, WarmStays, G!KeepDies, G!GlTypeOK, CalmBackends, StartsAlone, G!LeakComesFrom, G!PairsComeFrom, OneConversation
  <2> QED BY <2>1, <2>2, <2>3, <2>4, <2>5, <2>6
<1> QED BY <1>0, <1>1, <1>2, <1>3, <1>4, <1>5, <1>6, <1>7, <1>8, <1>9, <1>10, <1>11, <1>12, <1>13, <1>14 DEF G!GlNext

\* The invariant gives what the run checks.
LEMMA LeaderSuffices == GlInv => G!GlTypeOK /\ G!GlBackendsHold
<1> SUFFICES ASSUME GlInv PROVE G!GlBackendsHold
  BY DEF GlInv
<1>1. glFaults > 0 \/ glFaults = 0
  BY MachineBounds DEF GlInv, G!GlTypeOK
<1>2. G!LossComesFrom
  BY <1>1 DEF GlInv, G!LossComesFrom, OneConversation, CalmBackends
<1> QED BY <1>2 DEF GlInv, G!GlBackendsHold

\* Whichever part is looked at, the backends of grok keep their invariant.
LEMMA LeaderAlways == MCSpec => []GlInv
<1>1. MCInit => GlInv
  BY LeaderStart DEF MCInit
<1>2. GlInv /\ [MCNext]_<<part, dv, tv, sv, gv, lv>> => GlInv'
  <2>1. [MCNext]_<<part, dv, tv, sv, gv, lv>> => G!GlNext \/ UNCHANGED gv
    BY DEF MCNext
  <2> QED BY <2>1, LeaderStep
<1> QED BY <1>1, <1>2, PTL DEF MCSpec

\* No leader of grok runs that cannot be found, no keepalive holds another's leader, and the
\* conversation is not given up, but after the mishaps named there (leader.ts:26-32): for any
\* number of backends and mishaps.
THEOREM LeaderCorrect == MCSpec => [](G!GlTypeOK /\ G!GlBackendsHold)
  BY LeaderAlways, LeaderSuffices, PTL

-----------------------------------------------------------------------------
(* grok in its pane (GrokTmux).                                             *)

TmPaneRec == [life : {"none", "up"}, runs : {"no", "yes"}, done : {"no", "yes"},
              banner : {"no", "failed", "login"}, quiet : 0 .. 2]
TmTurnRec == [phase : {"none", "grace", "poll", "esc", "over"}, tries : 0 .. 3,
              clean : {"no", "yes"}, end : {"", "0", "1", "124"},
              why : {"", "mark", "log", "quiet", "failed", "login", "gone", "startup", "watchdog"},
              met : SUBSET {"mark", "failed", "login", "work", "other"}]

PaneTypes ==
    /\ tmPane \in TmPaneRec /\ tmTurn \in [T!TmTurn -> TmTurnRec]
    /\ tmAsked \subseteq 0 .. TmMaxTurn /\ tmDoing \subseteq 0 .. TmMaxTurn /\ tmServed \subseteq T!TmTurn
    /\ tmHandle \in {"no", "yes"} /\ tmLogin \in {"no", "yes"} /\ tmBusy \in {"no", "yes"}
    /\ tmLatest \in 0 .. TmMaxTurn /\ tmHost \in {"idle", "waiting"} /\ tmExtras \in 0 .. TmMaxExtras

\* The loop waits for a turn that was dispatched.
WaitsForDispatched == tmHost = "waiting" => tmLatest # 0 /\ tmTurn[tmLatest].phase # "none"

\* Turns that are about at once have met; one in its grace has seen no end.
AllMeet == \A t, u \in T!TmTurn : T!Alive(t) /\ T!Alive(u) /\ t # u => "other" \in tmTurn[t].met
GraceIsUnclean == \A t \in T!TmTurn : tmTurn[t].phase = "grace" => tmTurn[t].clean = "no"

\* A turn that is polled, alone from the start and not done, has its prompt with grok,
\* and every sign of an end on the screen was there before.
OwnPrompt == \A t \in T!TmTurn :
    tmTurn[t].phase = "poll" /\ t \notin tmServed /\ tmTurn[t].met \cap {"work", "other"} = {} =>
        /\ tmTurn[t].clean = "no"
        /\ tmPane.life = "up" =>
            /\ t \in tmAsked \cup tmDoing
            /\ t \in tmAsked => tmDoing = {}
            /\ tmPane.done = "yes" => "mark" \in tmTurn[t].met
            /\ tmPane.banner = "failed" => "failed" \in tmTurn[t].met

PaneRest ==
    WaitsForDispatched /\ AllMeet /\ GraceIsUnclean /\ OwnPrompt
    /\ T!DoneComesFrom /\ T!FailComesFrom /\ T!BusyComesFrom
TmInv == PaneTypes /\ PaneRest

\* The types are those the run checks.
LEMMA PaneTypesAre == PaneTypes <=> T!TmTypeOK
  BY DEF PaneTypes, TmPaneRec, TmTurnRec, T!TmTypeOK

\* At first there is no pane.
LEMMA PaneStart == T!TmInit => TmInv
<1> SUFFICES ASSUME T!TmInit PROVE TmInv
  OBVIOUS
<1>0. T!NoTurn \in TmTurnRec /\ T!NoPane \in TmPaneRec /\ T!NoTurn.phase = "none"
  BY DEF T!NoTurn, T!NoPane, TmTurnRec, TmPaneRec
<1>1. PaneTypes
  BY <1>0, MachineBounds DEF T!TmInit, PaneTypes
<1>2. \A t \in T!TmTurn : tmTurn[t].phase = "none"
  BY <1>0 DEF T!TmInit
<1>3. tmHost = "idle"
  BY DEF T!TmInit
<1> QED BY <1>1, <1>2, <1>3 DEF TmInv, PaneRest, WaitsForDispatched, AllMeet, GraceIsUnclean, OwnPrompt,
                    T!DoneComesFrom, T!FailComesFrom, T!BusyComesFrom, T!Alive, T!Over

\* The coroutines other than t go on as they were.
OthersGoOn(t) == \A u \in T!TmTurn : u # t => tmTurn'[u] = tmTurn[u]

\* The end of a turn.
LEMMA Finishes ==
    ASSUME PaneTypes, NEW t \in T!TmTurn, NEW code \in {"0", "1", "124"},
           NEW why \in {"mark", "log", "quiet", "failed", "login", "gone", "startup", "watchdog"},
           T!TmFinish(t, code, why)
    PROVE  /\ tmTurn' \in [T!TmTurn -> TmTurnRec] /\ OthersGoOn(t) /\ tmBusy' = "no"
           /\ tmTurn'[t].phase = "over" /\ tmTurn'[t].end = code /\ tmTurn'[t].why = why
           /\ tmTurn'[t].clean = "no" /\ (t \notin tmServed => tmTurn'[t].met = tmTurn[t].met)
<1> DEFINE r == [T!NoTurn EXCEPT !.phase = "over", !.end = code, !.why = why,
                                 !.met = IF t \in tmServed THEN {} ELSE tmTurn[t].met]
<1>1. tmTurn \in [T!TmTurn -> TmTurnRec] /\ tmTurn[t].met \subseteq {"mark", "failed", "login", "work", "other"}
  BY DEF PaneTypes, TmTurnRec
<1>2. r \in TmTurnRec
  <2> DEFINE me == IF t \in tmServed THEN {} ELSE tmTurn[t].met
  <2>1. me \in SUBSET {"mark", "failed", "login", "work", "other"}
    BY <1>1
  <2>2. T!NoTurn \in TmTurnRec
    BY DEF T!NoTurn, TmTurnRec
  <2> HIDE DEF me
  <2>3. \A x \in TmTurnRec : [x EXCEPT !.phase = "over", !.end = code, !.why = why, !.met = me] \in TmTurnRec
    BY <2>1 DEF TmTurnRec
  <2> QED BY <2>2, <2>3 DEF me
<1>3. r.phase = "over" /\ r.end = code /\ r.why = why /\ r.clean = "no" /\ (t \notin tmServed => r.met = tmTurn[t].met)
  BY DEF T!NoTurn
<1>4. tmTurn' = [tmTurn EXCEPT ![t] = r] /\ tmBusy' = "no"
  BY DEF T!TmFinish
<1> HIDE DEF r
<1>5. tmTurn'[t] = r
  BY <1>1, <1>4
<1>6. tmTurn' \in [T!TmTurn -> TmTurnRec] /\ OthersGoOn(t)
  BY <1>1, <1>2, <1>4 DEF OthersGoOn
<1> QED BY <1>3, <1>4, <1>5, <1>6

\* What a turn may report.
MayReport(t, code, why) ==
    t \notin tmServed =>
        /\ code = "0" => \/ why = "quiet"
                         \/ why = "mark" /\ tmTurn[t].met \cap {"mark", "work", "other"} # {}
                         \/ why = "log" /\ tmTurn[t].met \cap {"work", "other"} # {}
        /\ why = "failed" => tmTurn[t].met \cap {"failed", "work", "other"} # {}

LEMMA FinishKeeps ==
    ASSUME TmInv, NEW t \in T!TmTurn, T!Alive(t), NEW code \in {"0", "1", "124"},
           NEW why \in {"mark", "log", "quiet", "failed", "login", "gone", "startup", "watchdog"},
           T!TmFinish(t, code, why), MayReport(t, code, why),
           UNCHANGED <<tmServed, tmLatest, tmHost>>,
           UNCHANGED <<tmPane, tmAsked, tmDoing>> \/ tmPane'.life = "none"
    PROVE  PaneRest' /\ tmTurn' \in [T!TmTurn -> TmTurnRec]
<1>1. /\ tmTurn' \in [T!TmTurn -> TmTurnRec] /\ OthersGoOn(t) /\ tmBusy' = "no"
      /\ tmTurn'[t].phase = "over" /\ tmTurn'[t].end = code /\ tmTurn'[t].why = why
      /\ tmTurn'[t].clean = "no" /\ (t \notin tmServed => tmTurn'[t].met = tmTurn[t].met)
  BY Finishes DEF TmInv
<1> USE DEF TmInv, PaneRest, OthersGoOn, T!Alive, T!Over
<1>2. WaitsForDispatched'
  <2>1. tmHost = "waiting" => tmLatest \in T!TmTurn
    BY MachineBounds DEF WaitsForDispatched, PaneTypes, T!TmTurn
  <2> QED BY <1>1, <2>1 DEF WaitsForDispatched
<1>3. AllMeet'
  BY <1>1 DEF AllMeet
<1>4. GraceIsUnclean'
  BY <1>1 DEF GraceIsUnclean
<1>5. OwnPrompt'
  BY <1>1 DEF OwnPrompt
<1>6. T!DoneComesFrom'
  BY <1>1 DEF T!DoneComesFrom, MayReport
<1>7. T!FailComesFrom'
  BY <1>1 DEF T!FailComesFrom, MayReport
<1>8. T!BusyComesFrom'
  <2> SUFFICES ASSUME tmHost' = "waiting", tmTurn'[tmLatest'].phase # "over"
               PROVE  "other" \in tmTurn'[tmLatest'].met
    BY DEF T!BusyComesFrom
  <2>1. tmLatest \in T!TmTurn /\ tmLatest # t /\ tmTurn[tmLatest].phase # "none" /\ tmTurn[tmLatest].phase # "over"
    BY <1>1, MachineBounds DEF WaitsForDispatched, PaneTypes, T!TmTurn
  <2>2. tmTurn[tmLatest].phase \in {"none", "grace", "poll", "esc", "over"}
    BY <2>1 DEF PaneTypes, TmTurnRec
  <2> QED BY <1>1, <2>1, <2>2 DEF AllMeet
<1> QED BY <1>1, <1>2, <1>3, <1>4, <1>5, <1>6, <1>7, <1>8

\* The end of a turn at a step: what it may report, and the types.
LEMMA PollStep ==
    ASSUME TmInv, NEW t \in T!TmTurn, T!TmPoll(t)
    PROVE  TmInv'
<1>1. T!Alive(t) /\ tmTurn[t].phase = "poll"
  BY DEF T!TmPoll, T!Alive
<1>2. UNCHANGED <<tmPane, tmAsked, tmDoing, tmServed, tmLogin, tmLatest, tmHost, tmExtras>> /\ tmHandle' \in {"no", tmHandle}
  BY DEF T!TmPoll
<1>3. PICK code \in {"0", "1", "124"}, why \in {"mark", "log", "quiet", "failed", "login", "gone", "startup", "watchdog"} :
         T!TmFinish(t, code, why) /\ MayReport(t, code, why)
  <2>1. CASE tmPane.life = "none" /\ T!TmFinish(t, "1", IF tmLogin = "yes" THEN "gone" ELSE "login")
    BY <2>1 DEF MayReport
  <2>2. CASE T!TmFinish(t, "1", "login")
    BY <2>2 DEF MayReport
  <2>3. CASE tmPane.life = "up" /\ tmPane.banner = "failed" /\ T!TmFinish(t, "1", "failed")
    BY <2>3, <1>1 DEF MayReport, TmInv, PaneRest, OwnPrompt
  <2>4. CASE tmPane.life = "up" /\ T!TmSign(t) # "no" /\ T!TmFinish(t, "0", T!TmSign(t))
    <3>1. CASE tmTurn[t].clean = "yes" /\ T!TmSign(t) = "log"
      BY <2>4, <3>1, <1>1 DEF MayReport, TmInv, PaneRest, OwnPrompt
    <3>2. CASE tmPane.done = "yes" /\ T!TmSign(t) = "mark"
      BY <2>4, <3>2, <1>1 DEF MayReport, TmInv, PaneRest, OwnPrompt
    <3>3. CASE T!TmSign(t) = "quiet"
      BY <2>4, <3>3 DEF MayReport
    <3> QED BY <2>4, <3>1, <3>2, <3>3 DEF T!TmSign
  <2> QED BY <2>1, <2>2, <2>3, <2>4 DEF T!TmPoll
<1>4. PaneRest' /\ tmTurn' \in [T!TmTurn -> TmTurnRec]
  BY <1>1, <1>2, <1>3, FinishKeeps
<1>5. tmBusy' = "no"
  BY <1>3 DEF T!TmFinish
<1> QED BY <1>2, <1>4, <1>5 DEF TmInv, PaneTypes

LEMMA SettleStep ==
    ASSUME TmInv, NEW t \in T!TmTurn, T!TmSettle(t)
    PROVE  TmInv'
<1>1. T!Alive(t)
  BY DEF T!TmSettle, T!Alive
<1>2. UNCHANGED <<tmServed, tmLogin, tmLatest, tmHost, tmExtras>> /\ T!TmFinish(t, "124", "watchdog")
  BY DEF T!TmSettle
<1>3. T!NoPane \in TmPaneRec /\ T!NoPane.life = "none"
  BY DEF T!NoPane, TmPaneRec
<1>4. \/ UNCHANGED <<tmPane, tmAsked, tmDoing, tmHandle>>
      \/ tmPane' = T!NoPane /\ tmAsked' = {} /\ tmDoing' = {} /\ tmHandle' = "no"
  BY DEF T!TmSettle
<1>5. MayReport(t, "124", "watchdog")
  BY DEF MayReport
<1>6. UNCHANGED <<tmPane, tmAsked, tmDoing>> \/ tmPane'.life = "none"
  BY <1>3, <1>4
<1>7. PaneRest' /\ tmTurn' \in [T!TmTurn -> TmTurnRec]
  BY <1>1, <1>2, <1>5, <1>6, FinishKeeps
<1>8. tmBusy' = "no"
  BY <1>2 DEF T!TmFinish
<1> QED BY <1>2, <1>3, <1>4, <1>7, <1>8 DEF TmInv, PaneTypes

\* What the screen shows when a prompt is typed.
LEMMA FoundIs ==
    ASSUME PaneTypes
    PROVE  /\ T!Found \subseteq {"mark", "failed", "login", "work", "other"}
           /\ tmPane.done = "yes" => "mark" \in T!Found
           /\ tmPane.banner = "failed" => "failed" \in T!Found
           /\ "work" \notin T!Found => tmAsked \cup tmDoing = {}
  BY DEF T!Found, PaneTypes, TmPaneRec

\* A prompt is typed, or a pane launched, for a turn with this record.
Typed(t, r) ==
    /\ tmPane' = [tmPane EXCEPT !.quiet = 0]
    /\ tmAsked' = tmAsked \cup {t} /\ tmDoing' = tmDoing /\ tmHandle' = tmHandle
    /\ tmTurn'[t].phase = "poll" /\ tmTurn'[t].clean = r.clean /\ tmTurn'[t].end = r.end
    /\ tmTurn'[t].met = r.met \cup T!Found
Launched(t, r) ==
    /\ tmPane' = [T!NoPane EXCEPT !.life = "up"]
    /\ tmAsked' = {} /\ tmDoing' = {} /\ tmHandle' = "yes"
    /\ tmTurn'[t].phase = "grace" /\ tmTurn'[t].clean = r.clean /\ tmTurn'[t].end = r.end
    /\ tmTurn'[t].met = r.met

LEMMA PromptTyped ==
    ASSUME PaneTypes, NEW t \in T!TmTurn, NEW turns \in [T!TmTurn -> TmTurnRec], T!TmType(t, turns)
    PROVE  /\ Typed(t, turns[t]) /\ tmTurn' \in [T!TmTurn -> TmTurnRec]
           /\ \A u \in T!TmTurn : u # t => tmTurn'[u] = turns[u]
<1> DEFINE r == [turns[t] EXCEPT !.phase = "poll", !.tries = 0, !.met = @ \cup T!Found]
<1>1. turns[t] \in TmTurnRec /\ T!Found \subseteq {"mark", "failed", "login", "work", "other"}
  BY FoundIs
<1>2. r \in TmTurnRec
  <2>1. turns[t].met \cup T!Found \in SUBSET {"mark", "failed", "login", "work", "other"}
    BY <1>1 DEF TmTurnRec
  <2>2. 0 \in 0 .. 3
    OBVIOUS
  <2> QED BY <1>1, <2>1, <2>2 DEF TmTurnRec
<1>3. /\ r.phase = "poll" /\ r.clean = turns[t].clean /\ r.end = turns[t].end
      /\ r.met = turns[t].met \cup T!Found
  BY <1>1 DEF TmTurnRec
<1>4. tmTurn' = [turns EXCEPT ![t] = r]
  BY <1>1 DEF T!TmType, TmTurnRec
<1> HIDE DEF r
<1>5. tmTurn'[t] = r /\ tmTurn' \in [T!TmTurn -> TmTurnRec] /\ \A u \in T!TmTurn : u # t => tmTurn'[u] = turns[u]
  BY <1>2, <1>4
<1>6. tmPane' = [tmPane EXCEPT !.quiet = 0] /\ tmAsked' = tmAsked \cup {t} /\ tmDoing' = tmDoing /\ tmHandle' = tmHandle
  BY DEF T!TmType
<1> QED BY <1>3, <1>5, <1>6 DEF Typed

LEMMA PaneLaunched ==
    ASSUME PaneTypes, NEW t \in T!TmTurn, NEW turns \in [T!TmTurn -> TmTurnRec], NEW tries \in 0 .. 3,
           T!TmLaunch(t, tries, turns)
    PROVE  /\ Launched(t, turns[t]) /\ tmTurn' \in [T!TmTurn -> TmTurnRec]
           /\ \A u \in T!TmTurn : u # t => tmTurn'[u] = turns[u]
<1> DEFINE r == [turns[t] EXCEPT !.phase = "grace", !.tries = tries]
<1>1. turns[t] \in TmTurnRec
  OBVIOUS
<1>2. r \in TmTurnRec
  BY <1>1 DEF TmTurnRec
<1>3. /\ r.phase = "grace" /\ r.clean = turns[t].clean /\ r.end = turns[t].end
      /\ r.met = turns[t].met
  BY <1>1 DEF TmTurnRec
<1>4. tmTurn' = [turns EXCEPT ![t] = r]
  BY <1>1 DEF T!TmLaunch, TmTurnRec
<1> HIDE DEF r
<1>5. tmTurn'[t] = r /\ tmTurn' \in [T!TmTurn -> TmTurnRec] /\ \A u \in T!TmTurn : u # t => tmTurn'[u] = turns[u]
  BY <1>2, <1>4
<1> QED BY <1>3, <1>5 DEF Launched, T!TmLaunch

\* A prompt is typed, or a pane launched, and every other turn that is about has met this one.
Meets(t, r) ==
    /\ \A u \in T!TmTurn : u # t /\ tmTurn'[u].phase \in {"grace", "poll", "esc"} => "other" \in tmTurn'[u].met
    /\ (\E u \in T!TmTurn : u # t /\ tmTurn'[u].phase \in {"grace", "poll", "esc"}) => "other" \in r.met
    /\ \A u \in T!TmTurn : u # t /\ tmTurn'[u].phase = "grace" => tmTurn'[u].clean = "no"
    /\ r.clean = "no"

LEMMA BeginKeeps ==
    ASSUME TmInv, NEW t \in T!TmTurn, NEW r, tmTurn' \in [T!TmTurn -> TmTurnRec],
           Typed(t, r) \/ Launched(t, r), Meets(t, r)
    PROVE  AllMeet' /\ GraceIsUnclean' /\ OwnPrompt' /\ tmPane' \in TmPaneRec
<1> USE DEF T!Alive
<1>0. tmPane \in TmPaneRec /\ PaneTypes
  BY DEF TmInv, PaneTypes
<1>1. tmTurn'[t].phase \in {"poll", "grace"} /\ r.met \subseteq tmTurn'[t].met /\ tmTurn'[t].clean = "no"
  BY DEF Typed, Launched, Meets
<1>2. AllMeet'
  BY <1>1 DEF AllMeet, Meets
<1>3. GraceIsUnclean'
  BY <1>1 DEF GraceIsUnclean, Meets
<1>4. tmPane' \in TmPaneRec /\ (Typed(t, r) => tmPane'.life = tmPane.life /\ tmPane'.done = tmPane.done
                                              /\ tmPane'.banner = tmPane.banner)
  <2>1. CASE Typed(t, r)
    <3>1. 0 \in 0 .. 2 /\ tmPane' = [tmPane EXCEPT !.quiet = 0]
      BY <2>1 DEF Typed
    <3> QED BY <3>1, <1>0 DEF TmPaneRec
  <2>2. CASE Launched(t, r) /\ ~Typed(t, r)
    BY <2>2 DEF Launched, T!NoPane, TmPaneRec
  <2> QED BY <2>1, <2>2
<1>5. OwnPrompt'
  <2> SUFFICES ASSUME NEW u \in T!TmTurn, tmTurn'[u].phase = "poll", u \notin tmServed',
                      tmTurn'[u].met \cap {"work", "other"} = {}
               PROVE  /\ tmTurn'[u].clean = "no"
                      /\ tmPane'.life = "up" =>
                           /\ u \in tmAsked' \cup tmDoing'
                           /\ u \in tmAsked' => tmDoing' = {}
                           /\ tmPane'.done = "yes" => "mark" \in tmTurn'[u].met
                           /\ tmPane'.banner = "failed" => "failed" \in tmTurn'[u].met
    BY DEF OwnPrompt
  <2>1. u = t
    BY DEF Meets
  <2>2. Typed(t, r)
    BY <2>1 DEF Launched
  <2>3. tmTurn'[u].met = r.met \cup T!Found /\ "work" \notin T!Found /\ tmAsked' = tmAsked \cup {u} /\ tmDoing' = tmDoing
    BY <2>1, <2>2 DEF Typed
  <2>4. tmAsked' = {u} /\ tmDoing' = {}
    BY <2>3, <1>0, FoundIs
  <2> QED BY <1>0, <1>1, <1>4, <2>1, <2>2, <2>3, <2>4, FoundIs
<1> QED BY <1>2, <1>3, <1>4, <1>5

\* The grace of a new pane is over.
LEMMA GraceStep ==
    ASSUME TmInv, NEW t \in T!TmTurn, T!TmGrace(t)
    PROVE  TmInv'
<1>1. T!Alive(t) /\ tmTurn[t].phase = "grace"
  BY DEF T!TmGrace, T!Alive
<1>2. UNCHANGED <<tmServed, tmLogin, tmLatest, tmHost, tmExtras>>
  BY DEF T!TmGrace
<1>3. CASE \E why \in {"login", "startup"} : T!TmFinish(t, "1", why) /\ UNCHANGED <<tmPane, tmAsked, tmDoing>> /\ tmHandle' \in {"no", tmHandle}
  <2>1. PICK why \in {"login", "startup"} : T!TmFinish(t, "1", why) /\ UNCHANGED <<tmPane, tmAsked, tmDoing>> /\ tmHandle' \in {"no", tmHandle}
    BY <1>3
  <2>2. MayReport(t, "1", why)
    BY DEF MayReport
  <2>3. PaneRest' /\ tmTurn' \in [T!TmTurn -> TmTurnRec]
    BY <1>1, <1>2, <2>1, <2>2, FinishKeeps
  <2>4. tmBusy' = "no"
    BY <2>1 DEF T!TmFinish
  <2> QED BY <1>2, <2>1, <2>3, <2>4 DEF TmInv, PaneTypes
<1>4. CASE (Typed(t, tmTurn[t]) \/ Launched(t, tmTurn[t])) /\ tmTurn' \in [T!TmTurn -> TmTurnRec] /\ OthersGoOn(t) /\ tmBusy' = tmBusy
  <2>1. tmTurn[t].clean = "no"
    BY <1>1 DEF TmInv, PaneRest, GraceIsUnclean
  <2>3. Meets(t, tmTurn[t])
    BY <1>1, <1>4, <2>1 DEF Meets, OthersGoOn, T!Alive, TmInv, PaneRest, AllMeet, GraceIsUnclean
  <2>4. AllMeet' /\ GraceIsUnclean' /\ OwnPrompt' /\ tmPane' \in TmPaneRec
    BY <1>4, <2>3, BeginKeeps
  <2>5. /\ tmTurn'[t].phase \in {"poll", "grace"} /\ tmTurn[t].met \subseteq tmTurn'[t].met
        /\ tmAsked' \subseteq tmAsked \cup {t} /\ tmDoing' \subseteq tmDoing /\ tmHandle' \in {"yes", tmHandle}
    BY <1>4 DEF Typed, Launched
  <2>6. PaneTypes'
    <3>1. t \in 0 .. TmMaxTurn
      BY MachineBounds DEF T!TmTurn
    <3> QED BY <1>2, <1>4, <2>4, <2>5, <3>1 DEF TmInv, PaneTypes
  <2>7. WaitsForDispatched' /\ T!DoneComesFrom' /\ T!FailComesFrom'
    <3>1. tmHost = "waiting" => tmLatest \in T!TmTurn
      BY MachineBounds DEF TmInv, PaneRest, WaitsForDispatched, PaneTypes, T!TmTurn
    <3> QED BY <1>2, <1>4, <2>5, <3>1 DEF OthersGoOn, TmInv, PaneRest, WaitsForDispatched, T!DoneComesFrom, T!FailComesFrom, T!Over
  <2>8. T!BusyComesFrom'
    <3>1. tmHost = "waiting" => tmLatest \in T!TmTurn
      BY MachineBounds DEF TmInv, PaneRest, WaitsForDispatched, PaneTypes, T!TmTurn
    <3> QED BY <1>1, <1>2, <1>4, <2>5, <3>1 DEF OthersGoOn, TmInv, PaneRest, T!BusyComesFrom, T!Over
  <2> QED BY <2>4, <2>6, <2>7, <2>8 DEF TmInv, PaneRest
<1>5. CASE tmPane.life = "up" /\ tmPane.banner # "login" /\ T!TmType(t, tmTurn) /\ tmBusy' = tmBusy
  <2>1. PaneTypes /\ tmTurn \in [T!TmTurn -> TmTurnRec]
    BY DEF TmInv, PaneTypes
  <2>2. Typed(t, tmTurn[t]) /\ tmTurn' \in [T!TmTurn -> TmTurnRec] /\ OthersGoOn(t)
    BY <1>5, <2>1, PromptTyped DEF OthersGoOn
  <2> QED BY <1>4, <1>5, <2>2
<1>6. CASE T!TmLaunch(t, tmTurn[t].tries + 1, tmTurn) /\ tmTurn[t].tries < 3 /\ tmBusy' = tmBusy
  <2>1. tmTurn[t].tries + 1 \in 0 .. 3 /\ tmTurn \in [T!TmTurn -> TmTurnRec]
    <3>1. tmTurn \in [T!TmTurn -> TmTurnRec] /\ tmTurn[t].tries \in 0 .. 3
      BY DEF TmInv, PaneTypes, TmTurnRec
    <3> HIDE DEF TmInv
    <3> QED BY <1>6, <3>1
  <2> QED BY <1>4, <1>6, <2>1, PaneLaunched DEF TmInv, OthersGoOn
<1>7. CASE T!TmFinish(t, "1", "login") /\ UNCHANGED <<tmPane, tmAsked, tmDoing, tmHandle>>
  BY <1>3, <1>7
<1>8. CASE T!TmFinish(t, "1", IF tmLogin = "yes" THEN "startup" ELSE "login") /\ tmHandle' = "no" /\ UNCHANGED <<tmPane, tmAsked, tmDoing>>
  BY <1>3, <1>8
<1> QED BY <1>5, <1>6, <1>7, <1>8 DEF T!TmGrace

\* The coroutines once a turn is dispatched.
LEMMA JoinedIs ==
    ASSUME PaneTypes, NEW t \in T!TmTurn
    PROVE  /\ T!Joined(t) \in [T!TmTurn -> TmTurnRec]
           /\ T!Joined(t)[t].clean = "no"
           /\ (\E v \in T!TmTurn : T!Alive(v)) => "other" \in T!Joined(t)[t].met
           /\ \A u \in T!TmTurn : u # t /\ T!Alive(u) =>
                 /\ T!Joined(t)[u].phase = tmTurn[u].phase /\ T!Joined(t)[u].clean = tmTurn[u].clean
                 /\ "other" \in T!Joined(t)[u].met
           /\ \A u \in T!TmTurn : u # t /\ ~T!Alive(u) =>
                 T!Joined(t)[u].phase = tmTurn[u].phase /\ T!Joined(t)[u].why = ""
<1>0. \A u \in T!TmTurn : tmTurn[u] \in TmTurnRec
  BY DEF PaneTypes
<1>n. T!NoTurn \in TmTurnRec /\ T!NoTurn.clean = "no" /\ T!NoTurn.why = ""
  BY DEF T!NoTurn, TmTurnRec
<1>1. \A x \in TmTurnRec, m \in SUBSET {"mark", "failed", "login", "work", "other"} :
        [x EXCEPT !.met = m] \in TmTurnRec /\ [x EXCEPT !.met = m].met = m
        /\ [x EXCEPT !.met = m].phase = x.phase /\ [x EXCEPT !.met = m].clean = x.clean
  BY DEF TmTurnRec
<1>2. \A x \in TmTurnRec : x.met \cup {"other"} \in SUBSET {"mark", "failed", "login", "work", "other"}
                           /\ x.phase \in {"none", "grace", "poll", "esc", "over"} /\ x.end \in {"", "0", "1", "124"}
  BY DEF TmTurnRec
<1>3. \A x \in TmTurnRec : [x EXCEPT !.met = @ \cup {"other"}] = [x EXCEPT !.met = x.met \cup {"other"}]
  BY DEF TmTurnRec
<1>4. \A x \in TmTurnRec, p \in {"none", "grace", "poll", "esc", "over"}, e \in {"", "0", "1", "124"} :
        [x EXCEPT !.phase = p, !.end = e] \in TmTurnRec
  BY DEF TmTurnRec
<1>5. \A u \in T!TmTurn : T!Joined(t)[u] =
        IF u = t THEN [T!NoTurn EXCEPT !.met = IF \E v \in T!TmTurn : T!Alive(v) THEN {"other"} ELSE {}]
        ELSE IF T!Alive(u) THEN [tmTurn[u] EXCEPT !.met = @ \cup {"other"}]
        ELSE [T!NoTurn EXCEPT !.phase = tmTurn[u].phase, !.end = tmTurn[u].end]
  BY DEF T!Joined
<1>6. DOMAIN T!Joined(t) = T!TmTurn /\ T!Joined(t) = [u \in T!TmTurn |-> T!Joined(t)[u]]
  BY DEF T!Joined
<1>7. T!Joined(t)[t] \in TmTurnRec /\ T!Joined(t)[t].clean = "no"
      /\ ((\E v \in T!TmTurn : T!Alive(v)) => "other" \in T!Joined(t)[t].met)
  <2> DEFINE m == IF \E v \in T!TmTurn : T!Alive(v) THEN {"other"} ELSE {}
  <2>1. T!Joined(t)[t] = [T!NoTurn EXCEPT !.met = m] /\ m \in SUBSET {"mark", "failed", "login", "work", "other"}
    BY <1>5
  <2>2. (\E v \in T!TmTurn : T!Alive(v)) => "other" \in m
    OBVIOUS
  <2> HIDE DEF m
  <2>3. [T!NoTurn EXCEPT !.met = m] \in TmTurnRec /\ [T!NoTurn EXCEPT !.met = m].met = m
        /\ [T!NoTurn EXCEPT !.met = m].clean = "no"
    BY <2>1, <1>1, <1>n
  <2> QED BY <2>1, <2>2, <2>3
<1>8. \A u \in T!TmTurn : u # t /\ T!Alive(u) =>
        /\ T!Joined(t)[u] \in TmTurnRec
        /\ T!Joined(t)[u].phase = tmTurn[u].phase /\ T!Joined(t)[u].clean = tmTurn[u].clean
        /\ "other" \in T!Joined(t)[u].met
  <2> SUFFICES ASSUME NEW u \in T!TmTurn, u # t, T!Alive(u)
               PROVE  /\ T!Joined(t)[u] \in TmTurnRec
                      /\ T!Joined(t)[u].phase = tmTurn[u].phase /\ T!Joined(t)[u].clean = tmTurn[u].clean
                      /\ "other" \in T!Joined(t)[u].met
    OBVIOUS
  <2>1. T!Joined(t)[u] = [tmTurn[u] EXCEPT !.met = tmTurn[u].met \cup {"other"}]
    BY <1>5, <1>3, <1>0
  <2> DEFINE m == tmTurn[u].met \cup {"other"}
  <2>2. m \in SUBSET {"mark", "failed", "login", "work", "other"} /\ tmTurn[u] \in TmTurnRec /\ "other" \in m
    BY <1>0, <1>2
  <2> HIDE DEF m
  <2>3. /\ [tmTurn[u] EXCEPT !.met = m] \in TmTurnRec /\ [tmTurn[u] EXCEPT !.met = m].met = m
        /\ [tmTurn[u] EXCEPT !.met = m].phase = tmTurn[u].phase /\ [tmTurn[u] EXCEPT !.met = m].clean = tmTurn[u].clean
    BY <2>2, <1>1
  <2> QED BY <2>1, <2>2, <2>3 DEF m
<1>9. \A u \in T!TmTurn : u # t /\ ~T!Alive(u) =>
        T!Joined(t)[u] \in TmTurnRec /\ T!Joined(t)[u].phase = tmTurn[u].phase /\ T!Joined(t)[u].why = ""
  <2> SUFFICES ASSUME NEW u \in T!TmTurn, u # t, ~T!Alive(u)
               PROVE  T!Joined(t)[u] \in TmTurnRec /\ T!Joined(t)[u].phase = tmTurn[u].phase /\ T!Joined(t)[u].why = ""
    OBVIOUS
  <2> DEFINE p == tmTurn[u].phase
  <2> DEFINE e == tmTurn[u].end
  <2>1. T!Joined(t)[u] = [T!NoTurn EXCEPT !.phase = p, !.end = e]
    BY <1>5
  <2>2. p \in {"none", "grace", "poll", "esc", "over"} /\ e \in {"", "0", "1", "124"}
    BY <1>0, <1>2
  <2> HIDE DEF p, e
  <2>3. /\ [T!NoTurn EXCEPT !.phase = p, !.end = e] \in TmTurnRec
        /\ [T!NoTurn EXCEPT !.phase = p, !.end = e].phase = p /\ [T!NoTurn EXCEPT !.phase = p, !.end = e].why = ""
    <3>1. [T!NoTurn EXCEPT !.phase = p, !.end = e] \in TmTurnRec
      BY <2>2, <1>4, <1>n
    <3>2. [T!NoTurn EXCEPT !.phase = p, !.end = e].phase = p
      BY <1>n DEF TmTurnRec
    <3>3. [T!NoTurn EXCEPT !.phase = p, !.end = e].why = ""
      BY <1>n DEF TmTurnRec
    <3> QED BY <3>1, <3>2, <3>3
  <2> QED BY <2>1, <2>3 DEF p
<1>10. \A u \in T!TmTurn : T!Joined(t)[u] \in TmTurnRec
  BY <1>7, <1>8, <1>9
<1> QED BY <1>6, <1>7, <1>8, <1>9, <1>10

\* A turn is dispatched.
LEMMA DispatchStep == TmInv /\ T!TmDispatch => TmInv'
<1> SUFFICES ASSUME TmInv, T!TmDispatch PROVE TmInv'
  OBVIOUS
<1> DEFINE t == tmLatest + 1
<1>t. t \in T!TmTurn /\ t \in 0 .. TmMaxTurn /\ t # 0
  BY MachineBounds DEF T!TmDispatch, TmInv, PaneTypes, T!TmTurn
<1>0. /\ tmLatest' = t /\ tmHost' = "waiting" /\ tmBusy' = "yes" /\ UNCHANGED <<tmLogin, tmExtras>>
      /\ tmServed' = {u \in tmServed : T!Alive(u)}
      /\ (T!TmType(t, T!Joined(t)) \/ T!TmLaunch(t, 1, T!Joined(t)))
  BY DEF T!TmDispatch
<1> HIDE DEF t
<1>a. PaneTypes
  BY DEF TmInv
<1> DEFINE r == T!Joined(t)[t]
<1> DEFINE J == T!Joined(t)
<1>j. /\ J \in [T!TmTurn -> TmTurnRec] /\ r.clean = "no"
      /\ (\E v \in T!TmTurn : T!Alive(v)) => "other" \in r.met
      /\ \A u \in T!TmTurn : u # t /\ T!Alive(u) =>
            J[u].phase = tmTurn[u].phase /\ J[u].clean = tmTurn[u].clean /\ "other" \in J[u].met
      /\ \A u \in T!TmTurn : u # t /\ ~T!Alive(u) => J[u].phase = tmTurn[u].phase /\ J[u].why = ""
  BY <1>a, <1>t, JoinedIs
<1>1. (Typed(t, r) \/ Launched(t, r)) /\ tmTurn' \in [T!TmTurn -> TmTurnRec]
      /\ \A u \in T!TmTurn : u # t => tmTurn'[u] = J[u]
  <2>1. CASE T!TmType(t, J)
    BY <2>1, <1>a, <1>t, <1>j, PromptTyped
  <2>2. CASE T!TmLaunch(t, 1, J)
    <3>1. 1 \in 0 .. 3
      OBVIOUS
    <3> QED BY <2>2, <3>1, <1>a, <1>t, <1>j, PaneLaunched
  <2> QED BY <2>1, <2>2, <1>0
<1> HIDE DEF r, J
<1>2. Meets(t, r)
  BY <1>1, <1>j DEF Meets, T!Alive, TmInv, PaneRest, GraceIsUnclean
<1>3. AllMeet' /\ GraceIsUnclean' /\ OwnPrompt' /\ tmPane' \in TmPaneRec
  BY <1>1, <1>2, <1>t, BeginKeeps
<1>4. /\ tmTurn'[t].phase \in {"poll", "grace"}
      /\ tmAsked' \subseteq tmAsked \cup {t} /\ tmDoing' \subseteq tmDoing /\ tmHandle' \in {"yes", tmHandle}
  BY <1>1 DEF Typed, Launched
<1>5. PaneTypes'
  BY <1>0, <1>1, <1>3, <1>4, <1>a, <1>t DEF PaneTypes
<1>6. WaitsForDispatched' /\ T!BusyComesFrom'
  BY <1>0, <1>t, <1>4 DEF WaitsForDispatched, T!BusyComesFrom
<1>7. T!DoneComesFrom' /\ T!FailComesFrom'
  <2>1. \A u \in T!TmTurn : tmTurn'[u].phase = "over" => tmTurn'[u].why = ""
    BY <1>1, <1>4, <1>j DEF T!Alive
  <2> QED BY <2>1 DEF T!DoneComesFrom, T!FailComesFrom, T!Over
<1> QED BY <1>3, <1>5, <1>6, <1>7 DEF TmInv, PaneRest

\* Twenty minutes are over.
LEMMA WatchdogStep ==
    ASSUME TmInv, NEW t \in T!TmTurn, T!TmWatchdog(t)
    PROVE  TmInv'
<1>0. PaneTypes /\ tmTurn \in [T!TmTurn -> TmTurnRec] /\ tmPane \in TmPaneRec
  BY DEF TmInv, PaneTypes
<1>1. /\ tmTurn[t].phase = "poll" /\ tmTurn' = [tmTurn EXCEPT ![t].phase = "esc"]
      /\ UNCHANGED <<tmAsked, tmServed, tmHandle, tmLogin, tmBusy, tmLatest, tmHost, tmExtras>>
      /\ tmDoing' \subseteq tmDoing
      /\ (tmPane' = tmPane \/ tmPane' = [tmPane EXCEPT !.runs = "no"])
  BY DEF T!TmWatchdog
<1>2. tmTurn' \in [T!TmTurn -> TmTurnRec] /\ OthersGoOn(t) /\ tmTurn'[t].phase = "esc" /\ tmTurn'[t].met = tmTurn[t].met
  <2> DEFINE r == [tmTurn[t] EXCEPT !.phase = "esc"]
  <2>1. r \in TmTurnRec /\ r.phase = "esc" /\ r.met = tmTurn[t].met
    BY <1>0 DEF TmTurnRec
  <2>2. tmTurn' = [tmTurn EXCEPT ![t] = r]
    BY <1>0, <1>1
  <2> HIDE DEF r
  <2> QED BY <1>0, <2>1, <2>2 DEF OthersGoOn
<1>3. tmPane' \in TmPaneRec
  BY <1>0, <1>1 DEF TmPaneRec
<1>4. PaneTypes'
  BY <1>0, <1>1, <1>2, <1>3 DEF PaneTypes
<1>5. AllMeet' /\ GraceIsUnclean'
  BY <1>1, <1>2 DEF TmInv, PaneRest, AllMeet, GraceIsUnclean, OthersGoOn, T!Alive
<1>6. OwnPrompt'
  <2>1. \A u \in T!TmTurn : u # t /\ tmTurn[u].phase = "poll" => "other" \in tmTurn[u].met
    BY <1>1 DEF TmInv, PaneRest, AllMeet, T!Alive
  <2> QED BY <1>2, <2>1 DEF OwnPrompt, OthersGoOn
<1>7. WaitsForDispatched' /\ T!BusyComesFrom'
  <2>1. tmHost = "waiting" => tmLatest \in T!TmTurn
    BY <1>0, MachineBounds DEF TmInv, PaneRest, WaitsForDispatched, PaneTypes, T!TmTurn
  <2> QED BY <1>1, <1>2, <2>1 DEF TmInv, PaneRest, WaitsForDispatched, T!BusyComesFrom, OthersGoOn, T!Over
<1>8. T!DoneComesFrom' /\ T!FailComesFrom'
  BY <1>1, <1>2 DEF TmInv, PaneRest, T!DoneComesFrom, T!FailComesFrom, OthersGoOn, T!Over
<1> QED BY <1>4, <1>5, <1>6, <1>7, <1>8 DEF TmInv, PaneRest

\* grok is done: everything it worked on is served.
LEMMA AgentEndsStep == TmInv /\ T!AgentEnds => TmInv'
<1> SUFFICES ASSUME TmInv, T!AgentEnds PROVE TmInv'
  OBVIOUS
<1>0. PaneTypes /\ tmTurn \in [T!TmTurn -> TmTurnRec] /\ tmPane \in TmPaneRec
  BY DEF TmInv, PaneTypes
<1>1. /\ tmPane.life = "up" /\ tmServed' = tmServed \cup (tmDoing \ {0}) /\ tmDoing' = {}
      /\ UNCHANGED <<tmAsked, tmHandle, tmLogin, tmBusy, tmLatest, tmHost, tmExtras>>
      /\ tmTurn' = [t \in T!TmTurn |-> IF tmTurn[t].phase = "poll" THEN [tmTurn[t] EXCEPT !.clean = "yes"] ELSE tmTurn[t]]
  BY DEF T!AgentEnds
<1>2. tmPane' \in TmPaneRec
  <2>1. PICK x \in {"no", "yes"} : tmPane' = [tmPane EXCEPT !.runs = x, !.done = "yes", !.quiet = 0]
    BY DEF T!AgentEnds
  <2>2. 0 \in 0 .. 2
    OBVIOUS
  <2> QED BY <1>0, <2>1, <2>2 DEF TmPaneRec
<1>3. /\ tmTurn' \in [T!TmTurn -> TmTurnRec]
      /\ \A t \in T!TmTurn :
            /\ tmTurn'[t].phase = tmTurn[t].phase /\ tmTurn'[t].met = tmTurn[t].met
            /\ tmTurn'[t].end = tmTurn[t].end /\ tmTurn'[t].why = tmTurn[t].why
            /\ tmTurn[t].phase # "poll" => tmTurn'[t].clean = tmTurn[t].clean
  <2>1. \A x \in TmTurnRec :
          /\ [x EXCEPT !.clean = "yes"] \in TmTurnRec
          /\ [x EXCEPT !.clean = "yes"].phase = x.phase /\ [x EXCEPT !.clean = "yes"].met = x.met
          /\ [x EXCEPT !.clean = "yes"].end = x.end /\ [x EXCEPT !.clean = "yes"].why = x.why
    BY DEF TmTurnRec
  <2>2. \A t \in T!TmTurn : tmTurn[t] \in TmTurnRec
                             /\ tmTurn'[t] = IF tmTurn[t].phase = "poll" THEN [tmTurn[t] EXCEPT !.clean = "yes"] ELSE tmTurn[t]
    BY <1>0, <1>1
  <2>3. \A t \in T!TmTurn : tmTurn'[t] \in TmTurnRec
    BY <2>1, <2>2
  <2>4. tmTurn' \in [T!TmTurn -> TmTurnRec]
    BY <1>1, <2>3
  <2> QED BY <2>1, <2>2, <2>4
<1>4. PaneTypes'
  <2>1. tmDoing \ {0} \subseteq T!TmTurn
    BY <1>0, MachineBounds DEF PaneTypes, T!TmTurn
  <2> QED BY <1>0, <1>1, <1>2, <1>3, <2>1 DEF PaneTypes
<1>5. AllMeet' /\ GraceIsUnclean'
  BY <1>3 DEF TmInv, PaneRest, AllMeet, GraceIsUnclean, T!Alive
<1>6. OwnPrompt'
  <2> SUFFICES ASSUME NEW t \in T!TmTurn, tmTurn'[t].phase = "poll", t \notin tmServed', tmTurn'[t].met \cap {"work", "other"} = {}
               PROVE  FALSE
    BY DEF OwnPrompt
  <2>1. t # 0
    BY MachineBounds DEF T!TmTurn
  <2>2. t \notin tmServed /\ t \notin tmDoing
    BY <1>1, <2>1
  <2>3. t \in tmAsked /\ tmDoing = {}
    BY <1>1, <1>3, <2>2 DEF TmInv, PaneRest, OwnPrompt
  <2> QED BY <2>3 DEF T!AgentEnds
<1>7. WaitsForDispatched' /\ T!BusyComesFrom'
  <2>1. tmHost = "waiting" => tmLatest \in T!TmTurn
    BY <1>0, MachineBounds DEF TmInv, PaneRest, WaitsForDispatched, PaneTypes, T!TmTurn
  <2> QED BY <1>1, <1>3, <2>1 DEF TmInv, PaneRest, WaitsForDispatched, T!BusyComesFrom, T!Over
<1>8. T!DoneComesFrom' /\ T!FailComesFrom'
  BY <1>1, <1>3 DEF TmInv, PaneRest, T!DoneComesFrom, T!FailComesFrom, T!Over
<1> QED BY <1>4, <1>5, <1>6, <1>7, <1>8 DEF TmInv, PaneRest

\* Every step keeps the invariant.
LEMMA PaneStep == TmInv /\ (T!TmNext \/ UNCHANGED tv) => TmInv'
<1> SUFFICES ASSUME TmInv, T!TmNext \/ UNCHANGED tv PROVE TmInv'
  OBVIOUS
<1>a. PaneTypes /\ tmPane \in TmPaneRec
  BY DEF TmInv, PaneTypes
<1>b. T!NoPane \in TmPaneRec /\ T!NoPane.life = "none"
  BY DEF T!NoPane, TmPaneRec
<1>c. ASSUME UNCHANGED tmTurn PROVE AllMeet' /\ GraceIsUnclean'
  BY <1>c DEF TmInv, PaneRest, AllMeet, GraceIsUnclean, T!Alive
<1> USE DEF PaneRest
<1>1. CASE UNCHANGED tv
  <2>1. tmPane' \in TmPaneRec
    BY <1>1, <1>a, <1>b DEF tv, TmPaneRec
  <2>2. tmExtras' \in 0 .. TmMaxExtras
    BY <1>1, <1>a, MachineBounds DEF tv, PaneTypes
  <2>3. tmTurn' = tmTurn
    BY <1>1 DEF tv
  <2>4. PaneTypes'
    BY <1>1, <1>a, <2>1, <2>2, <2>3 DEF tv, PaneTypes
  <2>5. WaitsForDispatched'
    BY <1>1, <1>a, <1>b, <2>3 DEF tv, TmInv, WaitsForDispatched
  <2>6. OwnPrompt'
    BY <1>1, <1>a, <1>b, <2>3 DEF tv, PaneTypes, TmPaneRec, TmInv, OwnPrompt
  <2>7. T!DoneComesFrom'
    BY <1>1, <1>a, <1>b, <2>3 DEF tv, TmInv, T!DoneComesFrom, T!Over
  <2>8. T!FailComesFrom'
    BY <1>1, <1>a, <1>b, <2>3 DEF tv, TmInv, T!FailComesFrom, T!Over
  <2>9. T!BusyComesFrom'
    BY <1>1, <1>a, <1>b, <2>3 DEF tv, TmInv, T!BusyComesFrom, WaitsForDispatched, T!Over
  <2> QED BY <1>c, <2>3, <2>4, <2>5, <2>6, <2>7, <2>8, <2>9 DEF TmInv
<1>2. CASE T!TmSeesExit
  <2>1. tmPane' \in TmPaneRec
    BY <1>2, <1>a, <1>b DEF T!TmSeesExit, TmPaneRec
  <2>2. tmExtras' \in 0 .. TmMaxExtras
    BY <1>2, <1>a, MachineBounds DEF T!TmSeesExit, PaneTypes
  <2>3. tmTurn' = tmTurn
    BY <1>2 DEF T!TmSeesExit
  <2>4. PaneTypes'
    BY <1>2, <1>a, <2>1, <2>2, <2>3 DEF T!TmSeesExit, PaneTypes
  <2>5. WaitsForDispatched'
    BY <1>2, <1>a, <1>b, <2>3 DEF T!TmSeesExit, TmInv, WaitsForDispatched
  <2>6. OwnPrompt'
    BY <1>2, <1>a, <1>b, <2>3 DEF T!TmSeesExit, PaneTypes, TmPaneRec, TmInv, OwnPrompt
  <2>7. T!DoneComesFrom'
    BY <1>2, <1>a, <1>b, <2>3 DEF T!TmSeesExit, TmInv, T!DoneComesFrom, T!Over
  <2>8. T!FailComesFrom'
    BY <1>2, <1>a, <1>b, <2>3 DEF T!TmSeesExit, TmInv, T!FailComesFrom, T!Over
  <2>9. T!BusyComesFrom'
    BY <1>2, <1>a, <1>b, <2>3 DEF T!TmSeesExit, TmInv, T!BusyComesFrom, WaitsForDispatched, T!Over
  <2> QED BY <1>c, <2>3, <2>4, <2>5, <2>6, <2>7, <2>8, <2>9 DEF TmInv
<1>3. CASE T!TmForceIdle
  <2>1. tmPane' \in TmPaneRec
    BY <1>3, <1>a, <1>b DEF T!TmForceIdle, TmPaneRec
  <2>2. tmExtras' \in 0 .. TmMaxExtras
    BY <1>3, <1>a, MachineBounds DEF T!TmForceIdle, PaneTypes
  <2>3. tmTurn' = tmTurn
    BY <1>3 DEF T!TmForceIdle
  <2>4. PaneTypes'
    BY <1>3, <1>a, <2>1, <2>2, <2>3 DEF T!TmForceIdle, PaneTypes
  <2>5. WaitsForDispatched'
    BY <1>3, <1>a, <1>b, <2>3 DEF T!TmForceIdle, TmInv, WaitsForDispatched
  <2>6. OwnPrompt'
    BY <1>3, <1>a, <1>b, <2>3 DEF T!TmForceIdle, PaneTypes, TmPaneRec, TmInv, OwnPrompt
  <2>7. T!DoneComesFrom'
    BY <1>3, <1>a, <1>b, <2>3 DEF T!TmForceIdle, TmInv, T!DoneComesFrom, T!Over
  <2>8. T!FailComesFrom'
    BY <1>3, <1>a, <1>b, <2>3 DEF T!TmForceIdle, TmInv, T!FailComesFrom, T!Over
  <2>9. T!BusyComesFrom'
    BY <1>3, <1>a, <1>b, <2>3 DEF T!TmForceIdle, TmInv, T!BusyComesFrom, WaitsForDispatched, T!Over
  <2> QED BY <1>c, <2>3, <2>4, <2>5, <2>6, <2>7, <2>8, <2>9 DEF TmInv
<1>4. CASE T!TmSteer
  <2>1. tmPane' \in TmPaneRec
    BY <1>4, <1>a, <1>b DEF T!TmSteer, TmPaneRec
  <2>2. tmExtras' \in 0 .. TmMaxExtras
    BY <1>4, <1>a, MachineBounds DEF T!TmSteer, PaneTypes
  <2>3. tmTurn' = tmTurn
    BY <1>4 DEF T!TmSteer
  <2>4. PaneTypes'
    <3>1. 0 \in 0 .. TmMaxTurn
      BY MachineBounds
    <3> QED BY <1>4, <1>a, <2>1, <2>2, <2>3, <3>1 DEF T!TmSteer, PaneTypes
  <2>5. WaitsForDispatched'
    BY <1>4, <1>a, <1>b, <2>3 DEF T!TmSteer, TmInv, WaitsForDispatched
  <2>6. OwnPrompt'
    <3>1. tmPane'.life = tmPane.life /\ tmPane'.done = tmPane.done /\ tmPane'.banner = tmPane.banner
      BY <1>4, <1>a DEF T!TmSteer, TmPaneRec
    <3>2. tmServed' = tmServed /\ tmDoing' = tmDoing /\ tmAsked' = tmAsked \cup {0}
      BY <1>4 DEF T!TmSteer
    <3>3. \A t \in T!TmTurn : t # 0
      BY MachineBounds DEF T!TmTurn
    <3> QED BY <2>3, <3>1, <3>2, <3>3 DEF TmInv, OwnPrompt
  <2>7. T!DoneComesFrom'
    BY <1>4, <1>a, <1>b, <2>3 DEF T!TmSteer, TmInv, T!DoneComesFrom, T!Over
  <2>8. T!FailComesFrom'
    BY <1>4, <1>a, <1>b, <2>3 DEF T!TmSteer, TmInv, T!FailComesFrom, T!Over
  <2>9. T!BusyComesFrom'
    BY <1>4, <1>a, <1>b, <2>3 DEF T!TmSteer, TmInv, T!BusyComesFrom, WaitsForDispatched, T!Over
  <2> QED BY <1>c, <2>3, <2>4, <2>5, <2>6, <2>7, <2>8, <2>9 DEF TmInv
<1>5. CASE T!TmClose
  <2>1. tmPane' \in TmPaneRec
    BY <1>5, <1>a, <1>b DEF T!TmClose, TmPaneRec
  <2>2. tmExtras' \in 0 .. TmMaxExtras
    BY <1>5, <1>a, MachineBounds DEF T!TmClose, PaneTypes
  <2>3. tmTurn' = tmTurn
    BY <1>5 DEF T!TmClose
  <2>4. PaneTypes'
    BY <1>5, <1>a, <2>1, <2>2, <2>3 DEF T!TmClose, PaneTypes
  <2>5. WaitsForDispatched'
    BY <1>5, <1>a, <1>b, <2>3 DEF T!TmClose, TmInv, WaitsForDispatched
  <2>6. OwnPrompt'
    BY <1>5, <1>a, <1>b, <2>3 DEF T!TmClose, PaneTypes, TmPaneRec, TmInv, OwnPrompt
  <2>7. T!DoneComesFrom'
    BY <1>5, <1>a, <1>b, <2>3 DEF T!TmClose, TmInv, T!DoneComesFrom, T!Over
  <2>8. T!FailComesFrom'
    BY <1>5, <1>a, <1>b, <2>3 DEF T!TmClose, TmInv, T!FailComesFrom, T!Over
  <2>9. T!BusyComesFrom'
    BY <1>5, <1>a, <1>b, <2>3 DEF T!TmClose, TmInv, T!BusyComesFrom, WaitsForDispatched, T!Over
  <2> QED BY <1>c, <2>3, <2>4, <2>5, <2>6, <2>7, <2>8, <2>9 DEF TmInv
<1>6. CASE T!AgentTakes
  <2>1. tmPane' \in TmPaneRec
    <3>1. tmPane' = [tmPane EXCEPT !.runs = "yes", !.quiet = 0] /\ 0 \in 0 .. 2
      BY <1>6 DEF T!AgentTakes
    <3> QED BY <3>1, <1>a DEF TmPaneRec
  <2>2. tmExtras' \in 0 .. TmMaxExtras
    BY <1>6, <1>a, MachineBounds DEF T!AgentTakes, PaneTypes
  <2>3. tmTurn' = tmTurn
    BY <1>6 DEF T!AgentTakes
  <2>4. PaneTypes'
    BY <1>6, <1>a, <2>1, <2>2, <2>3 DEF T!AgentTakes, PaneTypes
  <2>5. WaitsForDispatched'
    BY <1>6, <1>a, <1>b, <2>3 DEF T!AgentTakes, TmInv, WaitsForDispatched
  <2>6. OwnPrompt'
    BY <1>6, <1>a, <1>b, <2>3 DEF T!AgentTakes, PaneTypes, TmPaneRec, TmInv, OwnPrompt
  <2>7. T!DoneComesFrom'
    BY <1>6, <1>a, <1>b, <2>3 DEF T!AgentTakes, TmInv, T!DoneComesFrom, T!Over
  <2>8. T!FailComesFrom'
    BY <1>6, <1>a, <1>b, <2>3 DEF T!AgentTakes, TmInv, T!FailComesFrom, T!Over
  <2>9. T!BusyComesFrom'
    BY <1>6, <1>a, <1>b, <2>3 DEF T!AgentTakes, TmInv, T!BusyComesFrom, WaitsForDispatched, T!Over
  <2> QED BY <1>c, <2>3, <2>4, <2>5, <2>6, <2>7, <2>8, <2>9 DEF TmInv
<1>7. CASE T!AgentFails
  <2>1. tmPane' \in TmPaneRec
    <3>1. PICK x \in {"failed", "login"} : tmPane' = [tmPane EXCEPT !.runs = "no", !.banner = x, !.quiet = 0]
      BY <1>7 DEF T!AgentFails
    <3>2. 0 \in 0 .. 2
      OBVIOUS
    <3> QED BY <3>1, <3>2, <1>a DEF TmPaneRec
  <2>2. tmExtras' \in 0 .. TmMaxExtras
    BY <1>7, <1>a, MachineBounds DEF T!AgentFails, PaneTypes
  <2>3. tmTurn' = tmTurn
    BY <1>7 DEF T!AgentFails
  <2>4. PaneTypes'
    <3>1. tmDoing \ {0} \subseteq T!TmTurn
      BY <1>a, MachineBounds DEF PaneTypes, T!TmTurn
    <3> QED BY <1>7, <1>a, <2>1, <2>2, <2>3, <3>1 DEF T!AgentFails, PaneTypes
  <2>5. WaitsForDispatched'
    BY <1>7, <1>a, <1>b, <2>3 DEF T!AgentFails, TmInv, WaitsForDispatched
  <2>6. OwnPrompt'
    <3> SUFFICES ASSUME NEW t \in T!TmTurn, tmTurn'[t].phase = "poll", t \notin tmServed', tmTurn'[t].met \cap {"work", "other"} = {}
                 PROVE  FALSE
      BY DEF OwnPrompt
    <3>1. tmPane.life = "up" /\ tmDoing # {} /\ tmServed' = tmServed \cup (tmDoing \ {0})
      BY <1>7 DEF T!AgentFails
    <3>2. t # 0
      BY MachineBounds DEF T!TmTurn
    <3> QED BY <2>3, <3>1, <3>2 DEF TmInv, OwnPrompt
  <2>7. T!DoneComesFrom'
    BY <1>7, <1>a, <1>b, <2>3 DEF T!AgentFails, TmInv, T!DoneComesFrom, T!Over
  <2>8. T!FailComesFrom'
    BY <1>7, <1>a, <1>b, <2>3 DEF T!AgentFails, TmInv, T!FailComesFrom, T!Over
  <2>9. T!BusyComesFrom'
    BY <1>7, <1>a, <1>b, <2>3 DEF T!AgentFails, TmInv, T!BusyComesFrom, WaitsForDispatched, T!Over
  <2> QED BY <1>c, <2>3, <2>4, <2>5, <2>6, <2>7, <2>8, <2>9 DEF TmInv
<1>8. CASE T!PaneDies
  <2>1. tmPane' \in TmPaneRec
    BY <1>8, <1>a, <1>b DEF T!PaneDies, TmPaneRec
  <2>2. tmExtras' \in 0 .. TmMaxExtras
    BY <1>8, <1>a, MachineBounds DEF T!PaneDies, PaneTypes
  <2>3. tmTurn' = tmTurn
    BY <1>8 DEF T!PaneDies
  <2>4. PaneTypes'
    BY <1>8, <1>a, <2>1, <2>2, <2>3 DEF T!PaneDies, PaneTypes
  <2>5. WaitsForDispatched'
    BY <1>8, <1>a, <1>b, <2>3 DEF T!PaneDies, TmInv, WaitsForDispatched
  <2>6. OwnPrompt'
    BY <1>8, <1>a, <1>b, <2>3 DEF T!PaneDies, PaneTypes, TmPaneRec, TmInv, OwnPrompt
  <2>7. T!DoneComesFrom'
    BY <1>8, <1>a, <1>b, <2>3 DEF T!PaneDies, TmInv, T!DoneComesFrom, T!Over
  <2>8. T!FailComesFrom'
    BY <1>8, <1>a, <1>b, <2>3 DEF T!PaneDies, TmInv, T!FailComesFrom, T!Over
  <2>9. T!BusyComesFrom'
    BY <1>8, <1>a, <1>b, <2>3 DEF T!PaneDies, TmInv, T!BusyComesFrom, WaitsForDispatched, T!Over
  <2> QED BY <1>c, <2>3, <2>4, <2>5, <2>6, <2>7, <2>8, <2>9 DEF TmInv
<1>9. CASE T!LoginChanges
  <2>1. tmPane' \in TmPaneRec
    BY <1>9, <1>a, <1>b DEF T!LoginChanges, TmPaneRec
  <2>2. tmExtras' \in 0 .. TmMaxExtras
    BY <1>9, <1>a, MachineBounds DEF T!LoginChanges, PaneTypes
  <2>3. tmTurn' = tmTurn
    BY <1>9 DEF T!LoginChanges
  <2>4. PaneTypes'
    BY <1>9, <1>a, <2>1, <2>2, <2>3 DEF T!LoginChanges, PaneTypes
  <2>5. WaitsForDispatched'
    BY <1>9, <1>a, <1>b, <2>3 DEF T!LoginChanges, TmInv, WaitsForDispatched
  <2>6. OwnPrompt'
    BY <1>9, <1>a, <1>b, <2>3 DEF T!LoginChanges, PaneTypes, TmPaneRec, TmInv, OwnPrompt
  <2>7. T!DoneComesFrom'
    BY <1>9, <1>a, <1>b, <2>3 DEF T!LoginChanges, TmInv, T!DoneComesFrom, T!Over
  <2>8. T!FailComesFrom'
    BY <1>9, <1>a, <1>b, <2>3 DEF T!LoginChanges, TmInv, T!FailComesFrom, T!Over
  <2>9. T!BusyComesFrom'
    BY <1>9, <1>a, <1>b, <2>3 DEF T!LoginChanges, TmInv, T!BusyComesFrom, WaitsForDispatched, T!Over
  <2> QED BY <1>c, <2>3, <2>4, <2>5, <2>6, <2>7, <2>8, <2>9 DEF TmInv
<1>10. CASE T!ScreenRests
  <2>1. tmPane' \in TmPaneRec
    BY <1>10, <1>a, <1>b DEF T!ScreenRests, TmPaneRec
  <2>2. tmExtras' \in 0 .. TmMaxExtras
    BY <1>10, <1>a, MachineBounds DEF T!ScreenRests, PaneTypes
  <2>3. tmTurn' = tmTurn
    BY <1>10 DEF T!ScreenRests
  <2>4. PaneTypes'
    BY <1>10, <1>a, <2>1, <2>2, <2>3 DEF T!ScreenRests, PaneTypes
  <2>5. WaitsForDispatched'
    BY <1>10, <1>a, <1>b, <2>3 DEF T!ScreenRests, TmInv, WaitsForDispatched
  <2>6. OwnPrompt'
    BY <1>10, <1>a, <1>b, <2>3 DEF T!ScreenRests, PaneTypes, TmPaneRec, TmInv, OwnPrompt
  <2>7. T!DoneComesFrom'
    BY <1>10, <1>a, <1>b, <2>3 DEF T!ScreenRests, TmInv, T!DoneComesFrom, T!Over
  <2>8. T!FailComesFrom'
    BY <1>10, <1>a, <1>b, <2>3 DEF T!ScreenRests, TmInv, T!FailComesFrom, T!Over
  <2>9. T!BusyComesFrom'
    BY <1>10, <1>a, <1>b, <2>3 DEF T!ScreenRests, TmInv, T!BusyComesFrom, WaitsForDispatched, T!Over
  <2> QED BY <1>c, <2>3, <2>4, <2>5, <2>6, <2>7, <2>8, <2>9 DEF TmInv
<1> QED BY DispatchStep, AgentEndsStep, GraceStep, PollStep, WatchdogStep, SettleStep, <1>1, <1>2, <1>3, <1>4, <1>5, <1>6, <1>7, <1>8, <1>9, <1>10 DEF T!TmNext

\* The invariant gives what the run checks.
LEMMA PaneSuffices == TmInv => T!TmTypeOK /\ T!TurnsAreOwn
  BY PaneTypesAre DEF TmInv, PaneRest, T!TurnsAreOwn

\* Whichever part is looked at, the turns in the pane keep their invariant.
LEMMA PaneAlways == MCSpec => []TmInv
<1>1. MCInit => TmInv
  BY PaneStart DEF MCInit
<1>2. TmInv /\ [MCNext]_<<part, dv, tv, sv, gv, lv>> => TmInv'
  <2>1. [MCNext]_<<part, dv, tv, sv, gv, lv>> => T!TmNext \/ UNCHANGED tv
    BY DEF MCNext
  <2> QED BY <2>1, PaneStep
<1> QED BY <1>1, <1>2, PTL DEF MCSpec

\* A turn in the pane reports its own end, and the loop knows it to be under way, unless old
\* signs on the screen, earlier work or another coroutine came between (tui.ts:1169-1232): for
\* any number of turns and mishaps.
THEOREM PaneCorrect == MCSpec => [](T!TmTypeOK /\ T!TurnsAreOwn)
  BY PaneAlways, PaneSuffices, PTL

-----------------------------------------------------------------------------
(* The loops of a workspace (LoopLifecycle).                                *)

\* A loop process.
LcProcess ==
    [st : {"free", "boot", "run", "up", "dead"}, by : {"sup", "user"},
     state : {"idle", "running", "stopping"}, runs : Nat, waits : Nat, late : BOOLEAN,
     resume : {"off", "on"}, parent : BOOLEAN]

LcTypes ==
    /\ lcSup \in {"up", "stopping", "gone"}
    /\ lcPoll \in [LcPoll -> {"idle", "roster", "online", "offline", "creds"}]
    /\ lcStarting \in BOOLEAN /\ lcMarker \in BOOLEAN /\ lcBlind \in BOOLEAN /\ lcPassed \in BOOLEAN
    /\ lcChild \in LcLoop \cup {"none"}
    /\ lcLoop \in [LcLoop -> LcProcess]
    /\ lcLock \in [owner : LcLoop \cup {"none"}, fresh : BOOLEAN]
    /\ lcResume \in {"unset", "off", "on"}
    /\ lcWants \in {"run", "stopped"}

\* A workspace that was stopped has its marker and no loop, nor is one about to be spawned.
NothingComes ==
    lcWants = "stopped" /\ ~lcPassed =>
        /\ lcMarker /\ L!Live = {}
        /\ \A k \in LcPoll : lcPoll[k] # "creds"

\* As long as every loop that started saw the locks of the others, one has begun at most.
OneBegun ==
    ~lcBlind => \A l, m \in LcLoop :
        lcLoop[l].st \in {"run", "up"} /\ lcLoop[m].st \in {"run", "up"} => l = m

\* A process runs the loop once, unless a restart waited in vain.
RunsOnce == \A l \in LcLoop :
    ~lcLoop[l].late =>
        \/ lcLoop[l].state = "idle" /\ lcLoop[l].runs = 0
        \/ lcLoop[l].state \in {"running", "stopping"} /\ lcLoop[l].runs = 1

\* The supervisor's loop is its child, and it spawns one for one poll at a time, when it
\* has none.
ChildIsKnown ==
    lcSup = "up" =>
        /\ \A l \in L!Live : lcLoop[l].by = "sup" => lcChild = l
        /\ \A k \in LcPoll : lcPoll[k] = "creds" =>
            /\ lcStarting /\ lcChild = "none"
            /\ \A j \in LcPoll : lcPoll[j] = "creds" => j = k

LcInv == LcTypes /\ NothingComes /\ OneBegun /\ RunsOnce /\ ChildIsKnown

\* At first there is no loop.
LEMMA LoopsStart == L!LcInit => LcInv
<1> SUFFICES ASSUME L!LcInit PROVE LcInv
  OBVIOUS
<1>0. L!NoLoop \in LcProcess /\ L!NoLoop.st = "free" /\ L!NoLoop.state = "idle" /\ L!NoLoop.runs = 0
  BY DEF L!NoLoop, LcProcess
<1>1. LcTypes
  BY <1>0 DEF L!LcInit, LcTypes, L!None
<1>2. \A l \in LcLoop : lcLoop[l] = L!NoLoop
  BY DEF L!LcInit
<1>3. L!Live = {} /\ lcWants = "run" /\ \A k \in LcPoll : lcPoll[k] = "idle"
  BY <1>0, <1>2 DEF L!LcInit, L!Live
<1> QED BY <1>0, <1>1, <1>2, <1>3 DEF LcInv, NothingComes, OneBegun, RunsOnce, ChildIsKnown

\* One loop process becomes another.
LoopBecomes(l, r) == lcLoop'[l] = r /\ \A m \in LcLoop : m # l => lcLoop'[m] = lcLoop[m]
LEMMA LoopSet ==
    ASSUME LcTypes, NEW l \in LcLoop, NEW r \in LcProcess, lcLoop' = [lcLoop EXCEPT ![l] = r]
    PROVE  lcLoop' \in [LcLoop -> LcProcess] /\ LoopBecomes(l, r)
  BY DEF LcTypes, LoopBecomes

\* Every step keeps the invariant.
LEMMA LoopsStep == LcInv /\ (L!LcNext \/ UNCHANGED lv) => LcInv'
<1> SUFFICES ASSUME LcInv, L!LcNext \/ UNCHANGED lv PROVE LcInv'
  OBVIOUS
<1> USE DEF LcInv
<1>0. CASE UNCHANGED lv
  BY <1>0 DEF lv, LcTypes, NothingComes, OneBegun, RunsOnce, ChildIsKnown, L!Live
<1>a. \A l \in LcLoop : l # "none" /\ lcLoop[l] \in LcProcess
  BY MachineNames DEF LcTypes
<1>b. L!NoLoop \in LcProcess /\ L!NoLoop.st = "free" /\ L!NoLoop.state = "idle" /\ L!NoLoop.runs = 0 /\ L!NoLoop.late = FALSE
  BY DEF L!NoLoop, LcProcess
<1> USE DEF L!Live, L!None
<1>1. CASE L!PollBegins
  <2>1. LcTypes'
    BY <1>1, <1>a, <1>b DEF L!PollBegins, L!HistoryKept, L!Idle, LcTypes, LcProcess
  <2>2. NothingComes'
    BY <1>1, <1>a, <1>b DEF L!PollBegins, L!HistoryKept, L!Idle, LcTypes, LcProcess, NothingComes
  <2>3. OneBegun'
    BY <1>1, <1>a, <1>b DEF L!PollBegins, L!HistoryKept, L!Idle, LcTypes, LcProcess, OneBegun
  <2>4. RunsOnce'
    BY <1>1, <1>a, <1>b DEF L!PollBegins, L!HistoryKept, L!Idle, LcTypes, LcProcess, RunsOnce
  <2>5. ChildIsKnown'
    BY <1>1, <1>a, <1>b DEF L!PollBegins, L!HistoryKept, L!Idle, LcTypes, LcProcess, ChildIsKnown
  <2> QED BY <2>1, <2>2, <2>3, <2>4, <2>5
<1>2. ASSUME NEW k \in LcPoll, L!RosterSays(k) PROVE LcInv'
  <2>1. LcTypes'
    BY <1>2, <1>a, <1>b DEF L!RosterSays, L!HistoryKept, LcTypes, LcProcess
  <2>2. NothingComes'
    BY <1>2, <1>a, <1>b DEF L!RosterSays, L!HistoryKept, LcTypes, LcProcess, NothingComes
  <2>3. OneBegun'
    BY <1>2, <1>a, <1>b DEF L!RosterSays, L!HistoryKept, LcTypes, LcProcess, OneBegun
  <2>4. RunsOnce'
    BY <1>2, <1>a, <1>b DEF L!RosterSays, L!HistoryKept, LcTypes, LcProcess, RunsOnce
  <2>5. ChildIsKnown'
    BY <1>2, <1>a, <1>b DEF L!RosterSays, L!HistoryKept, LcTypes, LcProcess, ChildIsKnown
  <2> QED BY <2>1, <2>2, <2>3, <2>4, <2>5
<1>3. ASSUME NEW k \in LcPoll, L!PollJudges(k) PROVE LcInv'
  <2>1. LcTypes'
    BY <1>3, <1>a, <1>b DEF L!PollJudges, L!HistoryKept, L!Startable, LcTypes, LcProcess
  <2>2. NothingComes'
    BY <1>3, <1>a, <1>b DEF L!PollJudges, L!HistoryKept, L!Startable, LcTypes, LcProcess, NothingComes
  <2>3. OneBegun'
    BY <1>3, <1>a, <1>b DEF L!PollJudges, L!HistoryKept, L!Startable, LcTypes, LcProcess, OneBegun
  <2>4. RunsOnce'
    BY <1>3, <1>a, <1>b DEF L!PollJudges, L!HistoryKept, L!Startable, LcTypes, LcProcess, RunsOnce
  <2>5. ChildIsKnown'
    <3>1. lcSup' = lcSup /\ lcChild' = lcChild /\ lcLoop' = lcLoop /\ lcStarting' = (lcStarting \/ L!Startable(k))
      BY <1>3 DEF L!PollJudges
    <3>2. \A j \in LcPoll : lcPoll'[j] = IF j = k THEN (IF L!Startable(k) THEN "creds" ELSE "idle") ELSE lcPoll[j]
      BY <1>3 DEF L!PollJudges, LcTypes
    <3>3. L!Startable(k) => lcChild = "none" /\ ~lcStarting
      BY DEF L!Startable
    <3>4. lcStarting \in BOOLEAN
      BY DEF LcTypes
    <3>5. lcSup = "up" => \A j \in LcPoll : lcPoll'[j] = "creds" =>
            lcStarting' /\ lcChild' = "none" /\ \A i \in LcPoll : lcPoll'[i] = "creds" => i = j
      BY <3>1, <3>2, <3>3, <3>4 DEF ChildIsKnown
    <3> QED BY <3>1, <3>5 DEF ChildIsKnown
  <2> QED BY <2>1, <2>2, <2>3, <2>4, <2>5
<1>4. ASSUME NEW k \in LcPoll, L!StartAgent(k) PROVE LcInv'
  <2>n. \/ /\ L!New \in LcLoop /\ lcLoop[L!New].st = "free" /\ lcLoop' = [lcLoop EXCEPT ![L!New] = L!Spawned("sup")]
           /\ lcChild' = L!New /\ lcResume' \in {"off", lcResume} /\ lcFaults' = lcFaults
           /\ (lcResume = "unset" => lcResume' = "off")
        \/ UNCHANGED <<lcLoop, lcChild, lcResume>>
    <3>1. L!Free # {} => L!New \in L!Free
      BY DEF L!New
    <3>2. L!New \in L!Free => L!New \in LcLoop /\ lcLoop[L!New].st = "free"
      BY DEF L!Free
    <3>3. L!Bound(lcResume) \in {"off", lcResume} /\ (lcResume = "unset" => L!Bound(lcResume) = "off")
      BY DEF L!Bound
    <3> QED BY <1>4, <3>1, <3>2, <3>3 DEF L!StartAgent
  <2>s. /\ L!Spawned("sup") \in LcProcess /\ L!Spawned("sup").st = "boot" /\ L!Spawned("sup").by = "sup"
        /\ L!Spawned("sup").state = "idle" /\ L!Spawned("sup").runs = 0
    BY DEF L!Spawned, L!NoLoop, LcProcess
  <2>l. lcLoop' \in [LcLoop -> LcProcess]
        /\ (lcLoop' = lcLoop \/ (L!New \in LcLoop /\ LoopBecomes(L!New, L!Spawned("sup")) /\ lcLoop[L!New].st = "free" /\ lcChild' = L!New))
    <3>1. LcTypes /\ lcLoop \in [LcLoop -> LcProcess]
      BY DEF LcTypes
    <3> QED BY <2>n, <2>s, <3>1, LoopSet
  <2>p. /\ lcPoll[k] = "creds" /\ lcPoll' = [lcPoll EXCEPT ![k] = "idle"] /\ lcStarting' = FALSE
        /\ UNCHANGED <<lcSup, lcLock, lcMarker, lcWants, lcPassed, lcBlind>>
    BY <1>4 DEF L!StartAgent, L!HistoryKept
  <2>1. LcTypes'
    BY <2>n, <2>l, <2>p DEF LcTypes
  <2>2. NothingComes'
    BY <1>4, <1>a, <1>b DEF L!StartAgent, L!HistoryKept, L!Free, L!New, L!Spawned, L!Bound, LcTypes, LcProcess, NothingComes
  <2>3. OneBegun'
    BY <2>l, <2>p, <2>s DEF OneBegun, LoopBecomes
  <2>4. RunsOnce'
    BY <2>l, <2>s DEF RunsOnce, LoopBecomes
  <2>5. ChildIsKnown'
    <3>1. \A j \in LcPoll : lcPoll'[j] = IF j = k THEN "idle" ELSE lcPoll[j]
      BY <2>p DEF LcTypes
    <3>2. lcSup = "up" => \A j \in LcPoll : lcPoll'[j] # "creds"
      BY <2>p, <3>1 DEF ChildIsKnown
    <3>3. lcSup = "up" => lcChild = "none" /\ \A m \in LcLoop : m \in L!Live => lcLoop[m].by # "sup"
      BY <2>p, <1>a DEF ChildIsKnown
    <3>4. lcSup = "up" => \A m \in L!Live' : lcLoop'[m].by = "sup" => lcChild' = m
      BY <2>l, <2>n, <3>3 DEF LoopBecomes
    <3> QED BY <2>p, <3>2, <3>4 DEF ChildIsKnown
  <2> QED BY <2>1, <2>2, <2>3, <2>4, <2>5
<1>5. CASE L!Shutdown
  <2>1. LcTypes'
    BY <1>5, <1>a, <1>b DEF L!Shutdown, L!HistoryKept, LcTypes, LcProcess
  <2>2. NothingComes'
    BY <1>5, <1>a, <1>b DEF L!Shutdown, L!HistoryKept, LcTypes, LcProcess, NothingComes
  <2>3. OneBegun'
    BY <1>5, <1>a, <1>b DEF L!Shutdown, L!HistoryKept, LcTypes, LcProcess, OneBegun
  <2>4. RunsOnce'
    BY <1>5, <1>a, <1>b DEF L!Shutdown, L!HistoryKept, LcTypes, LcProcess, RunsOnce
  <2>5. ChildIsKnown'
    BY <1>5, <1>a, <1>b DEF L!Shutdown, L!HistoryKept, LcTypes, LcProcess, ChildIsKnown
  <2> QED BY <2>1, <2>2, <2>3, <2>4, <2>5
<1>6. CASE L!Exits \/ L!SupKilled
  <2>e. /\ lcSup' = "gone" /\ lcPoll' = [k \in LcPoll |-> "idle"] /\ lcStarting' = FALSE
        /\ UNCHANGED <<lcChild, lcLoop, lcLock, lcMarker, lcResume, lcWants, lcPassed, lcBlind>>
    BY <1>6 DEF L!Exits, L!SupKilled, L!Ends, L!HistoryKept
  <2>1. LcTypes'
    BY <2>e DEF LcTypes
  <2>2. NothingComes'
    BY <2>e DEF NothingComes
  <2>3. OneBegun'
    BY <2>e DEF OneBegun
  <2>4. RunsOnce'
    BY <2>e DEF RunsOnce
  <2>5. ChildIsKnown'
    BY <2>e DEF ChildIsKnown
  <2> QED BY <2>1, <2>2, <2>3, <2>4, <2>5
<1>7. ASSUME NEW l \in LcLoop, L!Boots(l) PROVE LcInv'
  <2>r. L!Resumes(lcResume) \in {"off", "on"}
    BY DEF L!Resumes, LcTypes
  <2>t. LcTypes /\ lcLoop[l] \in LcProcess /\ lcLoop[l].st = "boot"
    BY <1>7, <1>a DEF L!Boots
  <2>b. \/ L!Dies(l) /\ UNCHANGED <<lcMarker, lcResume, lcBlind>>
        \/ /\ ~L!Owned(l) /\ lcMarker' = FALSE /\ lcResume' = L!Resumes(lcResume) /\ lcLoop' = L!Begun(l)
           /\ lcBlind' = (lcBlind \/ L!Unseen(l)) /\ lcChild' = lcChild
    BY <1>7 DEF L!Boots
  <2>u. UNCHANGED <<lcSup, lcPoll, lcStarting, lcLock, lcUser, lcRestart, lcFaults, lcWants, lcSaidOff, lcPassed>>
    BY <1>7 DEF L!Boots
  <2> DEFINE r == [lcLoop[l] EXCEPT !.st = "run", !.state = "running", !.runs = 1, !.resume = L!Resumes(lcResume),
                                !.parent = L!ParentThere(l)]
  <2>c. r \in LcProcess /\ r.st = "run" /\ r.state = "running" /\ r.runs = 1 /\ r.by = lcLoop[l].by /\ r.late = lcLoop[l].late
    BY <2>r, <2>t DEF LcProcess, L!ParentThere
  <2>d. L!Begun(l) = [lcLoop EXCEPT ![l] = r]
    BY <2>t DEF L!Begun, LcTypes, LcProcess
  <2> DEFINE x == [L!NoLoop EXCEPT !.st = "dead"]
  <2>x. x \in LcProcess /\ x.st = "dead" /\ x.state = "idle" /\ x.runs = 0
    BY <1>b DEF LcProcess
  <2>y. L!Dies(l) => lcLoop' = [lcLoop EXCEPT ![l] = x] /\ lcChild' \in {"none", lcChild} /\ (lcChild' # lcChild => lcChild = l)
    BY DEF L!Dies
  <2> HIDE DEF r, x
  <2>l. \/ /\ lcLoop' \in [LcLoop -> LcProcess] /\ LoopBecomes(l, x) /\ UNCHANGED <<lcMarker, lcResume, lcBlind>>
           /\ lcChild' \in {"none", lcChild} /\ (lcChild' # lcChild => lcChild = l)
        \/ /\ lcLoop' \in [LcLoop -> LcProcess] /\ LoopBecomes(l, r) /\ lcMarker' = FALSE
           /\ lcResume' = L!Resumes(lcResume) /\ lcBlind' = (lcBlind \/ L!Unseen(l)) /\ lcChild' = lcChild /\ ~L!Owned(l)
    BY <2>b, <2>c, <2>d, <2>t, <2>x, <2>y, LoopSet
  <2>1. LcTypes'
    <3>1. lcBlind \in BOOLEAN /\ L!Unseen(l) \in BOOLEAN
      BY DEF LcTypes, L!Unseen
    <3>2. lcBlind' \in BOOLEAN /\ lcMarker' \in BOOLEAN /\ lcResume' \in {"unset", "off", "on"}
      BY <2>l, <2>r, <3>1 DEF LcTypes
    <3>3. lcChild' \in LcLoop \cup {"none"} /\ lcLoop' \in [LcLoop -> LcProcess]
      BY <2>l DEF LcTypes
    <3> QED BY <2>u, <3>2, <3>3 DEF LcTypes
  <2>2. NothingComes'
    BY <1>7, <1>a, <1>b DEF L!Boots, L!Owned, L!Unseen, L!Begun, L!Resumes, L!Dies, LcTypes, LcProcess, NothingComes
  <2>3. OneBegun'
    <3>1. CASE LoopBecomes(l, x) /\ lcBlind' = lcBlind
      BY <2>x, <3>1 DEF OneBegun, LoopBecomes
    <3>2. CASE LoopBecomes(l, r) /\ lcBlind' = (lcBlind \/ L!Unseen(l)) /\ ~L!Owned(l)
      <4>1. ~lcBlind' => \A m \in L!Live : m = l
        <5>1. lcBlind' = FALSE \/ lcBlind' = TRUE
          BY <3>2, <2>t DEF LcTypes
        <5>2. ~lcBlind' => ~L!Unseen(l)
          BY <3>2
        <5>3. ~L!Unseen(l) => \A m \in L!Live \ {l} : lcLock.owner = m /\ lcLock.fresh
          BY <2>t DEF L!Unseen, LcTypes
        <5>4. (\A m \in L!Live \ {l} : lcLock.owner = m /\ lcLock.fresh) => L!Live \ {l} = {}
          BY <3>2 DEF L!Owned
        <5> QED BY <5>2, <5>3, <5>4
      <4> QED BY <3>2, <4>1 DEF OneBegun, LoopBecomes
    <3> QED BY <2>l, <3>1, <3>2
  <2>4. RunsOnce'
    BY <1>7, <1>a, <1>b DEF L!Boots, L!Owned, L!Unseen, L!Begun, L!Resumes, L!Dies, LcTypes, LcProcess, RunsOnce
  <2>5. ChildIsKnown'
    BY <1>7, <1>a, <1>b DEF L!Boots, L!Owned, L!Unseen, L!Begun, L!Resumes, L!Dies, LcTypes, LcProcess, ChildIsKnown
  <2> QED BY <2>1, <2>2, <2>3, <2>4, <2>5
<1>8. ASSUME NEW l \in LcLoop, L!Connects(l) PROVE LcInv'
  <2>1. LcTypes'
    BY <1>8, <1>a, <1>b DEF L!Connects, L!HistoryKept, LcTypes, LcProcess
  <2>2. NothingComes'
    BY <1>8, <1>a, <1>b DEF L!Connects, L!HistoryKept, LcTypes, LcProcess, NothingComes
  <2>3. OneBegun'
    BY <1>8, <1>a, <1>b DEF L!Connects, L!HistoryKept, LcTypes, LcProcess, OneBegun
  <2>4. RunsOnce'
    BY <1>8, <1>a, <1>b DEF L!Connects, L!HistoryKept, LcTypes, LcProcess, RunsOnce
  <2>5. ChildIsKnown'
    BY <1>8, <1>a, <1>b DEF L!Connects, L!HistoryKept, LcTypes, LcProcess, ChildIsKnown
  <2> QED BY <2>1, <2>2, <2>3, <2>4, <2>5
<1>9. ASSUME NEW l \in LcLoop, L!Crashes(l) PROVE LcInv'
  <2>1. LcTypes'
    BY <1>9, <1>a, <1>b DEF L!Crashes, L!Dies, L!HistoryKept, LcTypes, LcProcess
  <2>2. NothingComes'
    BY <1>9, <1>a, <1>b DEF L!Crashes, L!Dies, L!HistoryKept, LcTypes, LcProcess, NothingComes
  <2>3. OneBegun'
    BY <1>9, <1>a, <1>b DEF L!Crashes, L!Dies, L!HistoryKept, LcTypes, LcProcess, OneBegun
  <2>4. RunsOnce'
    BY <1>9, <1>a, <1>b DEF L!Crashes, L!Dies, L!HistoryKept, LcTypes, LcProcess, RunsOnce
  <2>5. ChildIsKnown'
    BY <1>9, <1>a, <1>b DEF L!Crashes, L!Dies, L!HistoryKept, LcTypes, LcProcess, ChildIsKnown
  <2> QED BY <2>1, <2>2, <2>3, <2>4, <2>5
<1>10. ASSUME NEW l \in LcLoop, L!ParentGone(l) PROVE LcInv'
  <2>1. LcTypes'
    BY <1>10, <1>a, <1>b DEF L!ParentGone, L!Dies, L!HistoryKept, LcTypes, LcProcess
  <2>2. NothingComes'
    BY <1>10, <1>a, <1>b DEF L!ParentGone, L!Dies, L!HistoryKept, LcTypes, LcProcess, NothingComes
  <2>3. OneBegun'
    BY <1>10, <1>a, <1>b DEF L!ParentGone, L!Dies, L!HistoryKept, LcTypes, LcProcess, OneBegun
  <2>4. RunsOnce'
    BY <1>10, <1>a, <1>b DEF L!ParentGone, L!Dies, L!HistoryKept, LcTypes, LcProcess, RunsOnce
  <2>5. ChildIsKnown'
    BY <1>10, <1>a, <1>b DEF L!ParentGone, L!Dies, L!HistoryKept, LcTypes, LcProcess, ChildIsKnown
  <2> QED BY <2>1, <2>2, <2>3, <2>4, <2>5
<1>11. ASSUME NEW l \in LcLoop, L!RestartAsked(l) PROVE LcInv'
  <2>t. LcTypes /\ lcLoop[l] \in LcProcess
    BY <1>a
  <2>x. PICK r \in LcProcess : lcLoop' = [lcLoop EXCEPT ![l] = r]
    <3> DEFINE r == [lcLoop[l] EXCEPT !.waits = lcLoop[l].waits + 1,
                       !.state = IF lcLoop[l].state = "running" THEN "stopping" ELSE lcLoop[l].state, !.st = "run"]
    <3>1. lcLoop' = [lcLoop EXCEPT ![l] = r]
      BY <1>11, <2>t DEF L!RestartAsked, LcTypes, LcProcess
    <3>2. lcLoop[l].waits + 1 \in Nat
      BY <2>t DEF LcProcess
    <3>3. r \in LcProcess
      BY <2>t, <3>2 DEF LcProcess
    <3> QED BY <3>1, <3>3
  <2>l. lcLoop' \in [LcLoop -> LcProcess]
    BY <2>t, <2>x, LoopSet
  <2>1. LcTypes'
    BY <1>11, <2>l DEF L!RestartAsked, L!HistoryKept, LcTypes
  <2>2. NothingComes'
    BY <1>11, <1>a, <1>b DEF L!RestartAsked, L!HistoryKept, LcTypes, LcProcess, NothingComes
  <2>3. OneBegun'
    BY <1>11, <1>a, <1>b DEF L!RestartAsked, L!HistoryKept, LcTypes, LcProcess, OneBegun
  <2>4. RunsOnce'
    BY <1>11, <1>a, <1>b DEF L!RestartAsked, L!HistoryKept, LcTypes, LcProcess, RunsOnce
  <2>5. ChildIsKnown'
    BY <1>11, <1>a, <1>b DEF L!RestartAsked, L!HistoryKept, LcTypes, LcProcess, ChildIsKnown
  <2> QED BY <2>1, <2>2, <2>3, <2>4, <2>5
<1>12. ASSUME NEW l \in LcLoop, L!RunEnds(l) PROVE LcInv'
  <2>t. LcTypes /\ lcLoop[l] \in LcProcess
    BY <1>a
  <2>x. PICK r \in LcProcess : lcLoop' = [lcLoop EXCEPT ![l] = r]
    <3> DEFINE r == [lcLoop[l] EXCEPT !.runs = lcLoop[l].runs - 1, !.state = "idle"]
    <3>1. lcLoop' = [lcLoop EXCEPT ![l] = r]
      BY <1>12, <2>t DEF L!RunEnds, LcTypes, LcProcess
    <3>2. lcLoop[l].runs - 1 \in Nat
      BY <1>12, <2>t DEF L!RunEnds, LcProcess
    <3>3. r \in LcProcess
      BY <2>t, <3>2 DEF LcProcess
    <3> QED BY <3>1, <3>3
  <2>l. lcLoop' \in [LcLoop -> LcProcess]
    BY <2>t, <2>x, LoopSet
  <2>1. LcTypes'
    BY <1>12, <2>l DEF L!RunEnds, L!HistoryKept, LcTypes
  <2>2. NothingComes'
    BY <1>12, <1>a, <1>b DEF L!RunEnds, L!HistoryKept, LcTypes, LcProcess, NothingComes
  <2>3. OneBegun'
    BY <1>12, <1>a, <1>b DEF L!RunEnds, L!HistoryKept, LcTypes, LcProcess, OneBegun
  <2>4. RunsOnce'
    BY <1>12, <1>a, <1>b DEF L!RunEnds, L!HistoryKept, LcTypes, LcProcess, RunsOnce
  <2>5. ChildIsKnown'
    BY <1>12, <1>a, <1>b DEF L!RunEnds, L!HistoryKept, LcTypes, LcProcess, ChildIsKnown
  <2> QED BY <2>1, <2>2, <2>3, <2>4, <2>5
<1>13. ASSUME NEW l \in LcLoop, L!RestartGoes(l) PROVE LcInv'
  <2>t. LcTypes /\ lcLoop[l] \in LcProcess
    BY <1>a
  <2>x. PICK r \in LcProcess : lcLoop' = [lcLoop EXCEPT ![l] = r]
    <3>1. lcLoop' = [lcLoop EXCEPT ![l] = L!Started(l, FALSE)]
      BY <1>13 DEF L!RestartGoes
    <3>2. lcLoop[l].waits - 1 \in Nat /\ lcLoop[l].runs + 1 \in Nat /\ (lcLoop[l].late \/ FALSE) \in BOOLEAN
      BY <1>13, <2>t DEF L!RestartGoes, LcProcess
    <3>3. L!Resumes(lcResume) \in {"off", "on"}
      BY DEF L!Resumes, LcTypes
    <3>4. [lcLoop[l] EXCEPT !.waits = lcLoop[l].waits - 1] \in LcProcess
      BY <2>t, <3>2 DEF LcProcess
    <3>5. [lcLoop[l] EXCEPT !.waits = lcLoop[l].waits - 1, !.state = "running", !.runs = lcLoop[l].runs + 1,
                            !.late = lcLoop[l].late \/ FALSE, !.resume = L!Resumes(lcResume)] \in LcProcess
      BY <2>t, <3>2, <3>3 DEF LcProcess
    <3>6. L!Started(l, FALSE) \in LcProcess
      BY <2>t, <3>4, <3>5 DEF L!Started, LcProcess
    <3> QED BY <3>1, <3>6
  <2>l. lcLoop' \in [LcLoop -> LcProcess]
    BY <2>t, <2>x, LoopSet
  <2>1. LcTypes'
    BY <1>13, <2>l DEF L!RestartGoes, L!HistoryKept, L!Resumes, LcTypes
  <2>2. NothingComes'
    BY <1>13, <1>a, <1>b DEF L!RestartGoes, L!HistoryKept, L!Started, L!Resumes, LcTypes, LcProcess, NothingComes
  <2>3. OneBegun'
    BY <1>13, <1>a, <1>b DEF L!RestartGoes, L!HistoryKept, L!Started, L!Resumes, LcTypes, LcProcess, OneBegun
  <2>4. RunsOnce'
    BY <1>13, <1>a, <1>b DEF L!RestartGoes, L!HistoryKept, L!Started, L!Resumes, LcTypes, LcProcess, RunsOnce
  <2>5. ChildIsKnown'
    BY <1>13, <1>a, <1>b DEF L!RestartGoes, L!HistoryKept, L!Started, L!Resumes, LcTypes, LcProcess, ChildIsKnown
  <2> QED BY <2>1, <2>2, <2>3, <2>4, <2>5
<1>14. ASSUME NEW l \in LcLoop, L!RestartWaitsNoLonger(l) PROVE LcInv'
  <2>t. LcTypes /\ lcLoop[l] \in LcProcess
    BY <1>a
  <2>x. PICK r \in LcProcess : lcLoop' = [lcLoop EXCEPT ![l] = r] /\ r.late = TRUE
    <3>1. lcLoop' = [lcLoop EXCEPT ![l] = L!Started(l, TRUE)]
      BY <1>14 DEF L!RestartWaitsNoLonger
    <3>2. lcLoop[l].waits - 1 \in Nat /\ lcLoop[l].runs + 1 \in Nat /\ (lcLoop[l].late \/ TRUE) \in BOOLEAN
      BY <1>14, <2>t DEF L!RestartWaitsNoLonger, LcProcess
    <3>3. L!Resumes(lcResume) \in {"off", "on"}
      BY DEF L!Resumes, LcTypes
    <3>4. [lcLoop[l] EXCEPT !.waits = lcLoop[l].waits - 1] \in LcProcess
      BY <2>t, <3>2 DEF LcProcess
    <3>5. [lcLoop[l] EXCEPT !.waits = lcLoop[l].waits - 1, !.state = "running", !.runs = lcLoop[l].runs + 1,
                            !.late = lcLoop[l].late \/ TRUE, !.resume = L!Resumes(lcResume)] \in LcProcess
      BY <2>t, <3>2, <3>3 DEF LcProcess
    <3>6. L!Started(l, TRUE) \in LcProcess
      BY <2>t, <3>4, <3>5 DEF L!Started, LcProcess
    <3>7. L!Started(l, TRUE).late = TRUE
      <4>1. L!Started(l, TRUE) = [lcLoop[l] EXCEPT !.waits = lcLoop[l].waits - 1, !.state = "running", !.runs = lcLoop[l].runs + 1,
                            !.late = lcLoop[l].late \/ TRUE, !.resume = L!Resumes(lcResume)]
        BY <1>14, <2>t DEF L!Started, L!RestartWaitsNoLonger, LcProcess
      <4> QED BY <4>1, <2>t DEF LcProcess
    <3> QED BY <3>1, <3>6, <3>7
  <2>l. lcLoop' \in [LcLoop -> LcProcess]
    BY <2>t, <2>x, LoopSet
  <2>1. LcTypes'
    BY <1>14, <2>l DEF L!RestartWaitsNoLonger, L!HistoryKept, L!Resumes, LcTypes
  <2>2. NothingComes'
    BY <1>14, <1>a, <1>b DEF L!RestartWaitsNoLonger, L!HistoryKept, L!Started, L!Resumes, LcTypes, LcProcess, NothingComes
  <2>3. OneBegun'
    BY <1>14, <1>a, <1>b DEF L!RestartWaitsNoLonger, L!HistoryKept, L!Started, L!Resumes, LcTypes, LcProcess, OneBegun
  <2>4. RunsOnce'
    <3>1. LoopBecomes(l, r) /\ r.late = TRUE
      BY <2>t, <2>x, LoopSet
    <3> QED BY <3>1 DEF RunsOnce, LoopBecomes
  <2>5. ChildIsKnown'
    BY <1>14, <1>a, <1>b DEF L!RestartWaitsNoLonger, L!HistoryKept, L!Started, L!Resumes, LcTypes, LcProcess, ChildIsKnown
  <2> QED BY <2>1, <2>2, <2>3, <2>4, <2>5
<1>15. CASE L!LockAges
  <2>1. LcTypes'
    BY <1>15, <1>a, <1>b DEF L!LockAges, L!HistoryKept, LcTypes, LcProcess
  <2>2. NothingComes'
    BY <1>15, <1>a, <1>b DEF L!LockAges, L!HistoryKept, LcTypes, LcProcess, NothingComes
  <2>3. OneBegun'
    BY <1>15, <1>a, <1>b DEF L!LockAges, L!HistoryKept, LcTypes, LcProcess, OneBegun
  <2>4. RunsOnce'
    BY <1>15, <1>a, <1>b DEF L!LockAges, L!HistoryKept, LcTypes, LcProcess, RunsOnce
  <2>5. ChildIsKnown'
    BY <1>15, <1>a, <1>b DEF L!LockAges, L!HistoryKept, LcTypes, LcProcess, ChildIsKnown
  <2> QED BY <2>1, <2>2, <2>3, <2>4, <2>5
<1>16. CASE L!UserStops
  <2>1. LcTypes'
    BY <1>16, <1>a, <1>b DEF L!UserStops, L!UserActs, LcTypes, LcProcess
  <2>2. NothingComes'
    <3> SUFFICES ASSUME ~lcPassed' PROVE lcMarker' /\ L!Live' = {} /\ \A k \in LcPoll : lcPoll'[k] # "creds"
      BY DEF NothingComes
    <3>1. (\A k \in LcPoll : lcPoll[k] # "creds") /\ (\A l \in LcLoop : lcLoop[l].st # "boot")
      BY <1>16 DEF L!UserStops
    <3>2. \A l \in LcLoop : lcLoop'[l] = IF lcLoop[l].st \in {"run", "up"} THEN [L!NoLoop EXCEPT !.st = "dead"] ELSE lcLoop[l]
      BY <1>16 DEF L!UserStops
    <3>3. [L!NoLoop EXCEPT !.st = "dead"].st = "dead"
      BY DEF L!NoLoop
    <3>4. \A l \in LcLoop : lcLoop'[l].st \notin {"boot", "run", "up"}
      BY <3>1, <3>2, <3>3
    <3> QED BY <1>16, <3>1, <3>4 DEF L!UserStops
  <2>3. OneBegun'
    BY <1>16, <1>a, <1>b DEF L!UserStops, L!UserActs, LcTypes, LcProcess, OneBegun
  <2>4. RunsOnce'
    BY <1>16, <1>a, <1>b DEF L!UserStops, L!UserActs, LcTypes, LcProcess, RunsOnce
  <2>5. ChildIsKnown'
    BY <1>16, <1>a, <1>b DEF L!UserStops, L!UserActs, LcTypes, LcProcess, ChildIsKnown
  <2> QED BY <2>1, <2>2, <2>3, <2>4, <2>5
<1>17. CASE L!UserStarts
  <2>1. LcTypes'
    BY <1>17, <1>a, <1>b DEF L!UserStarts, L!UserActs, L!Free, L!New, L!Spawned, LcTypes, LcProcess
  <2>2. NothingComes'
    BY <1>17, <1>a, <1>b DEF L!UserStarts, L!UserActs, L!Free, L!New, L!Spawned, LcTypes, LcProcess, NothingComes
  <2>3. OneBegun'
    BY <1>17, <1>a, <1>b DEF L!UserStarts, L!UserActs, L!Free, L!New, L!Spawned, LcTypes, LcProcess, OneBegun
  <2>4. RunsOnce'
    BY <1>17, <1>a, <1>b DEF L!UserStarts, L!UserActs, L!Free, L!New, L!Spawned, LcTypes, LcProcess, RunsOnce
  <2>5. ChildIsKnown'
    BY <1>17, <1>a, <1>b DEF L!UserStarts, L!UserActs, L!Free, L!New, L!Spawned, LcTypes, LcProcess, ChildIsKnown
  <2> QED BY <2>1, <2>2, <2>3, <2>4, <2>5
<1>18. CASE L!UserSaysOff
  <2>1. LcTypes'
    BY <1>18, <1>a, <1>b DEF L!UserSaysOff, L!UserActs, LcTypes, LcProcess
  <2>2. NothingComes'
    BY <1>18, <1>a, <1>b DEF L!UserSaysOff, L!UserActs, LcTypes, LcProcess, NothingComes
  <2>3. OneBegun'
    BY <1>18, <1>a, <1>b DEF L!UserSaysOff, L!UserActs, LcTypes, LcProcess, OneBegun
  <2>4. RunsOnce'
    BY <1>18, <1>a, <1>b DEF L!UserSaysOff, L!UserActs, LcTypes, LcProcess, RunsOnce
  <2>5. ChildIsKnown'
    BY <1>18, <1>a, <1>b DEF L!UserSaysOff, L!UserActs, LcTypes, LcProcess, ChildIsKnown
  <2> QED BY <2>1, <2>2, <2>3, <2>4, <2>5
<1> QED BY <1>0, <1>1, <1>2, <1>3, <1>4, <1>5, <1>6, <1>7, <1>8, <1>9, <1>10, <1>11, <1>12, <1>13, <1>14, <1>15, <1>16, <1>17, <1>18 DEF L!LcNext

\* The invariant gives what the run checks.
LEMMA LoopsSuffice == LcInv => L!LcTypeOK /\ L!StoppedStays /\ L!OneLoopRuns /\ L!OneChild
<1> SUFFICES ASSUME LcInv PROVE L!LcTypeOK /\ L!StoppedStays /\ L!OneLoopRuns /\ L!OneChild
  OBVIOUS
<1>1. L!LcTypeOK
  BY DEF LcInv, LcTypes, LcProcess, L!LcTypeOK, L!None
<1>2. L!StoppedStays
  BY DEF LcInv, NothingComes, L!StoppedStays
<1>3. \A X : L!Cardinality(X) = Cardinality(X)
  BY DEF L!Cardinality, Cardinality
<1>4. L!Cardinality(L!Online) > 1 => lcBlind
  <2>1. CASE ~lcBlind
    <3>1. \A l, m \in L!Online : l = m
      BY <2>1 DEF LcInv, OneBegun, L!Online
    <3>2. IsFiniteSet(L!Online) /\ Cardinality(L!Online) <= 1
      BY <3>1, AtMostOne
    <3>3. Cardinality(L!Online) \in Nat
      BY <3>2, FS_CardinalityType
    <3> QED BY <3>2, <3>3, <1>3
  <2>2. CASE lcBlind
    BY <2>2
  <2> QED BY <2>1, <2>2
<1>5. \A l \in LcLoop : lcLoop[l].runs > 1 => lcLoop[l].late
  <2> SUFFICES ASSUME NEW l \in LcLoop, ~lcLoop[l].late PROVE ~(lcLoop[l].runs > 1)
    OBVIOUS
  <2>1. lcLoop[l].runs = 0 \/ lcLoop[l].runs = 1
    BY DEF LcInv, RunsOnce
  <2> QED BY <2>1
<1>6. L!OneChild
  <2> DEFINE X == {l \in L!Live : lcLoop[l].by = "sup"}
  <2>1. CASE lcSup = "up"
    <3>1. \A l, m \in X : l = m
      BY <2>1 DEF LcInv, ChildIsKnown
    <3> HIDE DEF X
    <3>2. Cardinality(X) <= 1
      BY <3>1, AtMostOne
    <3> QED BY <3>2, <1>3 DEF L!OneChild, X
  <2>2. CASE lcSup # "up"
    BY <2>2 DEF L!OneChild
  <2> QED BY <2>1, <2>2
<1> QED BY <1>1, <1>2, <1>4, <1>5, <1>6 DEF L!OneLoopRuns

\* Whichever part is looked at, the loops of a workspace keep their invariant.
LEMMA LoopsAlways == MCSpec => []LcInv
<1>1. MCInit => LcInv
  BY LoopsStart DEF MCInit
<1>2. LcInv /\ [MCNext]_<<part, dv, tv, sv, gv, lv>> => LcInv'
  <2>1. [MCNext]_<<part, dv, tv, sv, gv, lv>> => L!LcNext \/ UNCHANGED lv
    BY DEF MCNext
  <2> QED BY <2>1, LoopsStep
<1> QED BY <1>1, <1>2, PTL DEF MCSpec

\* A workspace that was stopped stays stopped, one loop is online at most and runs once, and the
\* supervisor has one loop of its own, but for the races named there (office.ts,
\* start.ts, taskLoop.ts: restart): for any number of processes, polls, restarts and crashes.
THEOREM LoopsCorrect == MCSpec => [](L!LcTypeOK /\ L!StoppedStays /\ L!OneLoopRuns /\ L!OneChild)
  BY LoopsAlways, LoopsSuffice, PTL

-----------------------------------------------------------------------------
\* What the processes of one machine keep from each other: the four parts together.
THEOREM MachineCorrect == MCSpec => []MachineHolds
<1>1. /\ T!TmTypeOK /\ T!TurnsAreOwn /\ S!LsTypeOK /\ S!SlotHolds /\ G!GlTypeOK /\ G!GlBackendsHold
      /\ L!LcTypeOK /\ L!StoppedStays /\ L!OneLoopRuns /\ L!OneChild
      => MachineHolds
  BY DEF MachineHolds, GrokHolds, LoopsHold
<1> QED BY <1>1, SlotCorrect, LeaderCorrect, PaneCorrect, LoopsCorrect, PTL
=============================================================================
