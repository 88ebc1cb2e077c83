---------------------------- MODULE CliExitProofs ----------------------------
(***************************************************************************)
(* What holds of the exit decisions for every size of the hooks tail and    *)
(* every number of hook events.                                             *)
(***************************************************************************)
EXTENDS CliExit, TLAPS, WellFoundedInduction

(* decide() answers with one of the six kinds of CliExitDecision.            *)
LEMMA DecideType ==
    ASSUME NEW m, NEW o, NEW l, NEW z, NEW e, NEW r \in BOOLEAN
    PROVE  Decide(m, o, l, z, e, r) \in Decisions
  BY DEF Decide, InProgressExit, UntouchedExit, Decisions

(* An answer depends on the one-shot flag as the comments say: a reminder    *)
(* only before it is set, giving up only after.                             *)
LEMMA DecideReminder ==
    ASSUME NEW m, NEW o, NEW l, NEW z, NEW e, NEW r \in BOOLEAN
    PROVE  /\ Decide(m, o, l, z, e, r) = "remind" => ~r
           /\ Decide(m, o, l, z, e, r) = "give_up" => r
  BY DEF Decide, InProgressExit, UntouchedExit

(* Every state of the handler is well typed, whatever the provider writes.   *)
THEOREM TypeCorrect == Spec => [](TypeOK /\ GiveUpAfterReminder)
<1>1. Init => TypeOK /\ GiveUpAfterReminder
  <2> SUFFICES ASSUME Init PROVE TypeOK /\ GiveUpAfterReminder
    OBVIOUS
  <2>1. log \in Seq(Events)
    <3>1. CASE log = <<>>
      BY <3>1
    <3>2. CASE \E k \in Kinds : log = <<[kind |-> k, turn |-> 0]>>
      <4>1. PICK k \in Kinds : log = <<[kind |-> k, turn |-> 0]>>
        BY <3>2
      <4>2. [kind |-> k, turn |-> 0] \in Events
        BY DEF Events
      <4> QED
        BY <4>1, <4>2
    <3> QED
      BY <3>1, <3>2 DEF Init
  <2>2. exit \in [nonZero : BOOLEAN, stdoutError : BOOLEAN]
    BY DEF Init, NoExit
  <2>3. /\ mark \in {"todo", "wip"} /\ othersOpen \in BOOLEAN /\ turn = 1
        /\ running = TRUE /\ reminderSent = FALSE /\ decision = "none"
    BY DEF Init
  <2>4. TypeOK
    <3>1. mark \in Markers
      BY <2>3 DEF Markers
    <3>2. turn \in 1..2 
      BY <2>3
    <3>3. /\ othersOpen \in BOOLEAN /\ running \in BOOLEAN /\ reminderSent \in BOOLEAN
          /\ decision \in Decisions \cup {"none"}
      BY <2>3, Zenon
    <3> QED
      BY <2>1, <2>2, <3>1, <3>2, <3>3, Zenon DEF TypeOK
  <2>5. turn # 2 /\ ~reminderSent /\ decision # "give_up"
    BY <2>3
  <2> QED
    BY <2>4, <2>5, Zenon DEF GiveUpAfterReminder
<1>2. TypeOK /\ GiveUpAfterReminder /\ [Next]_vars => (TypeOK /\ GiveUpAfterReminder)'
  <2> SUFFICES ASSUME TypeOK, GiveUpAfterReminder, [Next]_vars
               PROVE  (TypeOK /\ GiveUpAfterReminder)'
    OBVIOUS
  <2>1. CASE \E k \in Kinds : Emit(k)
    <3>1. PICK k \in Kinds : Emit(k)
      BY <2>1
    <3>2. [kind |-> k, turn |-> turn] \in Events
      BY DEF TypeOK, Events
    <3>3. log' \in Seq(Events)
      BY <3>1, <3>2 DEF Emit, TypeOK
    <3> QED
      BY <3>1, <3>3 DEF Emit, TypeOK, GiveUpAfterReminder
  <2>2. CASE Edit
    BY <2>2 DEF Edit, TypeOK, GiveUpAfterReminder
  <2>3. CASE \E nonZero, stdoutError \in BOOLEAN : ProcessExit(nonZero, stdoutError)
    <3>1. PICK z \in BOOLEAN, e \in BOOLEAN : ProcessExit(z, e)
      BY <2>3
    <3> DEFINE d == Decide(mark, othersOpen, log, z, e, reminderSent)
    <3>2. d \in Decisions /\ (d = "remind" => ~reminderSent) /\ (d = "give_up" => reminderSent)
      BY DecideType, DecideReminder DEF TypeOK
    <3>3. /\ decision' = d
          /\ reminderSent' = (reminderSent \/ d = "remind")
          /\ turn' = IF d = "remind" THEN turn + 1 ELSE turn
          /\ running' = (d = "remind")
          /\ exit' = [nonZero |-> z, stdoutError |-> e]
          /\ UNCHANGED <<mark, othersOpen, log>>
      BY <3>1 DEF ProcessExit
    <3> HIDE DEF d
    <3>4. TypeOK'
      BY <3>2, <3>3 DEF TypeOK, GiveUpAfterReminder
    <3>5. CASE d = "remind"
      <4>1. turn = 1
        BY <3>2, <3>5 DEF TypeOK, GiveUpAfterReminder
      <4>2. turn' = 2 /\ decision' # "give_up"
        BY <3>3, <3>5, <4>1
      <4>3. reminderSent'
        BY <3>3, <3>5
      <4> QED
        BY <3>4, <4>2, <4>3, Zenon DEF GiveUpAfterReminder
    <3>6. CASE d # "remind"
      <4>1. turn' = turn /\ decision' = d
        BY <3>3, <3>6
      <4>2. reminderSent' <=> reminderSent
        BY <3>3, <3>6, Zenon
      <4> QED
        BY <3>2, <3>4, <4>1, <4>2, Zenon DEF GiveUpAfterReminder
    <3> QED
      BY <3>4, <3>5, <3>6
  <2>4. CASE UNCHANGED vars
    BY <2>4 DEF vars, TypeOK, GiveUpAfterReminder
  <2> QED
    BY <2>1, <2>2, <2>3, <2>4 DEF Next
<1> QED
  BY <1>1, <1>2, PTL DEF Spec

(* A hard failure is found only on evidence that belongs to the task.        *)
LEMMA HardFailureEvidence ==
    ASSUME log \in Seq(Events), NEW z \in BOOLEAN, NEW e \in BOOLEAN, HardFailure(log, z, e)
    PROVE  Own(FailKinds) \/ z \/ e
<1>1. CASE NewestFailure(log) # {}
  <2>1. PICK i \in Seen(log) : log[i].kind \in FailKinds
    BY <1>1 DEF NewestFailure
  <2>2. i \in 1..Len(log) /\ log[i].turn > 0
    BY <2>1, ExitBounds DEF Seen
  <2> QED
    BY <2>1, <2>2 DEF Own
<1>2. CASE NewestFailure(log) = {}
  BY <1>2 DEF HardFailure
<1> QED
  BY <1>1, <1>2

(* The timestamp cut works for any tail size and any log: no task is failed  *)
(* for the events of an earlier one.                                        *)
THEOREM OldFailureCorrect == Spec => []OldFailureNeverCondemns
<1>1. Init => OldFailureNeverCondemns
  BY DEF Init, OldFailureNeverCondemns
<1>2. TypeOK /\ OldFailureNeverCondemns /\ [Next]_vars => OldFailureNeverCondemns'
  <2> SUFFICES ASSUME TypeOK, OldFailureNeverCondemns, [Next]_vars
               PROVE  OldFailureNeverCondemns'
    OBVIOUS
  <2>1. CASE \E k \in Kinds : Emit(k)
    <3>1. PICK k \in Kinds : Emit(k)
      BY <2>1
    <3>2. Own(FailKinds) => Own(FailKinds)'
      <4> SUFFICES ASSUME NEW i \in 1..Len(log), log[i].turn > 0, log[i].kind \in FailKinds
                   PROVE  Own(FailKinds)'
        BY DEF Own
      <4>1. i \in 1..Len(log') /\ log'[i] = log[i]
        BY <3>1 DEF Emit, TypeOK
      <4> QED
        BY <4>1 DEF Own
    <3> QED
      BY <3>1, <3>2 DEF Emit, OldFailureNeverCondemns
  <2>2. CASE Edit
    BY <2>2 DEF Edit, OldFailureNeverCondemns, Own
  <2>3. CASE \E nonZero, stdoutError \in BOOLEAN : ProcessExit(nonZero, stdoutError)
    <3>1. PICK z \in BOOLEAN, e \in BOOLEAN : ProcessExit(z, e)
      BY <2>3
    <3>2. Decide(mark, othersOpen, log, z, e, reminderSent) = "hard_fail"
             => HardFailure(log, z, e)
      BY DEF Decide, InProgressExit, UntouchedExit
    <3>3. decision' = "hard_fail" => Own(FailKinds) \/ z \/ e
      BY <3>1, <3>2, HardFailureEvidence DEF ProcessExit, TypeOK
    <3>4. Own(FailKinds)' = Own(FailKinds)
      BY <3>1 DEF ProcessExit, Own
    <3> QED
      BY <3>1, <3>3, <3>4 DEF ProcessExit, OldFailureNeverCondemns
  <2>4. CASE UNCHANGED vars
    BY <2>4 DEF vars, OldFailureNeverCondemns, Own
  <2> QED
    BY <2>1, <2>2, <2>3, <2>4 DEF Next
<1> QED
  BY <1>1, <1>2, TypeCorrect, PTL DEF Spec

-----------------------------------------------------------------------------
(* A set of numbers has a least one: the order of the naturals is well       *)
(* founded.                                                                  *)
LEMMA Least ==
    ASSUME NEW T, T \subseteq Nat, T # {}
    PROVE  \E x \in T : \A y \in T : x <= y
<1>1. PICK x \in T : \A y \in T : <<y, x>> \notin OpToRel(<, Nat)
  <2>1. \E x \in T : \A y \in T : ~ (<<y, x>> \in OpToRel(<, Nat))
    BY NatLessThanWellFounded, WFMin
  <2> QED
    BY <2>1
<1>2. ASSUME NEW y \in T, y < x PROVE FALSE
  <2>1. <<y, x>> \in OpToRel(<, Nat)
    BY <1>2 DEF OpToRel
  <2> QED
    BY <2>1, <1>1
<1> QED
  BY <1>2

(* A scan backwards over n entries that finds something has a first finding. *)
LEMMA Newest ==
    ASSUME NEW n \in Nat, NEW T, T \subseteq 1..n, T # {}
    PROVE  \E x \in T : \A y \in T : y <= x
<1> DEFINE U == {n - i : i \in T}
<1>1. U \subseteq Nat /\ U # {}
  <2>1. ASSUME NEW i \in T PROVE n - i \in Nat
    OBVIOUS
  <2>2. PICK i \in T : TRUE
    OBVIOUS
  <2>3. n - i \in U
    BY <2>2
  <2> QED
    BY <2>1, <2>3
<1>2. PICK u \in U : \A v \in U : u <= v
  BY <1>1, Least
<1>3. PICK x \in T : u = n - x
  OBVIOUS
<1>4. ASSUME NEW y \in T PROVE y <= x
  <2>1. n - y \in U
    OBVIOUS
  <2>2. u <= n - y
    BY <1>2, <2>1
  <2> QED
    BY <2>2, <1>3
<1> QED
  BY <1>4

(* The events of the task's own processes come after those of earlier ones,  *)
(* and what decide() has answered is what it would answer still: nothing is  *)
(* written once the wait is over.                                            *)
InOrder == \A i, j \in 1..Len(log) : i <= j /\ log[i].turn > 0 => log[j].turn > 0

Answered(l, m, o, x, r) == Decide(m, o, l, x.nonZero, x.stdoutError, r)

Judged ==
    /\ running => decision \in {"none", "remind"}
    /\ ~running => decision \notin {"none", "remind"}
    /\ ~running => decision = Answered(log, mark, othersOpen, exit, reminderSent)

(* While the tail holds the whole log, a scan sees all events of the task.    *)
LEMMA SeesOwn ==
    ASSUME log \in Seq(Events), InOrder, Len(log) <= Window,
           NEW i \in 1..Len(log), log[i].turn > 0
    PROVE  i \in Seen(log)
<1>1. \A j \in i..Len(log) : log[j].turn > 0
  BY DEF InOrder
<1>2. ~(Len(log) > Window)
  BY ExitBounds
<1> QED
  BY <1>1, <1>2 DEF Seen

(* A failure of one's own that is not a watchdog's is a hard failure, if all  *)
(* kills by the watchdog came before.                                        *)
LEMMA OwnFailureIsHard ==
    ASSUME log \in Seq(Events), InOrder, Len(log) <= Window,
           Own(FailKinds \ {"endWatchdog"}),
           \A i, j \in 1..Len(log) :
              log[i].kind = "endWatchdog" /\ log[j].kind \in FailKinds \ {"endWatchdog"} => i < j,
           NEW z \in BOOLEAN, NEW e \in BOOLEAN
    PROVE  HardFailure(log, z, e)
<1> DEFINE F == {i \in Seen(log) : log[i].kind \in FailKinds}
<1>1. PICK k \in 1..Len(log) : log[k].turn > 0 /\ log[k].kind \in FailKinds \ {"endWatchdog"}
  BY DEF Own
<1>2. k \in F
  BY <1>1, SeesOwn
<1>3. F \subseteq 1..Len(log) /\ Len(log) \in Nat
  BY ExitBounds DEF Seen
<1> HIDE DEF F
<1>4. PICK x \in F : \A y \in F : y <= x
  BY <1>2, <1>3, Newest
<1>5. x \in NewestFailure(log)
  BY <1>4 DEF F, NewestFailure
<1>6. log[x].kind # "endWatchdog"
  <2> SUFFICES ASSUME log[x].kind = "endWatchdog" PROVE FALSE
    OBVIOUS
  <2>1. x \in 1..Len(log) /\ k <= x
    BY <1>2, <1>3, <1>4
  <2>2. x < k
    BY <1>1, <2>1
  <2> QED
    BY <2>1, <2>2
<1> QED
  BY <1>5, <1>6 DEF HardFailure

(* Whatever decide() says of such an exit, it is not that the task is over.   *)
LEMMA HardIsNotOver ==
    ASSUME NEW m, NEW o, NEW l, NEW z, NEW e, NEW r, HardFailure(l, z, e)
    PROVE  Decide(m, o, l, z, e, r) \notin {"give_up", "deferred"}
  BY DEF Decide, InProgressExit, UntouchedExit

(* A throttle in the tail is the answer for a task that is still [ ].         *)
LEMMA ThrottleAnswers ==
    ASSUME NEW o, NEW l, NEW z, NEW e, NEW r, RecentRateLimit(l)
    PROVE  Decide("todo", o, l, z, e, r) = "rate_limit"
  BY DEF Decide, TaskFound, UntouchedExit

(* The step of InOrder and Judged.                                           *)
LEMMA JudgedStep ==
    ASSUME TypeOK, InOrder, Judged, [Next]_vars
    PROVE  InOrder' /\ Judged'
<1>1. CASE \E k \in Kinds : Emit(k)
  <2>1. PICK k \in Kinds : Emit(k)
    BY <1>1
  <2>2. Judged'
    BY <2>1 DEF Emit, Judged
  <2>3. ASSUME NEW i \in 1..Len(log'), NEW j \in 1..Len(log'), i <= j, log'[i].turn > 0
        PROVE  log'[j].turn > 0
    <3>1. CASE j = Len(log) + 1
      BY <2>1, <3>1 DEF Emit, TypeOK
    <3>2. CASE j # Len(log) + 1
      <4>1. i \in 1..Len(log) /\ j \in 1..Len(log) /\ log'[i] = log[i] /\ log'[j] = log[j]
        BY <2>1, <2>3, <3>2 DEF Emit, TypeOK
      <4> QED
        BY <4>1, <2>3 DEF InOrder
    <3> QED
      BY <3>1, <3>2
  <2> QED
    BY <2>2, <2>3 DEF InOrder
<1>2. CASE Edit
  BY <1>2 DEF Edit, InOrder, Judged
<1>3. CASE \E nonZero, stdoutError \in BOOLEAN : ProcessExit(nonZero, stdoutError)
  <2>1. PICK z \in BOOLEAN, e \in BOOLEAN : ProcessExit(z, e)
    BY <1>3
  <2> DEFINE d == Decide(mark, othersOpen, log, z, e, reminderSent)
  <2>2. d \in Decisions
    BY DecideType DEF TypeOK
  <2>3. /\ decision' = d
        /\ reminderSent' = (reminderSent \/ d = "remind")
        /\ running' = (d = "remind")
        /\ exit' = [nonZero |-> z, stdoutError |-> e]
        /\ UNCHANGED <<mark, othersOpen, log>>
    BY <2>1 DEF ProcessExit
  <2>4. d # "remind" => Answered(log, mark, othersOpen, exit, reminderSent)' = d
    BY <2>3 DEF Answered, TypeOK
  <2> HIDE DEF d
  <2>5. Judged'
    BY <2>2, <2>3, <2>4 DEF Judged, Decisions
  <2> QED
    BY <2>3, <2>5 DEF InOrder
<1>4. CASE UNCHANGED vars
  BY <1>4 DEF vars, InOrder, Judged, Answered
<1> QED
  BY <1>1, <1>2, <1>3, <1>4 DEF Next

LEMMA JudgedAlways == Spec => [](InOrder /\ Judged)
<1>1. Init => InOrder /\ Judged
  BY DEF Init, InOrder, Judged
<1>2. TypeOK /\ (InOrder /\ Judged) /\ [Next]_vars => (InOrder /\ Judged)'
  BY JudgedStep
<1> QED
  BY <1>1, <1>2, TypeCorrect, PTL DEF Spec

(* What decide() of cliExit.ts answers agrees with what the task's own       *)
(* processes reported, for any tail and any number of events: an outage is   *)
(* never a success, a throttle never a failure, an older failure never this  *)
(* task's, and nothing is given up on without its reminder.                   *)
THEOREM ExitCorrect == Spec => []ExitHolds
<1>1. TypeOK /\ InOrder /\ Judged => OutageNeverAutoDone
  <2> SUFFICES ASSUME TypeOK, InOrder, Judged, Ended, Len(log) <= Window,
                      Own(FailKinds \ {"endWatchdog"}),
                      \A i, j \in 1..Len(log) :
                         log[i].kind = "endWatchdog" /\ log[j].kind \in FailKinds \ {"endWatchdog"}
                         => i < j
               PROVE  decision \notin {"give_up", "deferred"}
    BY DEF OutageNeverAutoDone
  <2>1. HardFailure(log, exit.nonZero, exit.stdoutError)
    BY OwnFailureIsHard DEF TypeOK
  <2>2. decision = Decide(mark, othersOpen, log, exit.nonZero, exit.stdoutError, reminderSent)
    BY DEF Judged, Ended, Answered
  <2> QED
    BY <2>1, <2>2, HardIsNotOver
<1>2. TypeOK /\ InOrder /\ Judged => ThrottleIsNotFailure
  <2> SUFFICES ASSUME TypeOK, InOrder, Judged, Ended, Len(log) <= Window,
                      Own(RateLimitKinds), mark = "todo"
               PROVE  decision = "rate_limit"
    BY DEF ThrottleIsNotFailure
  <2>1. PICK i \in 1..Len(log) : log[i].turn > 0 /\ log[i].kind \in RateLimitKinds
    BY DEF Own
  <2>2. RecentRateLimit(log)
    BY <2>1, SeesOwn DEF RecentRateLimit, TypeOK
  <2>3. decision = Decide("todo", othersOpen, log, exit.nonZero, exit.stdoutError, reminderSent)
    BY DEF Judged, Ended, Answered
  <2> QED
    BY <2>2, <2>3, ThrottleAnswers
<1>3. TypeOK /\ GiveUpAfterReminder /\ OldFailureNeverCondemns /\ InOrder /\ Judged => ExitHolds
  BY <1>1, <1>2 DEF ExitHolds
<1> QED
  BY <1>3, TypeCorrect, OldFailureCorrect, JudgedAlways, PTL
=============================================================================
