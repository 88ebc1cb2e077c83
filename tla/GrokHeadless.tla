---------------------------- MODULE GrokHeadless ----------------------------
(***************************************************************************)
(* A turn of grok without a terminal: one process per turn that continues   *)
(* the session of the folder (sendGrokPersistentHeadless and sendGrokPrompt *)
(* of grok/tui.ts).  A continued session may hang or fail before it answers *)
(* anything: the process is then abandoned and the same turn is launched    *)
(* again without a session.  The exit file of the turn is written when the  *)
(* process that has the turn closes; the loop waits for it.                 *)
(*                                                                         *)
(* The timers of a launch (poll, probe, watchdog) live until the close      *)
(* event of its process, which comes some time after the process ended.     *)
(* Every launch reads the log of its own session.  Output left in the pipe  *)
(* of a killed process and the forwarding of tools are not shown.           *)
(***************************************************************************)
EXTENDS Integers, FiniteSets

CONSTANTS
    MaxProc,        \* bound: processes whose close event has not come
    MaxFails,       \* RESUME_MAX_CONSEC_FAILURES
    MaxExt          \* AUTODEV_GROK_RESUME_MAX_EXTENSIONS

ASSUME GrokBounds ==
    /\ MaxProc \in Nat \ {0} /\ MaxFails \in Nat \ {0} /\ MaxExt \in Nat

Proc == 1..MaxProc

VARIABLES
    folder,         \* the folder has a session of grok
    fails,          \* _resumeFailures, only compared with the maximum
    active,         \* _activeChildren, 0 for none
    busy,           \* _busyRoots
    host,           \* the loop: it waits for the exit file, or closed the session
    exit,           \* the exit file of the latest turn
    life,           \* the processes; "stillborn": an error event is to come
    job,            \* what the closure of the launch knows of it
    told,           \* turn ends reported to the office for the latest turn
    raced           \* history: the latest turn was launched again by a close event

vars == <<folder, fails, active, busy, host, exit, life, job, told, raced>>

(***************************************************************************)
(* phase   "on"; _endSeen: "end"; killed: "wd", both: "endwd"; finished by  *)
(*         the session log: "ok", "fail"; abandoned: "left"                 *)
(* stage   how far grok got, as the session log says ("read": the first     *)
(*         token was noticed); end: a turn_ended not yet read               *)
(* tries   extensions granted to the probe; now: it has the latest turn     *)
(***************************************************************************)
Job(m, now) == [mode |-> m, phase |-> "on", stage |-> "none", end |-> "none",
                tries |-> 0, now |-> now]

NoJob == Job("stateless", "no")

\* What is still of use once the launch is decided, or has answered: the way it was
\* launched and its probe no longer matter.
Settled(j, ph) == [Job("stateless", j.now) EXCEPT !.phase = ph]

Jobs == [mode : {"continue", "new", "stateless"},
         phase : {"on", "end", "wd", "endwd", "ok", "fail", "left"},
         stage : {"none", "start", "token", "read"}, end : {"none", "clean", "error", "auth"},
         tries : 0..MaxExt, now : {"no", "yes"}]

Dead == {"dead0", "dead1"}          \* ended, with that exit code

TypeOK ==
    /\ folder \in {"no", "yes"} /\ fails \in 0..MaxFails
    /\ active \in 0..MaxProc /\ busy \in {"no", "yes"}
    /\ host \in {"idle", "waiting", "closed"}
    /\ exit \in {"empty", "0", "1", "unknown"}
    /\ life \in [Proc -> {"gone", "stillborn", "run"} \cup Dead] /\ job \in [Proc -> Jobs]
    /\ told \in SUBSET {"Stop", "StopFailure"} /\ raced \in {"no", "yes"}

Init ==
    /\ folder \in {"no", "yes"} /\ fails = 0 /\ active = 0 /\ busy = "no"
    /\ host = "idle" /\ exit = "0"
    /\ life = [p \in Proc |-> "gone"] /\ job = [p \in Proc |-> NoJob]
    /\ told = {} /\ raced = "no"

-----------------------------------------------------------------------------
(* Launching. *)

Kill(lf, S) == [p \in Proc |-> IF p \in S /\ lf[p] = "run" THEN "dead1" ELSE lf[p]]

Free(q) == life[q] = "gone" /\ \A r \in 1..(q - 1) : life[r] # "gone"

\* sendGrokPrompt: the prior process is killed and the new one takes its place.
\* The spawn may throw, or fail with an error event.
Launch(m, now, lf, jf) ==
    LET killed == Kill(lf, {active}) IN
    \/ \E q \in Proc, how \in {"run", "stillborn"} :
        /\ Free(q)
        /\ life' = [killed EXCEPT ![q] = how]
        /\ job' = [jf EXCEPT ![q] = Job(m, now)]
        /\ active' = q /\ busy' = "yes"
        /\ exit' = IF now = "yes" THEN "empty" ELSE exit
    \/ /\ life' = killed /\ job' = jf
       /\ active' = 0 /\ busy' = "no"
       /\ exit' = IF now = "yes" THEN "1" ELSE exit

\* decideHeadlessGrokMode.
Decide ==
    IF folder = "no" THEN "new"
    ELSE IF fails >= MaxFails THEN "stateless" ELSE "continue"

\* The count after a dispatch: a breather resets it.
Breathed == IF Decide = "stateless" THEN 0 ELSE fails

\* The turn is dispatched.  It has an exit file of its own: earlier processes
\* go on writing theirs.
DispatchAs(m) ==
    /\ host = "idle" /\ m = Decide
    /\ host' = "waiting" /\ told' = {} /\ raced' = "no" /\ fails' = Breathed
    /\ Launch(m, "yes", life, [p \in Proc |-> [job[p] EXCEPT !.now = "no"]])
    /\ UNCHANGED folder

Dispatch == \E m \in {"continue", "new", "stateless"} : DispatchAs(m)

\* The error event of a failed spawn.
SpawnError(p) ==
    /\ life[p] = "stillborn"
    /\ life' = [life EXCEPT ![p] = "dead1"]
    /\ exit' = IF job[p].now = "yes" THEN "1" ELSE exit
    /\ active' = 0 /\ busy' = "no"
    /\ UNCHANGED <<folder, fails, host, job, told, raced>>

-----------------------------------------------------------------------------
(* What the loop does. *)

SeesExit ==
    /\ host = "waiting" /\ exit # "empty"
    /\ host' = "idle"
    /\ UNCHANGED <<folder, fails, active, busy, exit, life, job, told, raced>>

\* The exit file stayed empty for too long.
GiveUp ==
    /\ host = "waiting" /\ exit = "empty"
    /\ host' = "idle" /\ exit' = "unknown" /\ busy' = "no"
    /\ UNCHANGED <<folder, fails, active, life, job, told, raced>>

\* closeGrokTuiSession.
Teardown ==
    /\ host # "closed"
    /\ host' = "closed"
    /\ life' = Kill(life, {active}) /\ active' = 0 /\ busy' = "no" /\ fails' = 0
    /\ UNCHANGED <<folder, exit, job, told, raced>>

Reopen ==
    /\ host = "closed"
    /\ host' = "idle"
    /\ UNCHANGED <<folder, fails, active, busy, exit, life, job, told, raced>>

-----------------------------------------------------------------------------
(* What grok does. *)

Set(p, j) == job' = [job EXCEPT ![p] = j]
Unmoved == UNCHANGED <<fails, active, busy, host, exit, raced>>

\* An event in its session log: the turn started, the first token, or another.
Writes(p, s) ==
    /\ life[p] = "run" /\ job[p].end = "none" /\ job[p].phase = "on"
    /\ \/ job[p].stage = "none" /\ s = "start"
       \/ job[p].stage = "start" /\ s = "token"
    /\ Set(p, [job[p] EXCEPT !.stage = s, !.tries = 0])
    /\ folder' = "yes"
    /\ UNCHANGED <<life, told>> /\ Unmoved

\* turn_ended in its session log.
Ends(p, r) ==
    /\ life[p] = "run" /\ job[p].end = "none" /\ job[p].phase = "on"
    /\ Set(p, [job[p] EXCEPT !.end = r, !.tries = 0])
    /\ UNCHANGED <<folder, life, told>> /\ Unmoved

Exits(p, code) ==
    /\ life[p] = "run"
    /\ life' = [life EXCEPT ![p] = code]
    /\ UNCHANGED <<folder, job, told>> /\ Unmoved

-----------------------------------------------------------------------------
(* The handlers of a launch. *)

Hook(p, S) == told' = IF job[p].now = "yes" THEN told \cup S ELSE told

\* The end record of older builds, on stdout.
EndRecord(p) ==
    /\ life[p] = "run" /\ job[p].phase = "on"
    /\ Set(p, Settled(job[p], "end"))
    /\ Hook(p, {"Stop"})
    /\ UNCHANGED <<folder, life>> /\ Unmoved

\* pumpGrokSessionFiles and finishFromTurnEnd: the phase after reading the log.
\* A turn_ended before the turn started is a leftover; a missing login cannot be
\* helped by launching again.
Verdict(j) ==
    IF j.phase # "on" \/ j.end = "none" \/ j.stage = "none" THEN j.phase
    ELSE IF j.end = "clean" THEN "ok"
    ELSE IF j.end = "error" /\ j.stage = "start" /\ j.mode = "continue" THEN "left"
    ELSE "fail"

Unread(j) == j.phase = "on" /\ (j.stage = "token" \/ j.end # "none")

Read(j) ==
    IF Verdict(j) # "on" THEN Settled(j, Verdict(j))
    ELSE IF j.stage = "token" THEN [Settled(j, "on") EXCEPT !.stage = "read"]
    ELSE [j EXCEPT !.end = "none"]

\* The end reported to the office: for a missing login it is not one.
Reported(ph, e) == CASE ph = "ok" -> {"Stop"}
                     [] ph = "fail" -> IF e = "auth" THEN {} ELSE {"StopFailure"}
                     [] ph \in {"on", "left"} -> {}

\* onResumeOk, when the first token is noticed.
Answered(j) == IF j.stage = "token" /\ j.mode = "continue" THEN 0 ELSE fails

\* onResumeHang: the launch is abandoned and the turn launched again.
Relaunch(p, j) ==
    /\ fails' = IF fails < MaxFails THEN fails + 1 ELSE fails
    /\ Launch("stateless", j.now, Kill(life, {p}), [job EXCEPT ![p] = Settled(j, "left")])

\* The poll of the session log.
Poll(p) ==
    /\ life[p] \in {"run"} \cup Dead /\ Unread(job[p])
    /\ IF Verdict(job[p]) = "left"
       THEN Relaunch(p, job[p]) /\ UNCHANGED told
       ELSE /\ Set(p, Read(job[p]))
            /\ fails' = Answered(job[p])
            /\ life' = IF Verdict(job[p]) = "on" THEN life ELSE Kill(life, {p})
            /\ Hook(p, Reported(Verdict(job[p]), job[p].end))
            /\ UNCHANGED <<active, busy, exit>>
    /\ UNCHANGED <<folder, host, raced>>

\* The probe, after it read the log: while grok wrote events in its last window it
\* is granted one more.  Otherwise, or with no window left, that is the hang.
Probe(p) ==
    LET j == job[p] IN
    /\ life[p] \in {"run"} \cup Dead /\ j.mode # "stateless" /\ j.phase = "on"
    /\ j.stage \in {"none", "start"} /\ ~Unread(j)
    /\ \/ /\ j.stage = "start" /\ j.tries < MaxExt
          /\ Set(p, [j EXCEPT !.tries = @ + 1])
          /\ UNCHANGED <<fails, active, busy, exit, life>>
       \/ Relaunch(p, j)
    /\ UNCHANGED <<folder, host, told, raced>>

\* Mistake: the budget counts from the start of the turn in the log.
WatchdogAfterStart(p) ==
    /\ life[p] = "run" /\ job[p].phase \in {"on", "end"} /\ job[p].stage # "none"
    /\ Set(p, Settled(job[p], IF job[p].phase = "on" THEN "wd" ELSE "endwd"))
    /\ life' = Kill(life, {p})
    /\ UNCHANGED <<folder, told>> /\ Unmoved

\* killGrok: the time budget, or too many tool errors.
Watchdog(p) ==
    /\ life[p] = "run" /\ job[p].phase \in {"on", "end"}
    /\ Set(p, Settled(job[p], IF job[p].phase = "on" THEN "wd" ELSE "endwd"))
    /\ life' = Kill(life, {p})
    /\ UNCHANGED <<folder, told>> /\ Unmoved

Code(p, ph) == IF ph = "ok" THEN "0" ELSE IF ph = "fail" THEN "1"
               ELSE IF life[p] = "dead0" THEN "0" ELSE "1"

\* Mistake: the close event reports whatever was reported before.
LastAlways(p, ph) == {IF Code(p, ph) = "0" THEN {"Stop"} ELSE {"StopFailure"}}

\* Ends reported by the close event: what its last look at the log brought, and
\* the exit code if nothing else was reported.  A process that was not signed in
\* may say so at the very end, and then it is not an end.
Last(p, ph) ==
    IF job[p].phase = "on" /\ ph \in {"ok", "fail"} THEN {Reported(ph, job[p].end)}
    ELSE IF ph \in {"on", "wd", "left"}
    THEN IF Code(p, ph) = "0" THEN {{"Stop"}} ELSE {{"StopFailure"}, {}}
    ELSE {{}}

\* Mistake: the abandoned launch writes the exit file too.
BowOutWrites(p) ==
    /\ life[p] \in Dead /\ job[p].phase = "left"
    /\ life' = [life EXCEPT ![p] = "gone"] /\ Set(p, NoJob)
    /\ exit' = IF job[p].now = "yes" THEN Code(p, "left") ELSE exit
    /\ UNCHANGED <<folder, fails, active, busy, host, told, raced>>

\* The close event of an abandoned launch.
BowOut(p) ==
    /\ life[p] \in Dead /\ job[p].phase = "left"
    /\ life' = [life EXCEPT ![p] = "gone"] /\ Set(p, NoJob)
    /\ UNCHANGED <<folder, told>> /\ Unmoved

\* The close event: a last look at the log, and the exit file.
Close(p) ==
    LET ph == Verdict(job[p])  now == job[p].now IN
    /\ life[p] \in Dead /\ job[p].phase # "left" /\ ph # "left"
    /\ life' = [life EXCEPT ![p] = "gone"] /\ Set(p, NoJob)
    /\ fails' = IF job[p].phase = "on" THEN Answered(job[p]) ELSE fails
    /\ exit' = IF now = "yes" THEN Code(p, ph) ELSE exit
    /\ \E S \in Last(p, ph) : Hook(p, S)
    /\ active' = 0 /\ busy' = "no"
    /\ UNCHANGED <<folder, host, raced>>

\* The last look finds the failed resume: the turn is launched again, and the
\* close event goes on to report the end of it all the same.
CloseRelaunching(p) ==
    /\ life[p] \in Dead /\ job[p].phase = "on" /\ Verdict(job[p]) = "left"
    /\ fails' = IF fails < MaxFails THEN fails + 1 ELSE fails
    /\ \/ \E q \in Proc, how \in {"run", "stillborn"} :
            /\ Free(q)
            /\ life' = [Kill(life, {active}) EXCEPT ![q] = how, ![p] = "gone"]
            /\ job' = [job EXCEPT ![q] = Job("stateless", job[p].now), ![p] = NoJob]
       \/ /\ life' = [Kill(life, {active}) EXCEPT ![p] = "gone"]
          /\ Set(p, NoJob)
    /\ active' = 0 /\ busy' = "no"
    /\ exit' = IF job[p].now = "yes" THEN Code(p, "left") ELSE exit
    /\ \E S \in Last(p, "left") : Hook(p, S)
    /\ raced' = IF job[p].now = "yes" THEN "yes" ELSE raced
    /\ UNCHANGED <<folder, host>>

Closes(p) == BowOut(p) \/ Close(p) \/ CloseRelaunching(p)

-----------------------------------------------------------------------------
Next ==
    \/ Dispatch \/ SeesExit \/ GiveUp \/ Teardown \/ Reopen
    \/ \E p \in Proc :
        \/ SpawnError(p) \/ EndRecord(p)
        \/ Poll(p) \/ Probe(p) \/ Watchdog(p) \/ Closes(p)
        \/ \E s \in {"start", "token"} : Writes(p, s)
        \/ \E r \in {"clean", "error", "auth"} : Ends(p, r)
        \/ \E c \in Dead : Exits(p, c)

\* Timers expire and events are delivered.  Nothing is asked of grok.
Fairness ==
    /\ WF_vars(SeesExit)
    /\ \A p \in Proc : WF_vars(SpawnError(p)) /\ WF_vars(Watchdog(p)) /\ WF_vars(Closes(p))

Spec == Init /\ [][Next]_vars /\ Fairness

-----------------------------------------------------------------------------
(* Properties. *)

\* A root that looks busy has a process whose close event will clear it: the
\* loop never waits for a turn nobody is running.
BusyHasProcess == busy = "yes" => active # 0 /\ life[active] # "gone"

\* One turn is not reported as finished and as failed, unless the last look of a
\* close event launched it again.
OneOutcome == {"Stop", "StopFailure"} \subseteq told => raced = "yes"

\* Only a close event may write the exit file while a process of the turn runs,
\* and only if it has just launched that process.
ExitIsLast ==
    [][exit' \in {"0", "1"} /\ exit' # exit
        => \/ raced' = "yes"
           \/ \A p \in Proc : life'[p] = "run" => job'[p].now = "no"]_vars

Untracked == {p \in Proc : life[p] = "run" /\ p # active}

\* A process runs without being known to _activeChildren only through an event
\* of another process, which clears the entry whoever it is for.
UntrackedComesFrom ==
    [][\A p \in Untracked' \ Untracked :
          \E q \in Proc : q # p /\ life[q] \in Dead \cup {"stillborn"} /\ life'[q] # life[q]]_vars

\* After a teardown nothing is started, but by a launch whose close event the
\* teardown did not wait for, or which it could not see.
NoStartAfterTeardown ==
    [][host = "closed" /\ (\E p \in Proc : life[p] = "gone" /\ life'[p] # "gone")
        => (\E q \in Proc : life[q] \in Dead) \/ Untracked # {}]_vars

Tries(m) == host = "idle" /\ host' = "waiting" /\ Decide = m

\* The session is never given up for good: turns without it are followed by turns
\* that try it again.
ContinueTriedAgain == []<><<Tries("stateless")>>_vars => []<><<Tries("continue")>>_vars

\* The loop never waits for ever.
TurnEnds == host = "waiting" ~> host # "waiting"

\* What the provider knows of its processes is true, in the parts above.
HeadlessHolds == TypeOK /\ BusyHasProcess /\ OneOutcome

\* No step writes an exit, loses a process or starts one where it must not.
HeadlessSteps == ExitIsLast /\ UntrackedComesFrom /\ NoStartAfterTeardown

\* Turns end, and the session comes back into use.
TurnsGoOn == TurnEnds /\ ContinueTriedAgain
=============================================================================
