------------------------- MODULE GrokHeadlessProofs -------------------------
(***************************************************************************)
(* Grok without a terminal, for any number of processes, failures and      *)
(* extensions: what the provider keeps of its processes is true, one turn  *)
(* has one outcome, and no step writes an exit, loses a process or starts  *)
(* one where it must not.                                                  *)
(***************************************************************************)
EXTENDS GrokHeadless, TLAPS

Lives == {"gone", "stillborn", "run"} \cup Dead
Outcomes == {{}, {"Stop"}, {"StopFailure"}}

\* The process that is going to write the exit file of the latest turn.
Holds(p) == life[p] # "gone" /\ job[p].now = "yes" /\ job[p].phase # "left"

(***************************************************************************)
(* An abandoned launch has ended and is no longer the known one; a turn is *)
(* with one process at most; while that one has not reported its end       *)
(* nobody has; and a launch of a closed session is not launched again.     *)
(***************************************************************************)
LeftIsDead == \A p \in Proc : job[p].phase = "left" => life[p] \in Dead /\ p # active
OneHolder == \A p, q \in Proc : Holds(p) /\ Holds(q) => p = q
Untold == \A p \in Proc : Holds(p) /\ job[p].phase \in {"on", "wd"} => told = {}
ClosedIsFinal == host = "closed" => active = 0 \/ job[active].mode = "stateless"

HeadInv ==
    /\ BusyHasProcess /\ LeftIsDead /\ OneHolder /\ ClosedIsFinal
    /\ raced = "no" => Untold /\ told \in Outcomes

-----------------------------------------------------------------------------
(* The operators. *)

LEMMA ProcNonZero == 0 \notin Proc /\ Proc \subseteq 0..MaxProc /\ 0 \in 0..MaxProc
BY GrokBounds DEF Proc

LEMMA JobType ==
    ASSUME NEW m \in {"continue", "new", "stateless"}, NEW now \in {"no", "yes"}
    PROVE  /\ Job(m, now) \in Jobs
           /\ Job(m, now).now = now /\ Job(m, now).mode = m /\ Job(m, now).phase = "on"
BY GrokBounds DEF Job, Jobs

LEMMA NoJobType == NoJob \in Jobs /\ NoJob.phase = "on" /\ NoJob.now = "no"
BY JobType DEF NoJob

Phases == {"on", "end", "wd", "endwd", "ok", "fail", "left"}

LEMMA SettledType ==
    ASSUME NEW j \in Jobs, NEW ph \in Phases
    PROVE  /\ Settled(j, ph) \in Jobs
           /\ Settled(j, ph).phase = ph /\ Settled(j, ph).now = j.now
           /\ Settled(j, ph).mode = "stateless"
BY GrokBounds DEF Settled, Job, Jobs, Phases

\* An event in the log.
LEMMA EventType ==
    ASSUME NEW j \in Jobs, NEW k,
           \/ \E s \in {"start", "token"} : k = [j EXCEPT !.stage = s, !.tries = 0]
           \/ \E e \in {"clean", "error", "auth"} : k = [j EXCEPT !.end = e, !.tries = 0]
    PROVE  k \in Jobs /\ k.phase = j.phase /\ k.now = j.now /\ k.mode = j.mode
<1>1. 0 \in 0..MaxExt BY GrokBounds
<1>2. PICK T : T = 0..MaxExt OBVIOUS
<1>3. Jobs = [mode : {"continue", "new", "stateless"},
         phase : {"on", "end", "wd", "endwd", "ok", "fail", "left"},
         stage : {"none", "start", "token", "read"}, end : {"none", "clean", "error", "auth"},
         tries : T, now : {"no", "yes"}]
  BY <1>2 DEF Jobs
<1> QED BY <1>1, <1>2, <1>3

LEMMA VerdictIs ==
    ASSUME NEW j \in Jobs
    PROVE  /\ Verdict(j) \in Phases
           /\ j.phase # "on" => Verdict(j) = j.phase
           /\ j.phase = "on" => Verdict(j) \in {"on", "ok", "fail", "left"}
           /\ j.phase = "on" /\ Verdict(j) = "left" => j.mode = "continue"
BY DEF Verdict, Jobs, Phases

LEMMA ReadIs ==
    ASSUME NEW j \in Jobs, j.phase = "on"
    PROVE  /\ Read(j) \in Jobs /\ Read(j).phase = Verdict(j) /\ Read(j).now = j.now
           /\ Read(j).mode \in {j.mode, "stateless"}
<1>1. CASE Verdict(j) # "on"
  BY <1>1, VerdictIs, SettledType DEF Read
<1>2. CASE Verdict(j) = "on" /\ j.stage = "token"
  <2>1. Read(j) = [Settled(j, "on") EXCEPT !.stage = "read"] BY <1>2 DEF Read
  <2>2. Settled(j, "on") \in Jobs /\ Settled(j, "on").phase = "on" /\ Settled(j, "on").now = j.now
        /\ Settled(j, "on").mode = "stateless"
    BY SettledType DEF Phases
  <2> QED BY <1>2, <2>1, <2>2 DEF Jobs
<1>3. CASE Verdict(j) = "on" /\ j.stage # "token"
  <2>1. Read(j) = [j EXCEPT !.end = "none"] BY <1>3 DEF Read
  <2> QED BY <1>3, <2>1 DEF Jobs
<1> QED BY <1>1, <1>2, <1>3

LEMMA ReportedIs ==
    ASSUME NEW ph \in {"on", "left", "ok", "fail"}, NEW e
    PROVE  Reported(ph, e) \in Outcomes /\ (ph \in {"on", "left"} => Reported(ph, e) = {})
BY DEF Reported, Outcomes

LEMMA AnsweredType == ASSUME NEW j, fails \in 0..MaxFails PROVE Answered(j) \in 0..MaxFails
BY GrokBounds DEF Answered

LEMMA CodeType == ASSUME NEW p, NEW ph PROVE Code(p, ph) \in {"0", "1"}
BY DEF Code

\* The ends a close event reports, and when it reports none.
LEMMA LastIs ==
    ASSUME NEW p, job[p] \in Jobs, NEW ph, NEW S \in Last(p, ph),
           ph = Verdict(job[p]) \/ ph = "left"
    PROVE  /\ S \in Outcomes
           /\ ph # "left" /\ job[p].phase \notin {"on", "wd", "left"} => S = {}
<1>1. CASE job[p].phase = "on" /\ ph \in {"ok", "fail"}
  <2>1. S = Reported(ph, job[p].end) BY <1>1 DEF Last
  <2> QED BY <1>1, <2>1, ReportedIs
<1>2. CASE ~(job[p].phase = "on" /\ ph \in {"ok", "fail"}) /\ ph \in {"on", "wd", "left"}
  <2>1. S \in Outcomes BY <1>2 DEF Last, Outcomes
  <2> QED BY <1>2, <2>1, VerdictIs
<1>3. CASE ~(job[p].phase = "on" /\ ph \in {"ok", "fail"}) /\ ph \notin {"on", "wd", "left"}
  <2>1. S = {} BY <1>3 DEF Last
  <2> QED BY <2>1 DEF Outcomes
<1> QED BY <1>1, <1>2, <1>3

\* Killing ends what runs, and nothing else.
LEMMA KillIs ==
    ASSUME NEW lf \in [Proc -> Lives], NEW S
    PROVE  /\ Kill(lf, S) \in [Proc -> Lives]
           /\ \A p \in Proc : Kill(lf, S)[p] = IF p \in S /\ lf[p] = "run" THEN "dead1" ELSE lf[p]
BY DEF Kill, Lives, Dead

LEMMA HookIs ==
    ASSUME NEW p \in Proc, NEW S, Hook(p, S)
    PROVE  told' = told \/ (job[p].now = "yes" /\ told' = told \cup S)
BY DEF Hook

\* A launch: a new known process, or none, with the known one killed.
LEMMA LaunchIs ==
    ASSUME NEW lf \in [Proc -> Lives], NEW jf \in [Proc -> Jobs],
           NEW m \in {"continue", "new", "stateless"}, NEW now \in {"no", "yes"},
           Launch(m, now, lf, jf)
    PROVE  \/ \E q \in Proc :
                /\ life[q] = "gone" /\ active' = q /\ busy' = "yes"
                /\ life'[q] \in {"run", "stillborn"} /\ job'[q] = Job(m, now)
                /\ \A r \in Proc : r # q => life'[r] = Kill(lf, {active})[r] /\ job'[r] = jf[r]
                /\ exit' = IF now = "yes" THEN "empty" ELSE exit
                /\ life' \in [Proc -> Lives] /\ job' \in [Proc -> Jobs]
           \/ /\ active' = 0 /\ busy' = "no" /\ life' = Kill(lf, {active}) /\ job' = jf
              /\ exit' = IF now = "yes" THEN "1" ELSE exit
              /\ life' \in [Proc -> Lives] /\ job' \in [Proc -> Jobs]
<1> DEFINE killed == Kill(lf, {active})
<1>1. killed \in [Proc -> Lives] BY KillIs
<1>2. Job(m, now) \in Jobs BY JobType
<1>3. CASE \E q \in Proc, how \in {"run", "stillborn"} :
            /\ Free(q)
            /\ life' = [killed EXCEPT ![q] = how]
            /\ job' = [jf EXCEPT ![q] = Job(m, now)]
            /\ active' = q /\ busy' = "yes"
            /\ exit' = IF now = "yes" THEN "empty" ELSE exit
  <2>1. PICK q \in Proc, how \in {"run", "stillborn"} :
            /\ Free(q)
            /\ life' = [killed EXCEPT ![q] = how]
            /\ job' = [jf EXCEPT ![q] = Job(m, now)]
            /\ active' = q /\ busy' = "yes"
            /\ exit' = IF now = "yes" THEN "empty" ELSE exit
    BY <1>3
  <2>2. life[q] = "gone" /\ how \in Lives BY <2>1 DEF Free, Lives
  <2> HIDE DEF killed
  <2>3. life' \in [Proc -> Lives] /\ job' \in [Proc -> Jobs] BY <1>1, <1>2, <2>1, <2>2
  <2>4. life'[q] \in {"run", "stillborn"} /\ job'[q] = Job(m, now) BY <1>1, <2>1
  <2>5. \A r \in Proc : r # q => life'[r] = killed[r] /\ job'[r] = jf[r] BY <1>1, <2>1
  <2> QED BY <2>1, <2>2, <2>3, <2>4, <2>5 DEF killed
<1>4. CASE /\ life' = killed /\ job' = jf
           /\ active' = 0 /\ busy' = "no"
           /\ exit' = IF now = "yes" THEN "1" ELSE exit
  BY <1>1, <1>4
<1> QED BY <1>3, <1>4 DEF Launch

-----------------------------------------------------------------------------
(* Types. *)

LEMMA TypesAre ==
    TypeOK <=>
        /\ folder \in {"no", "yes"} /\ fails \in 0..MaxFails
        /\ active \in 0..MaxProc /\ busy \in {"no", "yes"}
        /\ host \in {"idle", "waiting", "closed"} /\ exit \in {"empty", "0", "1", "unknown"}
        /\ life \in [Proc -> Lives] /\ job \in [Proc -> Jobs]
        /\ told \in SUBSET {"Stop", "StopFailure"} /\ raced \in {"no", "yes"}
BY DEF TypeOK, Lives

\* What Dispatch does, as one launch.
LEMMA DispatchIs ==
    ASSUME TypeOK, Dispatch
    PROVE  \E m \in {"continue", "new", "stateless"}, jf \in [Proc -> Jobs] :
              /\ host = "idle" /\ host' = "waiting" /\ told' = {} /\ raced' = "no"
              /\ fails' \in 0..MaxFails /\ folder' = folder
              /\ \A p \in Proc : jf[p].now = "no" /\ jf[p].phase = job[p].phase
              /\ Launch(m, "yes", life, jf)
<1>1. PICK m \in {"continue", "new", "stateless"} : DispatchAs(m) BY DEF Dispatch
<1> DEFINE jf == [p \in Proc |-> [job[p] EXCEPT !.now = "no"]]
<1>2. \A p \in Proc : /\ [job[p] EXCEPT !.now = "no"] \in Jobs
                      /\ [job[p] EXCEPT !.now = "no"].now = "no"
                      /\ [job[p] EXCEPT !.now = "no"].phase = job[p].phase
  BY DEF TypeOK, Jobs
<1>3. jf \in [Proc -> Jobs] /\ \A p \in Proc : jf[p].now = "no" /\ jf[p].phase = job[p].phase
  BY <1>2
<1>4. fails' \in 0..MaxFails BY <1>1, GrokBounds DEF DispatchAs, Breathed, TypeOK
<1>5. Launch(m, "yes", life, jf) /\ host = "idle" /\ host' = "waiting" /\ told' = {} /\ raced' = "no"
      /\ folder' = folder
  BY <1>1 DEF DispatchAs
<1> HIDE DEF jf
<1> QED BY <1>1, <1>3, <1>4, <1>5

\* Nor does a relaunch do more.
LEMMA RelaunchIs ==
    ASSUME TypeOK, NEW p \in Proc, Relaunch(p, job[p])
    PROVE  \E lf \in [Proc -> Lives], jf \in [Proc -> Jobs] :
              /\ \A r \in Proc : lf[r] = IF r = p /\ life[r] = "run" THEN "dead1" ELSE life[r]
              /\ jf[p] = Settled(job[p], "left") /\ \A r \in Proc : r # p => jf[r] = job[r]
              /\ fails' \in 0..MaxFails
              /\ job[p].now \in {"no", "yes"}
              /\ Launch("stateless", job[p].now, lf, jf)
<1> DEFINE lf == Kill(life, {p})
           jf == [job EXCEPT ![p] = Settled(job[p], "left")]
<1>1. life \in [Proc -> Lives] /\ job \in [Proc -> Jobs] /\ job[p] \in Jobs BY DEF TypeOK, Lives
<1>2. lf \in [Proc -> Lives]
      /\ \A r \in Proc : lf[r] = IF r = p /\ life[r] = "run" THEN "dead1" ELSE life[r]
  BY <1>1, KillIs
<1>3. Settled(job[p], "left") \in Jobs BY <1>1, SettledType DEF Phases
<1>4. jf \in [Proc -> Jobs] /\ jf[p] = Settled(job[p], "left") /\ \A r \in Proc : r # p => jf[r] = job[r]
  BY <1>1, <1>3
<1>5. fails' \in 0..MaxFails BY GrokBounds DEF Relaunch, TypeOK
<1>6. Launch("stateless", job[p].now, lf, jf) BY DEF Relaunch
<1>7. job[p].now \in {"no", "yes"} BY <1>1 DEF Jobs
<1> HIDE DEF lf, jf
<1> QED BY <1>2, <1>4, <1>5, <1>6, <1>7

\* The steps of one process, but for those that launch.
OneStep(p) ==
    \/ SpawnError(p) \/ EndRecord(p) \/ Watchdog(p) \/ BowOut(p) \/ Close(p)
    \/ (Poll(p) /\ Verdict(job[p]) # "left")
    \/ (Probe(p) /\ ~Relaunch(p, job[p]))
    \/ \E s \in {"start", "token"} : Writes(p, s)
    \/ \E r \in {"clean", "error", "auth"} : Ends(p, r)
    \/ \E c \in Dead : Exits(p, c)

Relaunching(p) ==
    /\ life[p] \in {"run"} \cup Dead /\ job[p].phase = "on" /\ job[p].mode # "stateless"
    /\ Relaunch(p, job[p])
    /\ UNCHANGED <<told, folder, host, raced>>

\* What such a step may do to the ends reported: nothing, while the job does
\* not go back to one that has reported none; or report an end of the latest turn.
Tells(p, j) ==
    \/ told' = told /\ (life'[p] # "gone" /\ j.phase \in {"on", "wd"} => job[p].phase \in {"on", "wd"})
    \/ /\ job[p].now = "yes" /\ job[p].phase \in {"on", "wd"}
       /\ \E S \in Outcomes : told' = told \cup S
       /\ life'[p] = "gone" \/ j.phase \notin {"on", "wd"}

Shape(p, j) ==
    /\ job' = [job EXCEPT ![p] = j] /\ life[p] # "gone"
    /\ life' \in [Proc -> Lives] /\ \A r \in Proc : r # p => life'[r] = life[r]
    /\ life'[p] = "run" => life[p] = "run"
    /\ life'[p] # "gone" => /\ j.now = job[p].now /\ j.mode \in {job[p].mode, "stateless"}
                            /\ j.phase # "left" /\ job[p].phase # "left"
    /\ life'[p] = "gone" => j = NoJob /\ (active' = 0 \/ job[p].phase = "left")
    /\ Tells(p, j)
    /\ \/ active' = active /\ busy' = busy
       \/ active' = 0 /\ busy' = "no" /\ life[p] \in Dead \cup {"stillborn"} /\ life'[p] # life[p]
    /\ \/ exit' = exit
       \/ exit' \in {"0", "1"} /\ job[p].now = "yes" /\ job[p].phase # "left" /\ life[p] # "run"
    /\ host' = host /\ raced' = raced /\ fails' \in 0..MaxFails /\ folder' \in {"no", "yes"}

LEMMA OneStepIs ==
    ASSUME TypeOK, HeadInv, NEW p \in Proc, OneStep(p)
    PROVE  \E j \in Jobs : Shape(p, j)
<1>1. /\ life \in [Proc -> Lives] /\ job \in [Proc -> Jobs] /\ job[p] \in Jobs /\ life[p] \in Lives
      /\ fails \in 0..MaxFails /\ folder \in {"no", "yes"}
  BY DEF TypeOK, Lives
<1>2. job[p].phase = "left" => life[p] \in Dead BY DEF HeadInv, LeftIsDead
<1>3. /\ \A c \in Lives : [life EXCEPT ![p] = c] \in [Proc -> Lives]
      /\ \A c \in Lives : [life EXCEPT ![p] = c][p] = c
      /\ \A c \in Lives, r \in Proc : r # p => [life EXCEPT ![p] = c][r] = life[r]
  BY <1>1
<1>4. /\ "run" \notin Dead /\ "gone" \notin Dead /\ "stillborn" \notin Dead /\ "dead1" \in Dead
      /\ Dead \subseteq Lives /\ "gone" \in Lives
  BY DEF Dead, Lives
<1>5. /\ Kill(life, {p}) \in [Proc -> Lives]
      /\ \A r \in Proc : r # p => Kill(life, {p})[r] = life[r]
      /\ Kill(life, {p})[p] = IF life[p] = "run" THEN "dead1" ELSE life[p]
  BY <1>1, KillIs
<1>6. CASE SpawnError(p)
  <2>1. job' = [job EXCEPT ![p] = job[p]] BY <1>1, <1>6 DEF SpawnError
  <2>2. exit' = exit \/ (exit' \in {"0", "1"} /\ job[p].now = "yes") BY <1>6 DEF SpawnError
  <2>3. job[p].phase # "left" BY <1>2, <1>4, <1>6 DEF SpawnError
  <2>4. Shape(p, job[p]) BY <1>1, <1>3, <1>4, <1>6, <2>1, <2>2, <2>3 DEF SpawnError, Shape, Tells
  <2> QED BY <1>1, <2>4
<1>7. CASE EndRecord(p)
  <2> DEFINE j == Settled(job[p], "end")
  <2>1. j \in Jobs /\ j.phase = "end" /\ j.now = job[p].now /\ j.mode = "stateless"
    BY <1>1, SettledType DEF Phases
  <2>2. told' = told \/ (job[p].now = "yes" /\ told' = told \cup {"Stop"}) BY <1>7, HookIs DEF EndRecord
  <2>3. job' = [job EXCEPT ![p] = j] /\ life[p] = "run" /\ job[p].phase = "on" /\ Unmoved
        /\ UNCHANGED <<folder, life>>
    BY <1>7 DEF EndRecord, Set
  <2> HIDE DEF j
  <2>4. Tells(p, j) BY <2>1, <2>2, <2>3 DEF Tells, Outcomes
  <2>5. Shape(p, j) BY <1>1, <2>1, <2>3, <2>4 DEF Shape, Unmoved
  <2> QED BY <2>1, <2>5
<1>8. CASE Watchdog(p)
  <2> DEFINE j == Settled(job[p], IF job[p].phase = "on" THEN "wd" ELSE "endwd")
  <2>1. j \in Jobs /\ j.phase = (IF job[p].phase = "on" THEN "wd" ELSE "endwd")
        /\ j.now = job[p].now /\ j.mode = "stateless"
    BY <1>1, SettledType DEF Phases
  <2>2. job' = [job EXCEPT ![p] = j] /\ life[p] = "run" /\ job[p].phase \in {"on", "end"} /\ Unmoved
        /\ UNCHANGED <<folder, told>> /\ life' = Kill(life, {p})
    BY <1>8 DEF Watchdog, Set
  <2> HIDE DEF j
  <2>3. Shape(p, j) BY <1>1, <1>4, <1>5, <2>1, <2>2 DEF Shape, Unmoved, Tells
  <2> QED BY <2>1, <2>3
<1>9. CASE BowOut(p)
  <2>1. job' = [job EXCEPT ![p] = NoJob] /\ life[p] \in Dead /\ job[p].phase = "left" /\ Unmoved
        /\ UNCHANGED <<folder, told>> /\ life' = [life EXCEPT ![p] = "gone"]
    BY <1>9 DEF BowOut, Set
  <2>2. Shape(p, NoJob) BY <1>1, <1>3, <1>4, <2>1 DEF Shape, Unmoved, Tells
  <2> QED BY <2>2, NoJobType
<1>10. CASE Close(p)
  <2> DEFINE ph == Verdict(job[p])
  <2>1. PICK S \in Last(p, ph) : Hook(p, S) BY <1>10 DEF Close
  <2>2. /\ job' = [job EXCEPT ![p] = NoJob] /\ life[p] \in Dead /\ job[p].phase # "left" /\ ph # "left"
        /\ life' = [life EXCEPT ![p] = "gone"] /\ active' = 0 /\ busy' = "no"
        /\ UNCHANGED <<folder, host, raced>>
    BY <1>10 DEF Close, Set
  <2>3. S \in Outcomes /\ (job[p].phase \notin {"on", "wd"} => S = {}) BY <1>1, <2>1, <2>2, LastIs
  <2>4. Tells(p, NoJob)
    <3>1. CASE told' = told BY <1>1, <1>3, <1>4, <2>2, <3>1 DEF Tells
    <3>2. CASE told' # told
      <4>1. job[p].now = "yes" /\ told' = told \cup S /\ S # {} BY <2>1, <3>2, HookIs
      <4> QED BY <1>1, <1>3, <1>4, <2>2, <2>3, <4>1 DEF Tells
    <3> QED BY <3>1, <3>2
  <2>5. fails' \in 0..MaxFails BY <1>1, <1>10, AnsweredType DEF Close
  <2>6. exit' = exit \/ (exit' \in {"0", "1"} /\ job[p].now = "yes") BY <1>10, CodeType DEF Close
  <2> HIDE DEF ph
  <2>7. Shape(p, NoJob) BY <1>1, <1>3, <1>4, <2>2, <2>4, <2>5, <2>6 DEF Shape
  <2> QED BY <2>7, NoJobType
<1>11. CASE Poll(p) /\ Verdict(job[p]) # "left"
  <2> DEFINE ph == Verdict(job[p])
             j == Read(job[p])
  <2>1. job[p].phase = "on" /\ life[p] \in {"run"} \cup Dead BY <1>11 DEF Poll, Unread
  <2>2. j \in Jobs /\ j.phase = ph /\ j.now = job[p].now /\ j.mode \in {job[p].mode, "stateless"}
    BY <1>1, <2>1, ReadIs
  <2>3. ph \in {"on", "ok", "fail"} BY <1>1, <1>11, <2>1, VerdictIs
  <2>4. /\ job' = [job EXCEPT ![p] = j] /\ UNCHANGED <<active, busy, exit, folder, host, raced>>
        /\ life' = (IF ph = "on" THEN life ELSE Kill(life, {p}))
        /\ fails' = Answered(job[p]) /\ Hook(p, Reported(ph, job[p].end))
    BY <1>11 DEF Poll, Set
  <2>5. Reported(ph, job[p].end) \in Outcomes /\ (ph = "on" => Reported(ph, job[p].end) = {})
    BY <2>3, ReportedIs
  <2>6. told' = told \/ (job[p].now = "yes" /\ told' = told \cup Reported(ph, job[p].end))
    BY <2>4, HookIs
  <2>7. fails' \in 0..MaxFails BY <1>1, <2>4, AnsweredType
  <2> HIDE DEF ph, j
  <2>8. Tells(p, j) BY <2>1, <2>2, <2>3, <2>5, <2>6 DEF Tells
  <2>9. life' \in [Proc -> Lives] /\ (\A r \in Proc : r # p => life'[r] = life[r])
        /\ life'[p] # "gone" /\ (life'[p] = "run" => life[p] = "run") /\ life[p] # "gone"
    BY <1>1, <1>4, <1>5, <2>1, <2>4
  <2>10. Shape(p, j) BY <1>1, <2>1, <2>2, <2>3, <2>4, <2>7, <2>8, <2>9 DEF Shape
  <2> QED BY <2>2, <2>10
<1>12. ASSUME NEW j \in Jobs, job' = [job EXCEPT ![p] = j], UNCHANGED <<life, told>>, Unmoved,
              folder' \in {"no", "yes"}, life[p] # "gone", job[p].phase = "on", j.phase = "on",
              j.now = job[p].now, j.mode = job[p].mode
       PROVE  Shape(p, j)
  BY <1>1, <1>12 DEF Shape, Tells, Unmoved
<1>13. CASE Probe(p) /\ ~Relaunch(p, job[p])
  <2> DEFINE j == [job[p] EXCEPT !.tries = @ + 1]
  <2>1. job' = [job EXCEPT ![p] = j] /\ UNCHANGED <<life, told, folder>> /\ Unmoved
        /\ life[p] \in {"run"} \cup Dead /\ job[p].phase = "on" /\ job[p].tries < MaxExt
    BY <1>13 DEF Probe, Set, Unmoved
  <2>2. job[p].tries + 1 \in 0..MaxExt BY <1>1, <2>1, GrokBounds DEF Jobs
  <2>3. j \in Jobs /\ j.phase = "on" /\ j.now = job[p].now /\ j.mode = job[p].mode
    BY <1>1, <2>1, <2>2 DEF Jobs
  <2> HIDE DEF j
  <2> QED BY <1>1, <1>4, <2>3, <1>12, <2>1, <2>2
<1>14. ASSUME NEW s \in {"start", "token"}, Writes(p, s) PROVE \E j \in Jobs : Shape(p, j)
  <2> DEFINE j == [job[p] EXCEPT !.stage = s, !.tries = 0]
  <2>1. job' = [job EXCEPT ![p] = j] /\ UNCHANGED <<life, told>> /\ Unmoved /\ folder' = "yes"
        /\ life[p] = "run" /\ job[p].phase = "on"
    BY <1>14 DEF Writes, Set
  <2>2. j \in Jobs /\ j.phase = "on" /\ j.now = job[p].now /\ j.mode = job[p].mode
    BY <1>1, <2>1, EventType
  <2> HIDE DEF j
  <2> QED BY <1>12, <2>1, <2>2
<1>15. ASSUME NEW e \in {"clean", "error", "auth"}, Ends(p, e) PROVE \E j \in Jobs : Shape(p, j)
  <2> DEFINE j == [job[p] EXCEPT !.end = e, !.tries = 0]
  <2>1. job' = [job EXCEPT ![p] = j] /\ UNCHANGED <<life, told, folder>> /\ Unmoved
        /\ life[p] = "run" /\ job[p].phase = "on"
    BY <1>15 DEF Ends, Set
  <2>2. j \in Jobs /\ j.phase = "on" /\ j.now = job[p].now /\ j.mode = job[p].mode
    BY <1>1, <2>1, EventType
  <2> HIDE DEF j
  <2> QED BY <1>1, <1>12, <2>1, <2>2
<1>16. ASSUME NEW c \in Dead, Exits(p, c) PROVE \E j \in Jobs : Shape(p, j)
  <2>1. job' = [job EXCEPT ![p] = job[p]] BY <1>1, <1>16 DEF Exits
  <2>2. job[p].phase # "left" BY <1>2, <1>4, <1>16 DEF Exits
  <2>3. Shape(p, job[p]) BY <1>1, <1>3, <1>4, <1>16, <2>1, <2>2 DEF Exits, Shape, Tells, Unmoved
  <2> QED BY <1>1, <2>3
<1> QED
  BY <1>6, <1>7, <1>8, <1>9, <1>10, <1>11, <1>13, <1>14, <1>15, <1>16 DEF OneStep

\* Every step is one of these, one that launches, or one of the loop.
LEMMA StepsAre ==
    ASSUME TypeOK, Next
    PROVE  \/ Dispatch \/ SeesExit \/ GiveUp \/ Teardown \/ Reopen
           \/ \E p \in Proc : OneStep(p) \/ Relaunching(p) \/ CloseRelaunching(p)
<1>1. ASSUME NEW p \in Proc, Poll(p), Verdict(job[p]) = "left" PROVE Relaunching(p)
  <2>1. job[p] \in Jobs /\ job[p].phase = "on" BY <1>1 DEF TypeOK, Poll, Unread
  <2>2. job[p].mode = "continue" BY <1>1, <2>1, VerdictIs
  <2> QED BY <1>1, <2>1, <2>2 DEF Relaunching, Poll
<1>2. ASSUME NEW p \in Proc, Probe(p), Relaunch(p, job[p]) PROVE Relaunching(p)
  BY <1>2 DEF Relaunching, Probe
<1> QED BY <1>1, <1>2 DEF Next, OneStep, Closes

-----------------------------------------------------------------------------
(* What each of them does to the invariant. *)

LEMMA LaunchKeeps ==
    ASSUME TypeOK, NEW lf \in [Proc -> Lives], NEW jf \in [Proc -> Jobs],
           NEW m \in {"continue", "new", "stateless"}, NEW now \in {"no", "yes"},
           Launch(m, now, lf, jf)
    PROVE  /\ active' \in 0..MaxProc /\ busy' \in {"no", "yes"}
           /\ exit' \in {"empty", "0", "1", "unknown"}
           /\ life' \in [Proc -> Lives] /\ job' \in [Proc -> Jobs]
           /\ active' = 0 => busy' = "no"
           /\ active' # 0 => /\ active' \in Proc /\ life[active'] = "gone"
                             /\ life'[active'] \in {"run", "stillborn"} /\ job'[active'] = Job(m, now)
           /\ \A r \in Proc : r # active' =>
                /\ job'[r] = jf[r] /\ (life'[r] = "gone" <=> lf[r] = "gone")
                /\ lf[r] \in Dead => life'[r] \in Dead
                /\ life'[r] = "run" => lf[r] = "run" /\ r # active
           /\ exit' = exit \/ (now = "yes" /\ (exit' = "empty" \/ active' = 0))
<1>1. /\ Kill(lf, {active}) \in [Proc -> Lives]
      /\ \A r \in Proc : Kill(lf, {active})[r] = IF r = active /\ lf[r] = "run" THEN "dead1" ELSE lf[r]
  <2>1. \A r \in Proc : r \in {active} <=> r = active OBVIOUS
  <2> QED BY <2>1, KillIs
<1>2. exit \in {"empty", "0", "1", "unknown"} BY DEF TypeOK
<1>3. "dead1" \in Dead /\ "run" \notin Dead /\ "gone" \notin Dead BY DEF Dead
<1>4. \A r \in Proc : LET k == Kill(lf, {active}) IN
          /\ k[r] = "gone" <=> lf[r] = "gone"
          /\ lf[r] \in Dead => k[r] \in Dead
          /\ k[r] = "run" => lf[r] = "run" /\ r # active
  BY <1>1, <1>3
<1>5. CASE \E q \in Proc :
              /\ life[q] = "gone" /\ active' = q /\ busy' = "yes"
              /\ life'[q] \in {"run", "stillborn"} /\ job'[q] = Job(m, now)
              /\ \A r \in Proc : r # q => life'[r] = Kill(lf, {active})[r] /\ job'[r] = jf[r]
              /\ exit' = IF now = "yes" THEN "empty" ELSE exit
              /\ life' \in [Proc -> Lives] /\ job' \in [Proc -> Jobs]
  BY <1>2, <1>4, <1>5, ProcNonZero
<1>6. CASE /\ active' = 0 /\ busy' = "no" /\ life' = Kill(lf, {active}) /\ job' = jf
           /\ exit' = IF now = "yes" THEN "1" ELSE exit
           /\ life' \in [Proc -> Lives] /\ job' \in [Proc -> Jobs]
  BY <1>2, <1>4, <1>6, ProcNonZero
<1>7. \/ \E q \in Proc :
              /\ life[q] = "gone" /\ active' = q /\ busy' = "yes"
              /\ life'[q] \in {"run", "stillborn"} /\ job'[q] = Job(m, now)
              /\ \A r \in Proc : r # q => life'[r] = Kill(lf, {active})[r] /\ job'[r] = jf[r]
              /\ exit' = IF now = "yes" THEN "empty" ELSE exit
              /\ life' \in [Proc -> Lives] /\ job' \in [Proc -> Jobs]
      \/ /\ active' = 0 /\ busy' = "no" /\ life' = Kill(lf, {active}) /\ job' = jf
         /\ exit' = IF now = "yes" THEN "1" ELSE exit
         /\ life' \in [Proc -> Lives] /\ job' \in [Proc -> Jobs]
  BY LaunchIs, SMTT(60)
<1> QED BY <1>5, <1>6, <1>7, Zenon

LEMMA DispatchInv == ASSUME TypeOK, HeadInv, Dispatch PROVE TypeOK' /\ HeadInv'
<1>1. PICK m \in {"continue", "new", "stateless"}, jf \in [Proc -> Jobs] :
          /\ host = "idle" /\ host' = "waiting" /\ told' = {} /\ raced' = "no"
          /\ fails' \in 0..MaxFails /\ folder' = folder
          /\ \A p \in Proc : jf[p].now = "no" /\ jf[p].phase = job[p].phase
          /\ Launch(m, "yes", life, jf)
  BY DispatchIs
<1>2. life \in [Proc -> Lives] BY TypesAre
<1>3. /\ active' \in 0..MaxProc /\ busy' \in {"no", "yes"}
      /\ exit' \in {"empty", "0", "1", "unknown"}
      /\ life' \in [Proc -> Lives] /\ job' \in [Proc -> Jobs]
      /\ active' = 0 => busy' = "no"
      /\ active' # 0 => /\ active' \in Proc /\ life[active'] = "gone"
                        /\ life'[active'] \in {"run", "stillborn"} /\ job'[active'] = Job(m, "yes")
      /\ \A r \in Proc : r # active' =>
           /\ job'[r] = jf[r]
           /\ life[r] \in Dead => life'[r] \in Dead
  BY <1>1, <1>2, LaunchKeeps
<1>4. TypeOK' BY <1>1, <1>3 DEF TypeOK, Lives
<1>5. Job(m, "yes").phase = "on" BY JobType
<1>6. "gone" \notin Dead BY DEF Dead
<1>7. BusyHasProcess' BY <1>3 DEF BusyHasProcess
<1>8. LeftIsDead' BY <1>1, <1>3, <1>5, <1>6, ProcNonZero DEF HeadInv, LeftIsDead
<1>9. OneHolder' BY <1>1, <1>3 DEF OneHolder, Holds
<1>10. Untold' /\ told' \in Outcomes /\ ClosedIsFinal' BY <1>1 DEF Untold, Outcomes, ClosedIsFinal
<1> QED BY <1>4, <1>7, <1>8, <1>9, <1>10 DEF HeadInv

LEMMA RelaunchInv == ASSUME TypeOK, HeadInv, NEW p \in Proc, Relaunching(p) PROVE TypeOK' /\ HeadInv'
<1>1. PICK lf \in [Proc -> Lives], jf \in [Proc -> Jobs] :
          /\ \A r \in Proc : lf[r] = IF r = p /\ life[r] = "run" THEN "dead1" ELSE life[r]
          /\ jf[p] = Settled(job[p], "left") /\ \A r \in Proc : r # p => jf[r] = job[r]
          /\ fails' \in 0..MaxFails
          /\ job[p].now \in {"no", "yes"}
          /\ Launch("stateless", job[p].now, lf, jf)
  BY RelaunchIs DEF Relaunching
<1>2. PICK now \in {"no", "yes"} : now = job[p].now BY <1>1
<1>3. /\ active' \in 0..MaxProc /\ busy' \in {"no", "yes"}
      /\ exit' \in {"empty", "0", "1", "unknown"}
      /\ life' \in [Proc -> Lives] /\ job' \in [Proc -> Jobs]
      /\ active' = 0 => busy' = "no"
      /\ active' # 0 => /\ active' \in Proc /\ life[active'] = "gone"
                        /\ life'[active'] \in {"run", "stillborn"} /\ job'[active'] = Job("stateless", now)
      /\ \A r \in Proc : r # active' =>
           /\ job'[r] = jf[r] /\ (life'[r] = "gone" <=> lf[r] = "gone")
           /\ lf[r] \in Dead => life'[r] \in Dead
  BY <1>1, <1>2, LaunchKeeps
<1>4. life[p] \in {"run"} \cup Dead /\ job[p].phase = "on" /\ UNCHANGED <<told, folder, host, raced>>
  BY DEF Relaunching
<1>5. TypeOK' BY <1>1, <1>3, <1>4 DEF TypeOK, Lives
<1>6. /\ Job("stateless", now).phase = "on" /\ Job("stateless", now).mode = "stateless"
      /\ Job("stateless", now).now = now
  BY JobType
<1>7. "gone" \notin Dead /\ "dead1" \in Dead BY DEF Dead
<1>8. jf[p].phase = "left" BY <1>1, SettledType DEF TypeOK, Phases
<1>9. BusyHasProcess' BY <1>3 DEF BusyHasProcess
<1>10. p # active' /\ life[p] # "gone" BY <1>3, <1>4, <1>7, ProcNonZero
<1>11. LeftIsDead'
  <2>1. ASSUME NEW r \in Proc, job'[r].phase = "left" PROVE life'[r] \in Dead /\ r # active'
    <3>1. r # active' BY <1>3, <1>6, <2>1, ProcNonZero
    <3>2. lf[r] \in Dead
      <4>1. CASE r = p BY <1>1, <1>4, <1>7, <4>1
      <4>2. CASE r # p BY <1>1, <1>3, <2>1, <3>1, <4>2 DEF HeadInv, LeftIsDead
      <4> QED BY <4>1, <4>2
    <3> QED BY <1>3, <3>1, <3>2
  <2> QED BY <2>1 DEF LeftIsDead
<1>12. \A r \in Proc : Holds(r)' => (r # active' /\ r # p /\ Holds(r) /\ job'[r] = job[r])
                                    \/ (r = active' /\ now = "yes")
  BY <1>1, <1>3, <1>6, <1>8, <1>10, ProcNonZero DEF Holds
<1>13. now = "yes" => Holds(p) BY <1>2, <1>4, <1>10 DEF Holds
<1>14. OneHolder' BY <1>12, <1>13 DEF HeadInv, OneHolder
<1>15. raced' = "no" => Untold' /\ told' \in Outcomes
  <2>1. CASE now = "yes" BY <1>4, <1>13, <2>1 DEF HeadInv, Untold
  <2>2. CASE now # "yes" BY <1>4, <1>12, <2>2 DEF HeadInv, Untold
  <2> QED BY <2>1, <2>2
<1>16. ClosedIsFinal' BY <1>3, <1>6 DEF ClosedIsFinal
<1> QED BY <1>5, <1>9, <1>11, <1>14, <1>15, <1>16 DEF HeadInv

\* A close event that launches.
LEMMA CloseRelaunchingIs ==
    ASSUME TypeOK, NEW p \in Proc, CloseRelaunching(p)
    PROVE  /\ life[p] \in Dead /\ job[p].phase = "on" /\ fails' \in 0..MaxFails
           /\ active' = 0 /\ busy' = "no" /\ UNCHANGED <<folder, host>>
           /\ life' \in [Proc -> Lives] /\ job' \in [Proc -> Jobs]
           /\ life'[p] = "gone" /\ job'[p].now = "no" /\ job'[p].phase = "on"
           /\ \A r \in Proc : r # p =>
                \/ job'[r] = job[r] /\ (life'[r] = "gone" <=> life[r] = "gone")
                   /\ (life[r] \in Dead => life'[r] \in Dead)
                \/ /\ job'[r].now = job[p].now /\ job'[r].phase = "on" /\ life'[r] # "gone"
                   /\ \A t \in Proc : t # p /\ t # r => job'[t] = job[t] /\ (life'[t] = "gone" <=> life[t] = "gone")
           /\ \E S \in Outcomes : told' = told \/ (job[p].now = "yes" /\ told' = told \cup S)
           /\ raced' = IF job[p].now = "yes" THEN "yes" ELSE raced
           /\ exit' \in {exit, "0", "1"} /\ (job[p].now # "yes" => exit' = exit)
<1> DEFINE killed == Kill(life, {active})
<1>1. /\ life \in [Proc -> Lives] /\ job \in [Proc -> Jobs] /\ job[p] \in Jobs /\ fails \in 0..MaxFails
      /\ job[p].now \in {"no", "yes"}
  BY DEF TypeOK, Lives, Jobs
<1>2. killed \in [Proc -> Lives]
      /\ \A r \in Proc : (killed[r] = "gone" <=> life[r] = "gone") /\ (life[r] \in Dead => killed[r] \in Dead)
  <2>1. "dead1" \in Dead BY DEF Dead
  <2> QED BY <1>1, <2>1, KillIs
<1>3. /\ life[p] \in Dead /\ job[p].phase = "on" /\ active' = 0 /\ busy' = "no"
      /\ UNCHANGED <<folder, host>>
      /\ raced' = IF job[p].now = "yes" THEN "yes" ELSE raced
  BY DEF CloseRelaunching
<1>4. fails' \in 0..MaxFails BY <1>1, GrokBounds DEF CloseRelaunching
<1>5. exit' \in {exit, "0", "1"} /\ (job[p].now # "yes" => exit' = exit)
  BY CodeType DEF CloseRelaunching
<1>6. \E S \in Outcomes : told' = told \/ (job[p].now = "yes" /\ told' = told \cup S)
  <2>1. PICK S \in Last(p, "left") : Hook(p, S) BY DEF CloseRelaunching
  <2> QED BY <1>1, <2>1, LastIs, HookIs
<1>7. "gone" \in Lives /\ "run" \in Lives /\ "stillborn" \in Lives /\ "gone" \notin Dead
  BY DEF Lives, Dead
<1>8. CASE \E q \in Proc, how \in {"run", "stillborn"} :
            /\ Free(q)
            /\ life' = [Kill(life, {active}) EXCEPT ![q] = how, ![p] = "gone"]
            /\ job' = [job EXCEPT ![q] = Job("stateless", job[p].now), ![p] = NoJob]
  <2>1. PICK q \in Proc, how \in {"run", "stillborn"} :
            /\ Free(q)
            /\ life' = [Kill(life, {active}) EXCEPT ![q] = how, ![p] = "gone"]
            /\ job' = [job EXCEPT ![q] = Job("stateless", job[p].now), ![p] = NoJob]
    BY <1>8
  <2>2. q # p BY <1>3, <1>7, <2>1 DEF Free
  <2>3. Job("stateless", job[p].now) \in Jobs /\ Job("stateless", job[p].now).now = job[p].now
        /\ Job("stateless", job[p].now).phase = "on"
    BY <1>1, JobType
  <2> HIDE DEF killed
  <2>4. PICK K : K = killed OBVIOUS
  <2>5. life' = [K EXCEPT ![q] = how, ![p] = "gone"] BY <2>1, <2>4 DEF killed
  <2>6. life' \in [Proc -> Lives] /\ life'[p] = "gone" /\ life'[q] = how
        /\ \A r \in Proc : r # p /\ r # q => life'[r] = K[r]
    BY <1>2, <1>7, <2>2, <2>4, <2>5
  <2>7. job' \in [Proc -> Jobs] /\ job'[p] = NoJob /\ job'[q] = Job("stateless", job[p].now)
        /\ \A r \in Proc : r # p /\ r # q => job'[r] = job[r]
    BY <1>1, <2>1, <2>2, <2>3, NoJobType
  <2> QED BY <1>2, <1>3, <1>4, <1>5, <1>6, <1>7, <2>2, <2>3, <2>4, <2>6, <2>7, NoJobType
<1>9. CASE life' = [Kill(life, {active}) EXCEPT ![p] = "gone"] /\ Set(p, NoJob)
  <2>1. life' = [killed EXCEPT ![p] = "gone"] BY <1>9
  <2> HIDE DEF killed
  <2>2. life' \in [Proc -> Lives] /\ life'[p] = "gone"
        /\ \A r \in Proc : r # p => life'[r] = killed[r]
    BY <1>2, <1>7, <2>1
  <2>3. job' \in [Proc -> Jobs] /\ job'[p] = NoJob /\ \A r \in Proc : r # p => job'[r] = job[r]
    BY <1>1, <1>9, NoJobType DEF Set
  <2> QED BY <1>2, <1>3, <1>4, <1>5, <1>6, <2>2, <2>3, NoJobType
<1> QED BY <1>8, <1>9 DEF CloseRelaunching

LEMMA CloseRelaunchingInv ==
    ASSUME TypeOK, HeadInv, NEW p \in Proc, CloseRelaunching(p)
    PROVE  TypeOK' /\ HeadInv'
<1>1. /\ life[p] \in Dead /\ job[p].phase = "on" /\ fails' \in 0..MaxFails
      /\ active' = 0 /\ busy' = "no" /\ UNCHANGED <<folder, host>>
      /\ life' \in [Proc -> Lives] /\ job' \in [Proc -> Jobs]
      /\ life'[p] = "gone" /\ job'[p].now = "no" /\ job'[p].phase = "on"
      /\ \A r \in Proc : r # p =>
           \/ job'[r] = job[r] /\ (life'[r] = "gone" <=> life[r] = "gone")
              /\ (life[r] \in Dead => life'[r] \in Dead)
           \/ /\ job'[r].now = job[p].now /\ job'[r].phase = "on" /\ life'[r] # "gone"
              /\ \A t \in Proc : t # p /\ t # r => job'[t] = job[t] /\ (life'[t] = "gone" <=> life[t] = "gone")
      /\ raced' = IF job[p].now = "yes" THEN "yes" ELSE raced
      /\ exit' \in {exit, "0", "1"} /\ (job[p].now # "yes" => exit' = exit)
  BY CloseRelaunchingIs
<1>2. PICK S \in Outcomes : told' = told \/ (job[p].now = "yes" /\ told' = told \cup S)
  BY CloseRelaunchingIs
<1>3. TypeOK'
  <2>1. told' \in SUBSET {"Stop", "StopFailure"} BY <1>2 DEF TypeOK, Outcomes
  <2>2. active' \in 0..MaxProc BY <1>1, ProcNonZero
  <2> QED BY <1>1, <2>1, <2>2, TypesAre DEF TypeOK, Lives
<1>4. "gone" \notin Dead BY DEF Dead
<1>5. BusyHasProcess' BY <1>1 DEF BusyHasProcess
<1>6. LeftIsDead'
  <2>1. ASSUME NEW r \in Proc, job'[r].phase = "left" PROVE life'[r] \in Dead /\ r # active'
    <3>1. r # p /\ job'[r] = job[r] /\ (life[r] \in Dead => life'[r] \in Dead)
      BY <1>1, <2>1
    <3> QED BY <1>1, <2>1, <3>1, ProcNonZero DEF HeadInv, LeftIsDead
  <2> QED BY <2>1 DEF LeftIsDead
<1>7. ASSUME NEW r \in Proc, Holds(r)'
      PROVE  (Holds(r) /\ job'[r] = job[r]) \/ job[p].now = "yes"
  BY <1>1, <1>7 DEF Holds
<1>8. job[p].now = "yes" => Holds(p) BY <1>1, <1>4 DEF Holds
<1>9. OneHolder'
  <2>1. ASSUME NEW r \in Proc, NEW t \in Proc, Holds(r)', Holds(t)' PROVE r = t
    BY <1>1, <1>8, <2>1 DEF HeadInv, OneHolder, Holds
  <2> QED BY <2>1 DEF OneHolder
<1>10. raced' = "no" => Untold' /\ told' \in Outcomes
  BY <1>1, <1>2, <1>7 DEF HeadInv, Untold
<1>11. ClosedIsFinal' BY <1>1 DEF ClosedIsFinal
<1> QED BY <1>3, <1>5, <1>6, <1>9, <1>10, <1>11 DEF HeadInv

LEMMA OneStepInv == ASSUME TypeOK, HeadInv, NEW p \in Proc, OneStep(p) PROVE TypeOK' /\ HeadInv'
<1>1. PICK j \in Jobs : Shape(p, j) BY OneStepIs
<1>2. /\ life \in [Proc -> Lives] /\ job \in [Proc -> Jobs] /\ life[p] # "gone" BY <1>1 DEF TypeOK, Lives, Shape
<1>3. job'[p] = j /\ job' \in [Proc -> Jobs] /\ \A r \in Proc : r # p => job'[r] = job[r] /\ life'[r] = life[r]
  BY <1>1, <1>2 DEF Shape
<1>4. NoJob.phase = "on" /\ NoJob.now = "no" /\ NoJob.mode = "stateless" BY JobType DEF NoJob
<1>5. told' = told \/ \E S \in Outcomes : told' = told \cup S BY <1>1 DEF Shape, Tells
<1>6. TypeOK'
  <2>1. told' \in SUBSET {"Stop", "StopFailure"} BY <1>5 DEF TypeOK, Outcomes
  <2>2. active' \in 0..MaxProc /\ busy' \in {"no", "yes"} BY <1>1, ProcNonZero DEF Shape, TypeOK
  <2> QED BY <1>1, <1>3, <2>1, <2>2 DEF TypeOK, Lives, Shape
<1>7. BusyHasProcess'
  <2>1. CASE busy' = "no" BY <2>1 DEF BusyHasProcess
  <2>2. CASE active' = active /\ busy' = busy /\ busy = "yes"
    <3>1. active # 0 /\ life[active] # "gone" /\ active \in Proc
      BY <2>2 DEF HeadInv, BusyHasProcess, TypeOK, Proc
    <3>2. life'[active] # "gone"
      <4>1. CASE active = p BY <1>1, <2>2, <3>1, <4>1 DEF Shape, HeadInv, LeftIsDead
      <4>2. CASE active # p BY <1>3, <3>1, <4>2
      <4> QED BY <4>1, <4>2
    <3> QED BY <2>2, <3>1, <3>2 DEF BusyHasProcess
  <2> QED BY <1>1, <2>1, <2>2 DEF Shape, TypeOK
<1>8. LeftIsDead'
  <2>1. j.phase # "left" BY <1>1, <1>4 DEF Shape
  <2> QED BY <1>1, <1>3, <2>1, ProcNonZero DEF HeadInv, LeftIsDead, Shape
<1>9. \A r \in Proc : Holds(r)' => Holds(r) BY <1>1, <1>2, <1>3, <1>4 DEF Holds, Shape
<1>10. OneHolder' BY <1>9 DEF HeadInv, OneHolder
<1>11. raced' = "no" => Untold' /\ told' \in Outcomes
  <2> SUFFICES ASSUME raced' = "no" PROVE Untold' /\ told' \in Outcomes OBVIOUS
  <2>1. Untold /\ told \in Outcomes BY <1>1 DEF HeadInv, Shape
  <2>2. CASE told' = told /\ (life'[p] # "gone" /\ j.phase \in {"on", "wd"} => job[p].phase \in {"on", "wd"})
    <3>1. \A r \in Proc : Holds(r)' /\ job'[r].phase \in {"on", "wd"} => Holds(r) /\ job[r].phase \in {"on", "wd"}
      BY <1>3, <1>9, <2>2 DEF Holds
    <3> QED BY <2>1, <2>2, <3>1 DEF Untold
  <2>3. CASE /\ job[p].now = "yes" /\ job[p].phase \in {"on", "wd"}
             /\ \E S \in Outcomes : told' = told \cup S
             /\ life'[p] = "gone" \/ j.phase \notin {"on", "wd"}
    <3>1. Holds(p) BY <1>2, <2>3 DEF Holds
    <3>2. told = {} BY <2>1, <2>3, <3>1 DEF Untold
    <3>3. told' \in Outcomes BY <2>3, <3>2
    <3>4. \A r \in Proc : Holds(r)' => r = p BY <1>9, <3>1 DEF HeadInv, OneHolder
    <3>5. Untold' BY <1>3, <2>3, <3>4 DEF Untold, Holds
    <3> QED BY <3>3, <3>5
  <2> QED BY <1>1, <2>2, <2>3 DEF Shape, Tells
<1>12. ClosedIsFinal'
  <2>1. job'[p].mode \in {job[p].mode, "stateless"} BY <1>1, <1>3, <1>4 DEF Shape
  <2>2. active' = 0 \/ (active' = active /\ active \in Proc) \/ active = 0
    BY <1>1 DEF Shape, TypeOK, Proc
  <2>3. host' = host BY <1>1 DEF Shape
  <2> QED BY <1>1, <1>3, <2>1, <2>2, <2>3 DEF HeadInv, ClosedIsFinal, Shape
<1> QED BY <1>6, <1>7, <1>8, <1>10, <1>11, <1>12 DEF HeadInv

LEMMA HostInv ==
    ASSUME TypeOK, HeadInv, SeesExit \/ GiveUp \/ Teardown \/ Reopen
    PROVE  TypeOK' /\ HeadInv'
<1>1. CASE SeesExit \/ GiveUp \/ Reopen
  <2>1. TypeOK' BY <1>1 DEF TypeOK, SeesExit, GiveUp, Reopen
  <2>2. /\ UNCHANGED <<active, life, job, told, raced>> /\ busy' \in {busy, "no"}
        /\ host' # "closed"
    BY <1>1 DEF SeesExit, GiveUp, Reopen
  <2>3. HeadInv'
    BY <2>2 DEF HeadInv, BusyHasProcess, LeftIsDead, OneHolder, Untold, ClosedIsFinal, Holds
  <2> QED BY <2>1, <2>3
<1>2. CASE Teardown
  <2>1. life \in [Proc -> Lives] BY TypesAre
  <2>2. /\ life' \in [Proc -> Lives]
        /\ \A r \in Proc : (life'[r] = "gone" <=> life[r] = "gone") /\ (life[r] \in Dead => life'[r] \in Dead)
    <3>1. "dead1" \in Dead BY DEF Dead
    <3> QED BY <1>2, <2>1, <3>1, KillIs DEF Teardown
  <2>3. active' = 0 /\ busy' = "no" /\ fails' = 0 /\ host' = "closed" /\ UNCHANGED <<folder, exit, job, told, raced>>
    BY <1>2 DEF Teardown
  <2>4. TypeOK' BY <2>2, <2>3, GrokBounds DEF TypeOK, Lives
  <2>5. LeftIsDead' BY <2>2, <2>3, ProcNonZero DEF HeadInv, LeftIsDead
  <2>6. \A r \in Proc : Holds(r)' <=> Holds(r) BY <2>2, <2>3 DEF Holds
  <2>7. OneHolder' /\ (Untold => Untold') BY <2>3, <2>6 DEF HeadInv, OneHolder, Untold
  <2>8. BusyHasProcess' /\ ClosedIsFinal' BY <2>3 DEF BusyHasProcess, ClosedIsFinal
  <2> QED BY <2>3, <2>4, <2>5, <2>7, <2>8 DEF HeadInv
<1> QED BY <1>1, <1>2

LEMMA InitInv == Init => TypeOK /\ HeadInv
<1> SUFFICES ASSUME Init PROVE TypeOK /\ HeadInv OBVIOUS
<1>1. TypeOK BY GrokBounds, NoJobType DEF Init, TypeOK
<1>2. HeadInv
  BY NoJobType DEF Init, HeadInv, BusyHasProcess, LeftIsDead, OneHolder, Untold, ClosedIsFinal, Holds, Outcomes
<1> QED BY <1>1, <1>2

LEMMA StepInv == TypeOK /\ HeadInv /\ [Next]_vars => TypeOK' /\ HeadInv'
<1> SUFFICES ASSUME TypeOK, HeadInv, [Next]_vars PROVE TypeOK' /\ HeadInv' OBVIOUS
<1>1. CASE UNCHANGED vars
  BY <1>1 DEF vars, TypeOK, HeadInv, BusyHasProcess, LeftIsDead, OneHolder, Untold, ClosedIsFinal, Holds
<1>2. CASE Next
  BY <1>2, StepsAre, DispatchInv, HostInv, OneStepInv, RelaunchInv, CloseRelaunchingInv
<1> QED BY <1>1, <1>2

LEMMA Always == Spec => [](TypeOK /\ HeadInv)
BY InitInv, StepInv, PTL DEF Spec

\* What the provider keeps of its processes is true: a workspace that looks busy
\* has a process whose close event is to come, and a turn is not reported both as
\* finished and as failed unless a close event launched it again.
THEOREM HeadlessCorrect == Spec => []HeadlessHolds
<1>1. TypeOK /\ HeadInv => HeadlessHolds BY DEF HeadInv, HeadlessHolds, OneOutcome, TypeOK, Outcomes
<1> QED BY <1>1, Always, PTL

-----------------------------------------------------------------------------
(* Steps. *)

\* The exit file is not written while a process of the turn runs.
LEMMA ExitStep ==
    ASSUME TypeOK, HeadInv, Next, exit' \in {"0", "1"}, exit' # exit, raced' # "yes",
           NEW r \in Proc, life'[r] = "run"
    PROVE  job'[r].now = "no"
<1>0. /\ life \in [Proc -> Lives] /\ job \in [Proc -> Jobs] /\ \A q \in Proc : job[q].now \in {"no", "yes"}
  BY DEF TypeOK, Lives, Jobs
<1>1. \A q \in Proc : life[q] = "run" /\ job[q].now = "yes" => Holds(q)
  <2>1. "run" \notin Dead BY DEF Dead
  <2> QED BY <2>1 DEF HeadInv, LeftIsDead, Holds
<1>2. CASE Dispatch
  <2>1. PICK m \in {"continue", "new", "stateless"}, jf \in [Proc -> Jobs] :
            (\A p \in Proc : jf[p].now = "no") /\ Launch(m, "yes", life, jf)
    BY <1>2, DispatchIs
  <2>2. /\ exit' = "empty" \/ active' = 0
        /\ \A q \in Proc : q # active' => job'[q] = jf[q]
    BY <1>0, <2>1, LaunchKeeps
  <2> QED BY <2>1, <2>2, ProcNonZero
<1>3. CASE SeesExit \/ GiveUp \/ Teardown \/ Reopen
  BY <1>3 DEF SeesExit, GiveUp, Teardown, Reopen
<1>4. ASSUME NEW p \in Proc, OneStep(p) PROVE job'[r].now = "no"
  <2>1. PICK j \in Jobs : Shape(p, j) BY <1>4, OneStepIs
  <2>2. Holds(p) /\ life[p] # "run" BY <2>1 DEF Shape, Holds
  <2>3. r # p /\ life[r] = "run" /\ job'[r] = job[r] BY <1>0, <2>1, <2>2 DEF Shape
  <2> QED BY <1>0, <1>1, <2>2, <2>3 DEF HeadInv, OneHolder
<1>5. ASSUME NEW p \in Proc, Relaunching(p) PROVE job'[r].now = "no"
  <2>1. PICK lf \in [Proc -> Lives], jf \in [Proc -> Jobs] :
            /\ \A q \in Proc : lf[q] = IF q = p /\ life[q] = "run" THEN "dead1" ELSE life[q]
            /\ \A q \in Proc : q # p => jf[q] = job[q]
            /\ job[p].now \in {"no", "yes"}
            /\ Launch("stateless", job[p].now, lf, jf)
    BY <1>5, RelaunchIs DEF Relaunching
  <2>2. PICK now \in {"no", "yes"} : now = job[p].now BY <2>1
  <2>3. /\ exit' = exit \/ (now = "yes" /\ (exit' = "empty" \/ active' = 0))
        /\ \A q \in Proc : q # active' => job'[q] = jf[q] /\ (life'[q] = "run" => lf[q] = "run")
    BY <2>1, <2>2, LaunchKeeps
  <2>4. r # active' /\ job[p].now = "yes" BY <2>2, <2>3, ProcNonZero
  <2>5. r # p /\ life[r] = "run" /\ job'[r] = job[r] BY <2>1, <2>3, <2>4
  <2>6. Holds(p) BY <1>5, <2>4 DEF Relaunching, Holds, Dead
  <2> QED BY <1>0, <1>1, <2>5, <2>6 DEF HeadInv, OneHolder
<1>6. ASSUME NEW p \in Proc, CloseRelaunching(p) PROVE job'[r].now = "no"
  BY <1>6, CloseRelaunchingIs
<1> QED BY <1>2, <1>3, <1>4, <1>5, <1>6, StepsAre

\* A process becomes unknown only by an event of another.
LEMMA UntrackedStep ==
    ASSUME TypeOK, HeadInv, [Next]_vars, NEW p \in Untracked' \ Untracked
    PROVE  \E q \in Proc : q # p /\ life[q] \in Dead \cup {"stillborn"} /\ life'[q] # life[q]
<1>0. life \in [Proc -> Lives] /\ p \in Proc /\ life'[p] = "run" /\ p # active'
      /\ (life[p] = "run" => p = active)
  BY TypesAre DEF Untracked
<1>1. ASSUME NEW m \in {"continue", "new", "stateless"}, NEW now \in {"no", "yes"},
             NEW lf \in [Proc -> Lives], NEW jf \in [Proc -> Jobs], Launch(m, now, lf, jf),
             lf[p] = "run" => life[p] = "run"
      PROVE  FALSE
  <2>1. lf[p] = "run" /\ p # active BY <1>0, <1>1, LaunchKeeps
  <2> QED BY <1>0, <1>1, <2>1
<1>2. CASE Dispatch BY <1>0, <1>1, <1>2, DispatchIs
<1>3. CASE SeesExit \/ GiveUp \/ Reopen \/ UNCHANGED vars
  BY <1>0, <1>3 DEF SeesExit, GiveUp, Reopen, vars
<1>4. CASE Teardown
  <2>1. life' = Kill(life, {active}) BY <1>4 DEF Teardown
  <2>2. life'[p] = IF p \in {active} /\ life[p] = "run" THEN "dead1" ELSE life[p] BY <1>0, <2>1, KillIs
  <2> QED BY <1>0, <2>2
<1>5. ASSUME NEW q \in Proc, OneStep(q)
      PROVE  \E r \in Proc : r # p /\ life[r] \in Dead \cup {"stillborn"} /\ life'[r] # life[r]
  <2>1. PICK j \in Jobs : Shape(q, j) BY <1>5, OneStepIs
  <2>2. life[p] = "run" BY <1>0, <2>1 DEF Shape
  <2>3. active' # active BY <1>0, <2>2
  <2>4. life[q] \in Dead \cup {"stillborn"} /\ life'[q] # life[q] BY <2>1, <2>3 DEF Shape
  <2>5. q # p BY <2>2, <2>4 DEF Dead
  <2> QED BY <2>4, <2>5
<1>6. ASSUME NEW q \in Proc, Relaunching(q) PROVE FALSE
  <2>1. PICK lf \in [Proc -> Lives], jf \in [Proc -> Jobs] :
            /\ \A r \in Proc : lf[r] = IF r = q /\ life[r] = "run" THEN "dead1" ELSE life[r]
            /\ job[q].now \in {"no", "yes"}
            /\ Launch("stateless", job[q].now, lf, jf)
    BY <1>6, RelaunchIs DEF Relaunching
  <2> QED BY <1>0, <1>1, <2>1
<1>7. ASSUME NEW q \in Proc, CloseRelaunching(q)
      PROVE  \E r \in Proc : r # p /\ life[r] \in Dead \cup {"stillborn"} /\ life'[r] # life[r]
  <2>1. life[q] \in Dead /\ life'[q] = "gone" BY <1>7, CloseRelaunchingIs
  <2> QED BY <1>0, <2>1 DEF Dead
<1> QED BY <1>2, <1>3, <1>4, <1>5, <1>6, <1>7, StepsAre

\* Only a launch starts a process.
LEMMA StartStep ==
    ASSUME TypeOK, HeadInv, [Next]_vars, host = "closed",
           NEW p \in Proc, life[p] = "gone", life'[p] # "gone"
    PROVE  (\E q \in Proc : life[q] \in Dead) \/ Untracked # {}
<1>0. life \in [Proc -> Lives] /\ "gone" \notin Dead BY TypesAre DEF Dead
<1>1. ASSUME NEW q \in Proc, OneStep(q) PROVE FALSE
  <2>1. PICK j \in Jobs : Shape(q, j) BY <1>1, OneStepIs
  <2> QED BY <2>1 DEF Shape
<1>2. CASE SeesExit \/ GiveUp \/ Teardown \/ Reopen \/ Dispatch \/ UNCHANGED vars
  BY <1>2, DispatchIs DEF SeesExit, GiveUp, Teardown, Reopen, vars
<1>3. ASSUME NEW q \in Proc, Relaunching(q)
      PROVE  (\E r \in Proc : life[r] \in Dead) \/ Untracked # {}
  <2>1. CASE life[q] \in Dead BY <2>1
  <2>2. CASE life[q] = "run"
    <3>1. q # active BY <1>3, ProcNonZero DEF Relaunching, HeadInv, ClosedIsFinal
    <3> QED BY <2>2, <3>1 DEF Untracked
  <2> QED BY <1>3, <2>1, <2>2 DEF Relaunching
<1>4. ASSUME NEW q \in Proc, CloseRelaunching(q) PROVE \E r \in Proc : life[r] \in Dead
  BY <1>4, CloseRelaunchingIs
<1> QED BY <1>1, <1>2, <1>3, <1>4, StepsAre

\* No step writes an exit while the turn runs, loses a process but by the event
\* of another, or starts one after a teardown it did not race with.
THEOREM StepsCorrect == Spec => HeadlessSteps
<1> DEFINE ExitAction == exit' \in {"0", "1"} /\ exit' # exit
              => \/ raced' = "yes"
                 \/ \A p \in Proc : life'[p] = "run" => job'[p].now = "no"
           TrackAction == \A p \in Untracked' \ Untracked :
              \E q \in Proc : q # p /\ life[q] \in Dead \cup {"stillborn"} /\ life'[q] # life[q]
           StartAction == host = "closed" /\ (\E p \in Proc : life[p] = "gone" /\ life'[p] # "gone")
              => (\E q \in Proc : life[q] \in Dead) \/ Untracked # {}
<1>1. TypeOK /\ HeadInv /\ [Next]_vars => [ExitAction]_vars BY ExitStep
<1>2. TypeOK /\ HeadInv /\ [Next]_vars => [TrackAction]_vars BY UntrackedStep
<1>3. TypeOK /\ HeadInv /\ [Next]_vars => [StartAction]_vars BY StartStep
<1> QED
  BY <1>1, <1>2, <1>3, Always, PTL
     DEF Spec, HeadlessSteps, ExitIsLast, UntrackedComesFrom, NoStartAfterTeardown
=============================================================================
