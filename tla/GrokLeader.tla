----------------------------- MODULE GrokLeader -----------------------------
(***************************************************************************)
(* The backend of grok that outlives the loop (grok/leader.ts, keepalive.ts, *)
(* and its use in grok/tui.ts): a detached leader keeps the conversation in   *)
(* memory, a detached keepalive client keeps the leader from dropping it, and *)
(* a file tells the next loop which processes these are.  The loop finds and  *)
(* adopts them, or starts new ones; leader-stop ends them.                    *)
(*                                                                         *)
(* A backend is a number: its leader and its keepalive.  The conversation is *)
(* "first", and "later" once it had to be begun anew.  Process ids that are   *)
(* given out again are not shown.                                           *)
(***************************************************************************)
EXTENDS Naturals

CONSTANTS
    GlMaxBackend,   \* bound: backends started
    GlMaxFaults     \* bound: deaths of a process of grok, loads refused

GlBackend == 1..GlMaxBackend

VARIABLES
    glFile,         \* leader.json: the backend, and its session
    glSocket,       \* whose leader is behind the socket file, 0 when there is none
    glSid,          \* the file the keepalive writes
    glSaved,        \* session-state.json
    glLeader,       \* leaders: "none", "boot": not bound yet, "up"
    glKeep,         \* keepalives: the leader they are connected to, 0 for none
    glSeed,         \* the session a keepalive is to load
    glWarm,         \* the session in each leader's memory
    glLoop,         \* the loop: the backend it starts, the leader its client is
                    \* connected to
    glFaults,
    glCut,          \* history: backends whose start was cut short
    glWhy           \* history: why a conversation may be gone

glVars == <<glFile, glSocket, glSid, glSaved, glLeader, glKeep, glSeed, glWarm, glLoop,
            glFaults, glCut, glWhy>>

GlSession == {"none", "first", "later"}
NoFile == [of |-> 0, sid |-> "none"]
Loop(pc, b) == [pc |-> pc, b |-> b]

GlTypeOK ==
    /\ glFile \in [of : 0..GlMaxBackend, sid : GlSession]
    /\ glSocket \in 0..GlMaxBackend /\ glSid \in GlSession /\ glSaved \in GlSession
    /\ glLeader \in [GlBackend -> {"new", "none", "boot", "up"}]
    /\ glKeep \in [GlBackend -> 0..GlMaxBackend]
    /\ glSeed \in [GlBackend -> GlSession] /\ glWarm \in [GlBackend -> GlSession]
    /\ glLoop \in [pc : {"off", "idle", "socket", "sid", "attached", "plain"}, b : 0..GlMaxBackend]
    /\ glFaults \in 0..GlMaxFaults /\ glCut \subseteq GlBackend
    /\ glWhy \subseteq {"refused", "poison"}

GlInit ==
    /\ glFile = NoFile /\ glSocket = 0 /\ glSid = "none" /\ glSaved = "first"
    /\ glLeader = [b \in GlBackend |-> "new"] /\ glKeep = [b \in GlBackend |-> 0]
    /\ glSeed = [b \in GlBackend |-> "none"] /\ glWarm = [b \in GlBackend |-> "none"]
    /\ glLoop = Loop("off", 0)
    /\ glFaults = 0 /\ glCut = {} /\ glWhy = {}

Alive(b) == glLeader[b] \in {"boot", "up"}

\* Who is left of the keepalives once the processes of ks are killed, and those of the
\* leaders in ls: a keepalive exits with its leader.
KeepsWithout(ks, ls) ==
    [b \in GlBackend |-> IF b \in ks \/ glKeep[b] \in ls THEN 0 ELSE glKeep[b]]

\* A leader keeps a session only as long as a client is connected.
WarmWith(keeps, loop, leaders) ==
    [b \in GlBackend |->
        IF leaders[b] = "up" /\ ((\E k \in GlBackend : keeps[k] = b)
                                 \/ loop = Loop("attached", b))
        THEN glWarm[b] ELSE "none"]

\* killProcessTree of the leader and keepalive of every backend in bs.
Kill(bs, loop) ==
    /\ glLeader' = [b \in GlBackend |-> IF b \in bs /\ Alive(b) THEN "none" ELSE glLeader[b]]
    /\ glKeep' = KeepsWithout(bs, {b \in bs : Alive(b)})
    /\ glWarm' = WarmWith(glKeep', loop, glLeader')

(***************************************************************************)
(* ensureLeader                                                            *)
(***************************************************************************)

\* leaderHealthy: both processes live, and there is a socket file.
Healthy ==
    /\ glFile.of # 0 /\ Alive(glFile.of) /\ glKeep[glFile.of] # 0
    /\ glSocket # 0

Adopts ==
    /\ glLoop.pc = "idle" /\ Healthy
    /\ glLoop' = Loop("attached", glSocket)
    /\ UNCHANGED <<glFile, glSocket, glSid, glSaved, glLeader, glKeep, glSeed, glWarm, glFaults,
                   glCut, glWhy>>

\* What the file tells of is reaped; the socket file goes, and a leader is spawned.
Starts(b) ==
    /\ glLoop.pc = "idle" /\ ~Healthy
    /\ glLeader[b] = "new" /\ \A c \in 1..(b - 1) : glLeader[c] # "new"
    /\ glLoop' = Loop("socket", b)
    /\ LET reaped == {glFile.of} \ {0} IN
       /\ glLeader' = [c \in GlBackend |->
                        IF c = b THEN "boot" ELSE IF c \in reaped /\ Alive(c) THEN "none" ELSE glLeader[c]]
       /\ glKeep' = KeepsWithout(reaped, {c \in reaped : Alive(c)})
       /\ glWarm' = WarmWith(glKeep', glLoop', glLeader')
    /\ glFile' = NoFile /\ glSocket' = 0
    /\ UNCHANGED <<glSid, glSaved, glSeed, glFaults, glCut, glWhy>>

\* There is a socket file (any leader may be behind it): the keepalive is spawned, with
\* the saved session to load.
SocketSeen ==
    /\ glLoop.pc = "socket" /\ glSocket # 0
    /\ glSid' = "none"
    /\ glKeep' = [glKeep EXCEPT ![glLoop.b] = glSocket]
    /\ glSeed' = [glSeed EXCEPT ![glLoop.b] = glSaved]
    /\ glLoop' = Loop("sid", glLoop.b)
    /\ UNCHANGED <<glFile, glSocket, glSaved, glLeader, glWarm, glFaults, glCut, glWhy>>

\* The keepalive told its session: the file is written, the loop's client connects.
SidSeen ==
    /\ glLoop.pc = "sid" /\ glSid # "none"
    /\ glFile' = [of |-> glLoop.b, sid |-> glSid] /\ glSaved' = glSid
    /\ glLoop' = Loop("attached", glSocket)
    /\ UNCHANGED <<glSocket, glSid, glLeader, glKeep, glSeed, glWarm, glFaults, glCut, glWhy>>

\* No socket, or no session, within 30 s: what was spawned is killed, and the loop goes
\* without a leader from now on (_leaderUnavailable).
StartTimesOut ==
    /\ glLoop.pc \in {"socket", "sid"}
    /\ glLoop' = Loop("plain", 0)
    /\ Kill({glLoop.b}, glLoop')
    /\ UNCHANGED <<glFile, glSocket, glSid, glSaved, glSeed, glFaults, glCut, glWhy>>

(***************************************************************************)
(* The loop and the app                                                    *)
(***************************************************************************)

LoopStarts ==
    /\ glLoop.pc = "off"
    /\ glLoop' = Loop("idle", 0)
    /\ UNCHANGED <<glFile, glSocket, glSid, glSaved, glLeader, glKeep, glSeed, glWarm, glFaults,
                   glCut, glWhy>>

\* The loop is stopped or killed: its client goes with it, the detached processes stay.
LoopDies ==
    /\ glLoop.pc # "off"
    /\ glLoop' = Loop("off", 0)
    /\ glCut' = IF glLoop.pc \in {"socket", "sid"} THEN glCut \cup {glLoop.b} ELSE glCut
    /\ glWarm' = WarmWith(glKeep, glLoop', glLeader)
    /\ UNCHANGED <<glFile, glSocket, glSid, glSaved, glLeader, glKeep, glSeed, glFaults, glWhy>>

\* A turn of the loop's client, when the leader does not know the session: the backend
\* is reaped, the saved id dropped, and all begun anew (recoverLeaderPoison).
Poisoned ==
    /\ glLoop.pc = "attached" /\ glLoop.b # 0 /\ glLeader[glLoop.b] = "up"
    /\ glWarm[glLoop.b] # glFile.sid
    /\ glLoop' = Loop("idle", 0)
    /\ Kill({glFile.of} \ {0}, glLoop')
    /\ glFile' = NoFile /\ glSocket' = 0 /\ glSid' = "none" /\ glSaved' = "none"
    /\ glWhy' = glWhy \cup {"poison"}
    /\ UNCHANGED <<glSeed, glFaults, glCut>>

\* The client found its leader gone; the next turn looks for a backend again.
ClientEnds ==
    /\ glLoop.pc = "attached"
    /\ glLoop.b \notin {b \in GlBackend : glLeader[b] = "up"}
    /\ glLoop' = Loop("idle", 0)
    /\ UNCHANGED <<glFile, glSocket, glSid, glSaved, glLeader, glKeep, glSeed, glWarm, glFaults,
                   glCut, glWhy>>

\* leader-stop, by the app: what the file tells of is killed, and all files go.
LeaderStop ==
    /\ glFile.of # 0 \/ glSocket # 0 \/ glSid # "none"
    /\ Kill({glFile.of} \ {0}, glLoop)
    /\ glFile' = NoFile /\ glSocket' = 0 /\ glSid' = "none"
    /\ UNCHANGED <<glSaved, glSeed, glLoop, glFaults, glCut, glWhy>>

(***************************************************************************)
(* The processes of grok                                                   *)
(***************************************************************************)

LeaderBinds(b) ==
    /\ glLeader[b] = "boot"
    /\ glLeader' = [glLeader EXCEPT ![b] = IF glSocket = 0 THEN "up" ELSE "none"]
    /\ glSocket' = IF glSocket = 0 THEN b ELSE glSocket
    /\ UNCHANGED <<glFile, glSid, glSaved, glKeep, glSeed, glWarm, glLoop, glFaults, glCut, glWhy>>

Refused(b) == glFaults < GlMaxFaults /\ glSeed[b] # "none"

\* runKeepalive: the seed is loaded; when it is refused, or there is none, a new session
\* is made.  The id is written to the file.
KeepEstablishes(b) ==
    /\ glKeep[b] # 0 /\ glWarm[glKeep[b]] = "none" /\ glLeader[glKeep[b]] = "up"
    /\ \/ /\ glSeed[b] # "none"
          /\ glSid' = glSeed[b]
          /\ UNCHANGED <<glFaults, glWhy>>
       \/ /\ Refused(b)
          /\ glFaults' = glFaults + 1 /\ glWhy' = glWhy \cup {"refused"}
          /\ glSid' = "later"
       \/ /\ glSeed[b] = "none"
          /\ glSid' = "later"
          /\ UNCHANGED <<glFaults, glWhy>>
    /\ glWarm' = [glWarm EXCEPT ![glKeep[b]] = glSid']
    /\ UNCHANGED <<glFile, glSocket, glSaved, glLeader, glKeep, glSeed, glLoop, glCut>>

LeaderDies(b) ==
    /\ Alive(b) /\ glFaults < GlMaxFaults
    /\ glFaults' = glFaults + 1
    /\ glLeader' = [glLeader EXCEPT ![b] = "none"]
    /\ glKeep' = KeepsWithout({}, {b})
    /\ glWarm' = WarmWith(glKeep', glLoop, glLeader')
    /\ UNCHANGED <<glFile, glSocket, glSid, glSaved, glSeed, glLoop, glCut, glWhy>>

KeepDies(b) ==
    /\ glKeep[b] # 0 /\ glFaults < GlMaxFaults
    /\ glFaults' = glFaults + 1
    /\ glKeep' = KeepsWithout({b}, {})
    /\ glWarm' = WarmWith(glKeep', glLoop, glLeader)
    /\ UNCHANGED <<glFile, glSocket, glSid, glSaved, glLeader, glSeed, glLoop, glCut, glWhy>>

GlNext ==
    \/ Adopts \/ SocketSeen \/ SidSeen \/ StartTimesOut
    \/ LoopStarts \/ LoopDies \/ Poisoned \/ ClientEnds \/ LeaderStop
    \/ \E b \in GlBackend : Starts(b) \/ LeaderBinds(b) \/ KeepEstablishes(b)
                            \/ LeaderDies(b) \/ KeepDies(b)

\* The waits of ensureLeader have a deadline.
GlFairness == WF_glVars(SocketSeen \/ SidSeen \/ StartTimesOut)

GlSpec == GlInit /\ [][GlNext]_glVars /\ GlFairness

(***************************************************************************)
(* Properties                                                              *)
(***************************************************************************)

\* Every leader that runs can be found again: it is in the file, or being started; one
\* that is not was left by a loop that died while it started it (leader.ts:28-32: the
\* pids are tracked because grok itself cannot list them).
Known(b) == glFile.of = b \/ (glLoop.pc \in {"socket", "sid"} /\ glLoop.b = b)
LeakComesFrom == \A b \in GlBackend : Alive(b) => Known(b) \/ b \in glCut

\* A keepalive never holds a leader of another backend, unless that one's start was cut.
PairsComeFrom == \A b \in GlBackend : glKeep[b] \notin {0, b} => glKeep[b] \in glCut

\* The conversation is given up only when grok refuses to load it, or when the client is
\* told that its session is unknown, and that only after a process died, a load was
\* refused or a start was cut short: orderly restarts do not cost it (leader.ts:26-27:
\* "never data-loss").
LossComesFrom == (glSaved # "first" => glWhy # {}) /\ (glWhy # {} => glFaults > 0 \/ glCut # {})

\* What is kept of the detached processes, and through them, in the parts above.
GlBackendsHold == LeakComesFrom /\ PairsComeFrom /\ LossComesFrom

Starting == glLoop.pc \in {"socket", "sid"}

\* A start of a backend comes to an end (leader.ts:165-169).
StartEnds == Starting ~> ~Starting
=============================================================================
