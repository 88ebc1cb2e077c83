---------------------------- MODULE SessionTail ----------------------------
(***************************************************************************)
(* What the office is told of grok's tool calls, read by polling off the   *)
(* log a grok session appends to: by the turn of the loop that runs grok   *)
(* (grokLoopForwardHooks for a process per turn, scanGrokToolEvents for    *)
(* the pane) and by the bridge (grokTick), which stands back while a loop  *)
(* is alive.  Each reader keeps a byte offset and passes over nothing but  *)
(* complete lines.                                                         *)
(*                                                                         *)
(* A session's log is a sequence of records and maybe one half-written     *)
(* record after them.  An offset counts half records: 2n is the end of the *)
(* n-th one, and an odd one lies within a record.                          *)
(***************************************************************************)
EXTENDS Naturals, Sequences, FiniteSets

CONSTANTS
  StMaxRec,    \* bound: records in all the logs
  StMaxTurn,   \* bound: turns of the loop
  StMaxFaults  \* bound: kills of grok and of the loop, lines torn

VARIABLES
  stLog,     \* [StDir -> the complete lines of that session's log]
  stHalf,    \* [StDir -> the half-written record at the end, or Nothing]
  stNewest,  \* the session written to last, 0 for none
  stMade,    \* records made: numbers the calls
  stLoop,    \* the loop is alive and its forwarder lock fresh
  stTurn,    \* the loop's turn, a record
  stGrok,    \* the grok of that turn: "none", "runs", "gone"
  stSeen,    \* _emittedToolIds
  stPending, \* pendingTools, of the pane's turn
  stBridge,  \* the bridge's tailer: dir, offset, the sessions it has read
  stFed,     \* what the office was told: <<call, "pre" | "post", teller>>
  stTwice,   \* history: what was told again, and how that came
  stMissed,  \* history: calls of the turn that were due when it ended, not told
  stFaults

stVars == <<stLog, stHalf, stNewest, stMade, stLoop, stTurn, stGrok, stSeen, stPending, stBridge,
            stFed, stTwice, stMissed, stFaults>>

StDir == 1..3
OwnDir == 1      \* the session the loop resumes
FreshDir == 2    \* the one grok makes in a turn without a session
UserDir == 3     \* one the user works in, in the same folder

Nothing == [k |-> "none", t |-> 0, i |-> 0]
Record(k, t, i) == [k |-> k, t |-> t, i |-> i]

NoTurn == [n |-> 0, mode |-> "none", st |-> "idle", dir |-> 0, off |-> 0, seedDir |-> 0, seedOff |-> 0,
           begun |-> FALSE, endedBy |-> 0]

\* The size of a log, and the end of its last complete line.
Size(d) == 2 * Len(stLog[d]) + (IF stHalf[d] = Nothing THEN 0 ELSE 1)
Whole(d) == 2 * Len(stLog[d])

StInit ==
  /\ stLog = [d \in StDir |-> <<>>] /\ stHalf = [d \in StDir |-> Nothing]
  /\ stNewest = 0 /\ stMade = 0
  /\ stLoop = TRUE /\ stTurn = NoTurn /\ stGrok = "none"
  /\ stSeen = {} /\ stPending = {}
  /\ stBridge = [dir |-> 0, off |-> 0, read |-> {}]
  /\ stFed = {} /\ stTwice = {} /\ stMissed = {}
  /\ stFaults = StMaxFaults

-----------------------------------------------------------------------------
(* grok and the user write.                                                *)

\* A line is written in one go, or its first half is: what was left half by a
\* process that is gone makes one line of rubbish with what comes next.
Appends(d, r) ==
  /\ stMade < StMaxRec /\ stMade' = stMade + 1
  /\ stNewest' = d
  /\ IF stHalf[d] # Nothing
     THEN /\ stLog' = [stLog EXCEPT ![d] = Append(@, Record("junk", r.t, r.i))]
          /\ stHalf' = [stHalf EXCEPT ![d] = Nothing]
          /\ UNCHANGED stFaults
     ELSE \/ /\ stLog' = [stLog EXCEPT ![d] = Append(@, r)]
             /\ UNCHANGED <<stHalf, stFaults>>
          \/ /\ stFaults > 0 /\ stFaults' = stFaults - 1
             /\ stHalf' = [stHalf EXCEPT ![d] = r]
             /\ UNCHANGED stLog

Unread == <<stLoop, stTurn, stGrok, stSeen, stPending, stBridge, stFed, stTwice, stMissed>>

\* The rest of a line whose writer lives.
Completes(d) ==
  /\ stHalf[d] # Nothing
  /\ d # UserDir => stGrok = "runs" /\ stHalf[d].t = stTurn.n
  /\ stLog' = [stLog EXCEPT ![d] = Append(@, stHalf[d])]
  /\ stHalf' = [stHalf EXCEPT ![d] = Nothing]
  /\ stNewest' = d
  /\ UNCHANGED <<stMade, stFaults>> /\ UNCHANGED Unread

WriteDir == IF stTurn.mode = "stateless" THEN FreshDir ELSE OwnDir

InLog(d, k, t) == {i \in DOMAIN stLog[d] : stLog[d][i].k = k /\ stLog[d][i].t = t}
Over(d, t) == InLog(d, "end", t) # {}

\* A turn in the log: its start, calls and their results, its end.
Writable(d, t) ==
  {Record("start", t, 0), Record("call", t, stMade + 1), Record("end", t, 0)}
    \cup {Record("result", t, stLog[d][i].i) : i \in InLog(d, "call", t)}

InOrder(d, r) ==
  /\ r.k = "start" <=> ~\E i \in DOMAIN stLog[d] : stLog[d][i].t = r.t
  /\ r.k = "result" => ~\E i \in InLog(d, "result", r.t) : stLog[d][i].i = r.i
  /\ ~Over(d, r.t)

GrokWrites ==
  /\ stGrok = "runs"
  /\ \E r \in Writable(WriteDir, stTurn.n) :
       /\ InOrder(WriteDir, r)
       /\ stHalf[WriteDir].t # stTurn.n
       /\ Appends(WriteDir, r)
  /\ UNCHANGED Unread

\* The user's own grok, in a session of its own; turn 0.
UserWrites ==
  /\ stHalf[UserDir] = Nothing
  /\ \E r \in Writable(UserDir, 0) : InOrder(UserDir, r) /\ Appends(UserDir, r)
  /\ UNCHANGED Unread

-----------------------------------------------------------------------------
(* Reading.                                                                *)

\* The complete lines past the offset, by their place in the log, and the end
\* of the last.  A line begun before the offset is read from its middle, which
\* is no record.
Drained(d, off) == [recs |-> {i \in DOMAIN stLog[d] : 2 * i - 2 >= off}, off |-> IF Whole(d) > off THEN Whole(d) ELSE off]

Kinds(d, recs, k) == {stLog[d][i].i : i \in {j \in recs : stLog[d][j].k = k}}

\* The office is told; what it had been told before is noted, and why that was.
Tells(pre, post, who, why) ==
  LET now == {<<i, "pre">> : i \in pre} \cup {<<i, "post">> : i \in post}
      told == {<<f[1], f[2]>> : f \in stFed} IN
  /\ stFed' = stFed \cup {<<x[1], x[2], who>> : x \in now}
  /\ stTwice' = stTwice \cup {<<x[1], x[2], why>> : x \in now \cap told}

\* Only what comes now is of this turn.
Seeds(d) == IF d = 0 THEN 0 ELSE Size(d)

SeedDir(mode) == IF mode = "stateless" THEN stNewest ELSE OwnDir

\* A turn with a process of its own notes where it begins, and the pane's reads
\* on from there at once.
Begins(n, mode) ==
  LET d == SeedDir(mode) IN
  stTurn' = [NoTurn EXCEPT
    !.n = n, !.mode = mode, !.st = "runs", !.seedDir = d, !.seedOff = Seeds(d),
    !.dir = IF mode = "pane" THEN d ELSE 0, !.off = IF mode = "pane" THEN Seeds(d) ELSE 0]

StStart ==
  /\ stLoop /\ stTurn.st = "idle" /\ stTurn.n < StMaxTurn
  /\ \E mode \in {"resume", "stateless", "pane"} :
       /\ mode = "stateless" => stLog[FreshDir] = <<>> /\ stHalf[FreshDir] = Nothing
       /\ Begins(stTurn.n + 1, mode)
  /\ stGrok' = "runs" /\ stPending' = {}
  /\ UNCHANGED <<stLog, stHalf, stNewest, stMade, stLoop, stSeen, stBridge, stFed, stTwice, stMissed, stFaults>>

\* The session that is read: the one known, else the one written to last.
ReadDir == IF stTurn.mode = "stateless" THEN stNewest ELSE OwnDir
StartsAt(d) ==
  IF d = stTurn.dir THEN stTurn.off ELSE IF d = stTurn.seedDir THEN stTurn.seedOff ELSE 0

\* An end counts once the turn was seen to begin.
EndsBy(d, recs, begun) ==
  IF begun \/ \E i \in recs : stLog[d][i].k = "start" THEN {i \in recs : stLog[d][i].k = "end"} ELSE {}

Latest(S) == CHOOSE i \in S : \A j \in S : j <= i

Got == Drained(ReadDir, StartsAt(ReadDir))

\* How it comes that something is told again: off a session that is not the
\* turn's; or a session without an id was left, and is read from the start.
Why ==
  IF ReadDir # WriteDir THEN "foreign"
  ELSE IF stTurn.mode = "stateless" /\ ReadDir # stTurn.dir THEN "replayed" ELSE "again"

Calls == Kinds(ReadDir, Got.recs, "call") \ stSeen
Results == Kinds(ReadDir, Got.recs, "result")

\* grokLoopForwardHooks: a call is told once, a result as it comes.
ReadsLog ==
  /\ Tells(Calls, Results, "loop", Why)
  /\ UNCHANGED stPending

\* scanGrokToolEvents: a result is told only with its call.
ReadsPane ==
  /\ Tells(Calls, (stPending \cup Calls) \cap Results, "loop", Why)
  /\ stPending' = (stPending \cup Calls) \ Results

Reads == stSeen' = stSeen \cup Calls /\ IF stTurn.mode = "pane" THEN ReadsPane ELSE ReadsLog

StPump ==
  /\ stTurn.st = "runs" /\ stTurn.endedBy = 0 /\ stGrok = "runs"
  /\ ReadDir # 0
  /\ Reads
  /\ LET ends == EndsBy(ReadDir, Got.recs, stTurn.begun) IN
     stTurn' = [stTurn EXCEPT !.dir = ReadDir, !.off = Got.off,
                  !.begun = @ \/ \E i \in Got.recs : stLog[ReadDir][i].k = "start",
                  !.endedBy = IF ends = {} THEN 0 ELSE stLog[ReadDir][Latest(ends)].t + 1]
  /\ UNCHANGED <<stLog, stHalf, stNewest, stMade, stLoop, stGrok, stBridge, stMissed, stFaults>>

\* The calls of this turn that are in its own log, whole, and not told.
Due == {stLog[WriteDir][i].i : i \in InLog(WriteDir, "call", stTurn.n)}

Ends(untold) ==
  /\ stTurn' = [stTurn EXCEPT !.st = "idle"]
  /\ stMissed' = stMissed \cup untold
  /\ UNCHANGED <<stLog, stHalf, stNewest, stMade, stLoop, stSeen, stPending, stBridge, stFed, stTwice>>

\* The turn was seen to end: grok is killed, and nothing more is read.  (The
\* pane lives on.)
StFinish ==
  /\ stTurn.st = "runs" /\ stTurn.endedBy # 0
  /\ stGrok' = "gone"
  /\ Ends({}) /\ UNCHANGED stFaults

\* The watchdog, or an abandoned resume: killed, and nothing more is read.
StKilled ==
  /\ stTurn.st = "runs" /\ stTurn.endedBy = 0 /\ stGrok = "runs"
  /\ stFaults > 0 /\ stFaults' = stFaults - 1
  /\ stGrok' = "gone"
  /\ Ends({})

\* grok exits by itself, its last line written; the rest is read, and the
\* turn is over.
StExit ==
  /\ stTurn.st = "runs" /\ stTurn.endedBy = 0 /\ stGrok = "runs"
  /\ stHalf[WriteDir].t # stTurn.n
  /\ IF ReadDir = 0 THEN UNCHANGED <<stSeen, stPending, stFed, stTwice>> ELSE Reads
  /\ stTurn' = [stTurn EXCEPT !.st = "idle"]
  /\ stMissed' = stMissed \cup
       (IF stTurn.mode = "stateless" THEN {} ELSE {c \in Due : <<c, "pre", "loop">> \notin stFed'})
  /\ stGrok' = "gone"
  /\ UNCHANGED <<stLog, stHalf, stNewest, stMade, stLoop, stBridge, stFaults>>

-----------------------------------------------------------------------------
(* The bridge, and the loop's life.                                        *)

\* Where it begins: at the end of the session it finds first, at the start of
\* any it changes to.
BridgeAt(d) ==
  IF d = stBridge.dir THEN stBridge.off ELSE IF stBridge.dir = 0 THEN Size(d) ELSE 0

\* What it reads while a loop is alive it tells nobody.
StandsBack(recs) == IF stLoop THEN {} ELSE recs

StTick ==
  /\ stNewest # 0
  /\ LET d == stNewest
         got == Drained(d, BridgeAt(d))
         told == StandsBack(got.recs) IN
     /\ Tells(Kinds(d, told, "call"), Kinds(d, told, "result"), "bridge",
              IF d # stBridge.dir /\ d \in stBridge.read THEN "replayed" ELSE IF stLoop THEN "both" ELSE "handed over")
     /\ stBridge' = [dir |-> d, off |-> got.off, read |-> stBridge.read \cup {d}]
  /\ UNCHANGED <<stLog, stHalf, stNewest, stMade, stLoop, stTurn, stGrok, stSeen, stPending, stMissed, stFaults>>

\* The loop is killed; grok goes with it.
LoopDies ==
  /\ stLoop /\ stFaults > 0 /\ stFaults' = stFaults - 1
  /\ stLoop' = FALSE /\ stSeen' = {} /\ stPending' = {}
  /\ stGrok' = IF stGrok = "runs" THEN "gone" ELSE stGrok
  /\ stTurn' = [stTurn EXCEPT !.st = "idle"]
  /\ UNCHANGED <<stLog, stHalf, stNewest, stMade, stBridge, stFed, stTwice, stMissed>>

LoopComes ==
  /\ ~stLoop /\ stLoop' = TRUE
  /\ UNCHANGED <<stLog, stHalf, stNewest, stMade, stTurn, stGrok, stSeen, stPending, stBridge, stFed,
                 stTwice, stMissed, stFaults>>

StNext ==
  \/ GrokWrites \/ UserWrites \/ \E d \in StDir : Completes(d)
  \/ StStart \/ StPump \/ StFinish \/ StKilled \/ StExit
  \/ StTick \/ LoopDies \/ LoopComes

StSpec == StInit /\ [][StNext]_stVars

-----------------------------------------------------------------------------
StTypeOK ==
  /\ stMade \in 0..StMaxRec /\ stNewest \in 0..3
  /\ \A d \in StDir : \A i \in DOMAIN stLog[d] : stLog[d][i].k \in {"start", "call", "result", "end", "junk"}
  /\ stTurn.st \in {"idle", "runs"} /\ stTurn.endedBy \in 0..(StMaxTurn + 1)
  /\ stGrok \in {"none", "runs", "gone"} /\ stLoop \in BOOLEAN
  /\ stPending \subseteq 1..StMaxRec

\* A turn whose session is known is ended by the end of that very turn in the
\* log, whatever earlier turns, cut off or torn, have left there.
EndedByItself == stTurn.endedBy # 0 /\ stTurn.mode # "stateless" => stTurn.endedBy = stTurn.n + 1

\* No call of a turn that grok itself brought to an end is passed over, however
\* its lines were torn between the polls.
NoCallMissed == stMissed = {}

\* A call is told again only by a reader that changed back to a session it had
\* left, or a bridge that took over from a loop that had died, or off a session
\* that is not the turn's: never by a turn whose session is known.
ToldOnce == \A x \in stTwice : x[3] \in {"replayed", "handed over", "foreign"}

=============================================================================
