--------------------------- MODULE Conversations ---------------------------
(***************************************************************************)
(* Which conversation a turn of the loop continues: the session id saved   *)
(* in .autodev/session-state.json, the one a live client holds, what the   *)
(* dispatcher discovers when nothing is saved, and what the loop captures  *)
(* at the end of a turn; against everything that is meant to start anew (a *)
(* reset every N tasks, /clear, the restore of a backup).                  *)
(*                                                                         *)
(* Three kinds of provider: "live" keeps one client across turns (the      *)
(* Claude client), "list" asks the provider for its newest session of this *)
(* folder (a process per turn of OpenCode), "probe" has a new session made *)
(* (a process per turn of Claude).  Sessions are numbered as they are      *)
(* created; session 1 is that of the agent the backup was taken from.      *)
(***************************************************************************)
EXTENDS Naturals, Sequences

CONSTANTS
  CvMaxSess,    \* bound: sessions, the one in the backup included
  CvMaxTurn,    \* bound: turns
  CvMaxUser,    \* bound: what the user and the office ask for
  CvMaxFaults   \* bound: kills, probes and captures that fail, sessions begun by hand

VARIABLES
  cvKind,     \* the kind of provider
  cvSaved,    \* session-state.json: the session to resume, 0 for none
  cvCleared,  \* session-state.json: sessions up to here are from before a clear
  cvStore,    \* the provider's own sessions of this folder, latest used last
  cvNext,     \* the next session
  cvClient,   \* the session of the live client, 0 for no client
  cvLatest,   \* _latestSessionIds: in memory only
  cvTurn,     \* the turns
  cvLookup,   \* a lookup begun at the end of a turn is under way
  cvClear,    \* a /clear under way: "no", or the session it was begun for
  cvBound,    \* settings.json names this agent
  cvRestore,  \* a restore: "no", or the step it is at
  cvUser, cvFaults,
  cvFresh,    \* history: sessions up to here were to be left behind
  cvWhy,      \* history: what has brought sessions back since
  cvLeaks     \* history: ways by which the other agent's session can come in

cvVars == <<cvKind, cvSaved, cvCleared, cvStore, cvNext, cvClient, cvLatest, cvTurn, cvLookup,
            cvClear, cvBound, cvRestore, cvUser, cvFaults, cvFresh, cvWhy, cvLeaks>>

CvTurn == 1..CvMaxTurn
Other == 1
NoTurn == [st |-> "none", s |-> 0, since |-> 0, excused |-> FALSE, awaited |-> FALSE]

CvInit ==
  /\ cvKind \in {"live", "list", "probe"}
  /\ cvSaved = 0 /\ cvCleared = 0
  /\ cvStore = <<>> /\ cvNext = 2
  /\ cvClient = 0 /\ cvLatest = 0
  /\ cvTurn = [t \in CvTurn |-> NoTurn]
  /\ cvLookup = FALSE /\ cvClear = "no"
  /\ cvBound = TRUE /\ cvRestore = "no"
  /\ cvUser = CvMaxUser /\ cvFaults = CvMaxFaults
  /\ cvFresh = 0 /\ cvWhy = {} /\ cvLeaks = {}

Last(q) == IF q = <<>> THEN 0 ELSE q[Len(q)]
Used(s) == Append(SelectSeq(cvStore, LAMBDA x : x # s), s)

\* The newest session of this folder made after notBefore, 0 for none.
Latest(notBefore) == Last(SelectSeq(cvStore, LAMBDA x : notBefore = 0 \/ x > notBefore))

Faulty == cvFaults > 0 /\ cvFaults' = cvFaults - 1
Asked == cvUser > 0 /\ cvUser' = cvUser - 1

\* Sessions that come to be used, each with the way it came: some were to be
\* left behind, or are another's.  What merely was saved excuses nothing.
Brings(ways) ==
  /\ cvWhy' = cvWhy \cup ({w[2] : w \in {v \in ways : v[1] # 0 /\ v[1] <= cvFresh}} \ {"saved", "found"})
  /\ cvLeaks' = cvLeaks \cup {w[2] : w \in {v \in ways : v[1] = Other}}

Awaits == \E t \in CvTurn : cvTurn[t].awaited

-----------------------------------------------------------------------------
(* The dispatcher.                                                         *)

\* Mistake: what a clear left behind is looked up all the same.
ResolvedWhatever ==
  IF cvSaved # 0 THEN {cvSaved}
  ELSE IF cvKind = "list" THEN {Latest(0)}
  ELSE IF cvKind = "probe" /\ cvNext <= CvMaxSess THEN {cvNext, 0} ELSE {0}

\* The saved session; or one that is discovered, 0 for a new one.
Resolved ==
  IF cvSaved # 0 THEN {cvSaved}
  ELSE IF cvKind = "list" THEN {Latest(cvCleared), 0}
  ELSE IF cvKind = "probe" /\ cvNext <= CvMaxSess THEN {cvNext, 0} ELSE {0}

\* The session a turn for which s was resolved runs in: the client's, if one
\* is live, whatever was resolved.
Held(s) == IF cvKind = "live" /\ cvClient # 0 THEN cvClient ELSE s

Way(s, r) == IF s = cvSaved THEN "saved" ELSE IF Held(r) # r THEN "held" ELSE "found"

\* A turn that runs in session s, made now if it is new.
Runs(t, s, awaited) ==
  /\ s <= cvNext /\ cvNext <= CvMaxSess + 1
  /\ cvNext' = IF s = cvNext THEN cvNext + 1 ELSE cvNext
  /\ cvStore' = Used(s)
  /\ cvClient' = IF cvKind = "live" THEN s ELSE cvClient
  /\ cvLatest' = IF cvKind = "live" THEN s ELSE cvLatest
  /\ cvTurn' = [cvTurn EXCEPT ![t] =
       [st |-> "run", s |-> s, since |-> cvFresh, excused |-> cvWhy' # {}, awaited |-> awaited]]

\* The session is resolved, what was discovered is saved, and the turn starts.
\* A discovery may fail, at the cost of a fault.
Dispatches(t, awaited) ==
  /\ cvTurn[t].st = "none" /\ \A u \in 1..(t - 1) : cvTurn[u].st # "none"
  /\ \E r \in Resolved :
       LET new == Held(r) = 0
           s == IF new THEN cvNext ELSE Held(r) IN
       /\ s <= CvMaxSess
       /\ IF r = 0 /\ Resolved # {0} THEN Faulty ELSE UNCHANGED cvFaults
       \* the newest file is saved while the process has yet to write its own
       /\ cvSaved' = IF cvSaved # 0 THEN cvSaved
                     ELSE IF r # 0 THEN r
                     ELSE IF cvKind = "probe" THEN Last(cvStore) ELSE 0
       /\ Brings({<<s, Way(s, r)>>, <<IF cvSaved' \in {cvSaved, r} THEN 0 ELSE cvSaved', "newest">>})
       /\ Runs(t, s, awaited)

TurnStarts(t) ==
  /\ ~Awaits /\ cvClear # "loop"
  /\ Dispatches(t, TRUE)
  /\ UNCHANGED <<cvKind, cvCleared, cvLookup, cvClear, cvBound, cvRestore, cvUser, cvFresh>>

-----------------------------------------------------------------------------
(* The end of a turn.                                                      *)

\* Its id is captured: from the client, from the hooks, from its output.
TurnEnds(t) ==
  /\ cvTurn[t].st = "run"
  /\ cvTurn' = [cvTurn EXCEPT ![t].st = "done", ![t].awaited = FALSE]
  /\ cvStore' = Used(cvTurn[t].s)
  /\ IF ~cvTurn[t].awaited
     THEN UNCHANGED <<cvSaved, cvLookup, cvFaults, cvWhy, cvLeaks>>
     ELSE \/ /\ cvSaved' = IF cvKind = "live" THEN cvLatest ELSE cvTurn[t].s
             /\ Brings({<<cvSaved', IF cvKind = "live" THEN "held" ELSE "captured">>})
             /\ UNCHANGED <<cvLookup, cvFaults>>
          \* no event and no output names a session
          \/ /\ cvKind = "list" /\ Faulty
             /\ cvLookup' = TRUE
             /\ UNCHANGED <<cvSaved, cvWhy, cvLeaks>>
          \/ /\ cvKind = "probe" /\ Faulty
             /\ cvSaved' = Last(cvStore')
             /\ Brings({<<cvSaved', "newest">>})
             /\ UNCHANGED cvLookup
  /\ UNCHANGED <<cvKind, cvCleared, cvNext, cvClient, cvLatest, cvClear, cvBound, cvRestore, cvUser, cvFresh>>

\* A turn that fails: the client is evicted and nothing is captured.
TurnFails(t) ==
  /\ cvTurn[t].st = "run" /\ Faulty
  /\ cvTurn' = [cvTurn EXCEPT ![t].st = "done", ![t].awaited = FALSE]
  /\ cvClient' = 0
  /\ UNCHANGED <<cvKind, cvSaved, cvCleared, cvStore, cvNext, cvLatest, cvLookup, cvClear, cvBound,
                 cvRestore, cvUser, cvFresh, cvWhy, cvLeaks>>

\* The lookup is awaited by nobody, and heeds no clear.
LookupLands ==
  /\ cvLookup /\ cvLookup' = FALSE
  /\ cvSaved' = IF cvStore = <<>> THEN cvSaved ELSE Last(cvStore)
  /\ Brings({<<cvSaved', "late">>})
  /\ UNCHANGED <<cvKind, cvCleared, cvStore, cvNext, cvClient, cvLatest, cvTurn, cvClear, cvBound,
                 cvRestore, cvUser, cvFaults, cvFresh>>

-----------------------------------------------------------------------------
(* Starting anew.                                                          *)

\* clearSessionId.
Clears ==
  /\ cvSaved' = 0 /\ cvCleared' = cvNext' - 1
  /\ cvFresh' = cvNext' - 1
  /\ cvWhy' = IF cvRestore = "no" THEN {} ELSE {"restore"}

\* Every N tasks: a summary is asked for, which is dispatched and not waited
\* for; then the id is cleared.  A live client stays.
ResetWrites(t) ==
  \E r \in Resolved :
    LET s == IF Held(r) = 0 THEN cvNext ELSE Held(r) IN
    /\ s <= CvMaxSess
    /\ IF r = 0 /\ Resolved # {0} THEN Faulty ELSE UNCHANGED cvFaults
    /\ cvNext' = IF s = cvNext THEN cvNext + 1 ELSE cvNext
    /\ cvStore' = Used(s)
    /\ cvClient' = IF cvKind = "live" THEN s ELSE cvClient
    /\ cvLatest' = IF cvKind = "live" THEN s ELSE cvLatest
    /\ cvLeaks' = IF s = Other THEN cvLeaks \cup {Way(s, r)} ELSE cvLeaks
    /\ cvTurn' = [cvTurn EXCEPT ![t] =
         [st |-> "run", s |-> s, since |-> cvFresh, awaited |-> FALSE,
          excused |-> cvWhy # {} \/ (s <= cvFresh /\ Held(r) # r)]]

Reset(t) ==
  /\ ~Awaits /\ cvClear # "loop" /\ Asked
  /\ cvTurn[t].st = "none" /\ \A u \in 1..(t - 1) : cvTurn[u].st # "none"
  /\ ResetWrites(t)
  /\ Clears
  /\ UNCHANGED <<cvKind, cvLookup, cvClear, cvBound, cvRestore>>

\* /clear: by the office at any time and awaited by nobody, or by the loop when
\* a turn ended because its context keeps overflowing.  It goes to the live
\* client, which is started for it if there is none, and to a process of its
\* own otherwise.  OpenCode knows no clear.
ClearBegins(by) ==
  /\ cvKind # "list" /\ cvClear = "no" /\ Asked
  /\ by = "loop" => ~Awaits
  /\ cvClear' = by
  /\ IF cvKind = "live" /\ cvSaved = 0 /\ cvLatest = 0
     THEN FALSE                                    \* no session to clear
     ELSE cvClient' = IF cvKind = "live" /\ cvClient = 0
                      THEN (IF cvSaved # 0 THEN cvSaved ELSE cvLatest) ELSE cvClient
  /\ cvLeaks' = IF cvClient' = Other THEN cvLeaks \cup {"saved"} ELSE cvLeaks
  /\ UNCHANGED <<cvKind, cvSaved, cvCleared, cvStore, cvNext, cvLatest, cvTurn, cvLookup, cvBound,
                 cvRestore, cvFaults, cvFresh, cvWhy>>

\* Done: the client is evicted, and with it the turn that ran in it; then the
\* id is cleared.
ClearEnds ==
  /\ cvClear # "no" /\ cvClear' = "no"
  /\ cvClient' = 0
  /\ cvTurn' = IF cvKind = "live"
               THEN [t \in CvTurn |-> IF cvTurn[t].st = "run" THEN [cvTurn[t] EXCEPT !.st = "done", !.awaited = FALSE]
                                      ELSE cvTurn[t]]
               ELSE cvTurn
  /\ UNCHANGED cvNext /\ Clears
  /\ UNCHANGED <<cvKind, cvStore, cvLatest, cvLookup, cvBound, cvRestore, cvUser, cvFaults, cvLeaks>>

-----------------------------------------------------------------------------
(* Restoring the backup of another agent, by the loop or by `autodev       *)
(* import`.                                                                *)

RestoreStep(from, to) ==
  /\ cvRestore = from /\ cvRestore' = to
  /\ UNCHANGED <<cvKind, cvNext, cvClient, cvLatest, cvTurn, cvLookup, cvClear, cvFaults, cvFresh>>

\* The files of the workspace, its session-state.json and a settings.json that
\* names nobody among them.
RestoreFiles ==
  /\ Asked /\ RestoreStep("no", "identity")
  /\ cvSaved' = Other /\ cvCleared' = 0 /\ cvBound' = FALSE
  /\ cvWhy' = cvWhy \cup {"restore"} /\ cvLeaks' = cvLeaks \cup {"torn"}
  /\ UNCHANGED cvStore

RestoreIdentity ==
  /\ RestoreStep("identity", "state")
  /\ cvBound' = TRUE
  /\ UNCHANGED <<cvSaved, cvCleared, cvStore, cvUser, cvWhy, cvLeaks>>

\* session-state.json is removed: nothing saved, and no clear remembered.
RestoreState ==
  /\ RestoreStep("state", "traces")
  /\ cvSaved' = 0 /\ cvCleared' = 0
  /\ cvLeaks' = IF cvLeaks \cap {"saved", "killed"} = {} THEN cvLeaks \ {"torn"} ELSE cvLeaks
  /\ UNCHANGED <<cvStore, cvBound, cvUser, cvWhy>>

\* The traces are put where the provider looks for this folder's sessions:
\* files as written now, rows as last used.
RestoreTraces ==
  /\ RestoreStep("traces", "no")
  /\ cvStore' \in {Used(Other)} \cup
                  (IF cvKind = "list" THEN {<<Other>> \o SelectSeq(cvStore, LAMBDA x : x # Other)} ELSE {})
  /\ UNCHANGED <<cvSaved, cvCleared, cvBound, cvUser, cvWhy, cvLeaks>>

-----------------------------------------------------------------------------
(* The user and the world.                                                 *)

\* `autodev resume`.
UserResumes ==
  /\ Asked
  /\ \E i \in DOMAIN cvStore : cvSaved' = cvStore[i]
  /\ Brings({<<cvSaved', "chosen">>})
  /\ UNCHANGED <<cvKind, cvCleared, cvStore, cvNext, cvClient, cvLatest, cvTurn, cvLookup, cvClear,
                 cvBound, cvRestore, cvFaults, cvFresh>>

\* The loop is restarted, or its process killed: the client goes, and in a new
\* process so does what was remembered of it.
LoopEnds(killed) ==
  /\ IF killed THEN Faulty /\ UNCHANGED cvUser ELSE Asked /\ UNCHANGED cvFaults
  /\ cvClient' = 0
  /\ cvLatest' = IF killed THEN 0 ELSE cvLatest
  /\ cvTurn' = [t \in CvTurn |-> IF cvTurn[t].st = "run" THEN [cvTurn[t] EXCEPT !.st = "done", !.awaited = FALSE]
                                 ELSE cvTurn[t]]
  /\ cvLookup' = (cvLookup /\ ~killed)
  /\ cvClear' = IF killed THEN "no" ELSE cvClear
  /\ cvRestore' = IF killed THEN "no" ELSE cvRestore
  /\ cvLeaks' = IF killed /\ cvRestore # "no" THEN cvLeaks \cup {"killed"} ELSE cvLeaks
  /\ UNCHANGED <<cvKind, cvSaved, cvCleared, cvStore, cvNext, cvBound, cvFresh, cvWhy>>

CvNext ==
  \/ \E t \in CvTurn : TurnStarts(t) \/ TurnEnds(t) \/ TurnFails(t) \/ Reset(t)
  \/ LookupLands \/ ClearBegins("loop") \/ ClearBegins("office") \/ ClearEnds
  \/ RestoreFiles \/ RestoreIdentity \/ RestoreState \/ RestoreTraces
  \/ UserResumes \/ LoopEnds(TRUE) \/ LoopEnds(FALSE)

CvSpec == CvInit /\ [][CvNext]_cvVars

-----------------------------------------------------------------------------
CvTypeOK ==
  /\ {cvSaved, cvCleared, cvClient, cvLatest, cvFresh} \subseteq 0..CvMaxSess
  /\ cvNext \in 2..(CvMaxSess + 1)
  /\ \A i \in DOMAIN cvStore : cvStore[i] \in 1..CvMaxSess
  /\ \A t \in CvTurn : cvTurn[t].st \in {"none", "run", "done"} /\ cvTurn[t].s \in 0..CvMaxSess
  /\ cvLookup \in BOOLEAN /\ cvBound \in BOOLEAN
  /\ cvClear \in {"no", "loop", "office"} /\ cvRestore \in {"no", "identity", "state", "traces"}

\* A turn begun after the conversation was to start anew continues one from
\* before only if something brought that back: a client that was still live, a
\* lookup or a capture that heeds no clear, the user, a restore.
FreshStaysFresh ==
  \A t \in CvTurn : cvTurn[t].st = "run" /\ cvTurn[t].s <= cvTurn[t].since => cvTurn[t].excused

\* A turn runs in another agent's conversation only after a restore was cut
\* short or overlapped by a turn, or after the restored traces were discovered
\* as the folder's own, or by the user's choice.
OwnConversation ==
  \A t \in CvTurn : cvTurn[t].st = "run" /\ cvTurn[t].s = Other => cvLeaks \cap {"torn", "found", "newest", "late", "chosen"} # {}

-----------------------------------------------------------------------------

=============================================================================
