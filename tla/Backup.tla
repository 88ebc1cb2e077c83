------------------------------- MODULE Backup -------------------------------
(***************************************************************************)
(* Backing up an agent's workspace and restoring it, as the loop does on   *)
(* the office's word and once a day: what goes into the archive while the  *)
(* agent works on, the upload and its stamp, the download, and the order   *)
(* in which a restore puts files, identity, session state and traces back; *)
(* and what stores and files that cannot be read or written leave out.     *)
(*                                                                         *)
(* Of the files of the workspace three are followed: settings.json with    *)
(* the identity of the agent, session-state.json with the session a turn   *)
(* is to continue, last_backup.json with the time of the last backup; and  *)
(* of the providers the sessions they hold traces of.                      *)
(***************************************************************************)
EXTENDS Naturals, FiniteSets

CONSTANTS
  BkJob,       \* requests the loop can have under way
  BkUnkept,    \* sessions of providers whose traces no archive takes: copilot-sdk, grok
  BkMaxNow,    \* bound: moments, each with a new session
  BkMaxAsk,    \* bound: what the office asks for
  BkMaxFaults  \* bound: kills, failed transfers, what cannot be read or written

ASSUME BkBounds == BkMaxNow \in Nat /\ BkMaxNow >= 2 /\ BkMaxAsk \in Nat /\ BkMaxFaults \in Nat

VARIABLES
  bkWho,     \* whose identity settings.json holds: "me", "other", "nobody"; "broken" if unreadable
  bkSaved,   \* session-state.json: the session saved, 0 for none
  bkStamp,   \* last_backup.json: whose, when
  bkTraces,  \* the sessions the providers hold for this folder
  bkNow,     \* the clock; a new session is numbered by it
  bkOn,      \* exportEnabled
  bkUp,      \* the loop runs
  bkJob,     \* [BkJob -> a request]
  bkServer,  \* archives of this agent the office holds
  bkTorn,    \* history: what restores have left undone, "identity" where it was not
             \*   put back, "session" where the session state was not removed
  bkAsk, bkFaults

bkVars == <<bkWho, bkSaved, bkStamp, bkTraces, bkNow, bkOn, bkUp, bkJob, bkServer, bkTorn, bkAsk, bkFaults>>

NoArchive == [who |-> "nobody", saved |-> 0, stamp |-> [of |-> "none", at |-> 0], traces |-> {},
              connected |-> 0, captured |-> "none", at |-> 0]
NoJob == [st |-> "none", arch |-> NoArchive, kept |-> "nobody"]

\* What another agent's backup brings: made before settings were sanitized, or
\* since.
Others == {[NoArchive EXCEPT !.who = w, !.saved = 1, !.stamp = [of |-> "other", at |-> 2], !.traces = {1}, !.connected = 1,
                             !.captured = "yes"] : w \in {"other", "nobody"}}

BkInit ==
  /\ bkWho = "me" /\ bkSaved = 0 /\ bkStamp = [of |-> "none", at |-> 0]
  /\ bkTraces = {} /\ bkNow = 2
  /\ bkOn = TRUE /\ bkUp = TRUE
  /\ bkJob = [j \in BkJob |-> NoJob]
  /\ bkServer = {} /\ bkTorn = {}
  /\ bkAsk = BkMaxAsk /\ bkFaults = BkMaxFaults

Ticks == bkNow < BkMaxNow /\ bkNow' = bkNow + 1
Asks == bkAsk > 0 /\ bkAsk' = bkAsk - 1
Faulty == bkFaults > 0 /\ bkFaults' = bkFaults - 1
Goes(j, from, to) == bkJob[j].st = from /\ bkJob' = [bkJob EXCEPT ![j].st = to]
Stays == UNCHANGED <<bkWho, bkSaved, bkStamp, bkTraces>>

\* From the first file of a restore to its session state the loop does nothing
\* else; but it may be killed there.
Holds(j) == bkJob[j].st \in {"extract", "identity", "state"}
Alone(j) == \A i \in BkJob \ {j} : ~Holds(i)

-----------------------------------------------------------------------------
(* The agent works on.                                                     *)

\* A turn makes a session, or goes on with one; its id is saved at the end.
BkTurnBegins ==
  /\ bkUp /\ Ticks
  /\ bkTraces' = bkTraces \cup {bkNow'}
  /\ UNCHANGED <<bkWho, bkSaved, bkStamp, bkOn, bkUp, bkJob, bkServer, bkTorn, bkFaults, bkAsk>>

BkTurnEnds ==
  /\ bkUp /\ \A j \in BkJob : ~Holds(j)
  /\ \E s \in bkTraces : s # bkSaved /\ bkSaved' = s
  /\ UNCHANGED <<bkWho, bkStamp, bkTraces, bkNow, bkOn, bkUp, bkJob, bkServer, bkTorn, bkFaults, bkAsk>>

-----------------------------------------------------------------------------
(* Exporting.                                                              *)

\* Asked for by the office, or due when the loop starts: gated by the settings
\* the loop was started with.
ExportAsked(j) ==
  /\ bkUp /\ bkOn /\ Asks /\ Goes(j, "none", "files")
  /\ Stays /\ UNCHANGED <<bkNow, bkOn, bkUp, bkServer, bkTorn, bkFaults>>

\* One part of an archive is read, then the next.
Collects(j, from, to, arch) ==
  /\ bkJob[j].st = from /\ Alone(j)
  /\ bkJob' = [bkJob EXCEPT ![j].st = to, ![j].arch = arch]
  /\ Stays /\ UNCHANGED <<bkNow, bkOn, bkUp, bkServer, bkTorn, bkAsk>>

\* Mistake: settings.json goes into the archive as it is.
SanitizedNot(who) == who

\* settings.json without the identity; all of it is left out if it cannot be read.
Sanitized(who) == "nobody"

\* The files of the workspace, in one go.
ExportFiles(j) ==
  /\ Collects(j, "files", "manifest",
              [bkJob[j].arch EXCEPT !.who = Sanitized(bkWho), !.saved = bkSaved, !.stamp = bkStamp])
  /\ UNCHANGED bkFaults

\* The session state the manifest speaks of, whatever is collected then.
ExportManifest(j) ==
  /\ Collects(j, "manifest", "traces", [bkJob[j].arch EXCEPT !.connected = bkSaved])
  /\ UNCHANGED bkFaults

\* What the providers hold for this folder and an archive takes, whichever way
\* they keep it: files, directories that name their folder, rows.
Collected == bkTraces \ BkUnkept

\* tracesCaptured of the provider of session c: it found something and says so.
Captured(c) == IF c \in BkUnkept \cup {0} \/ Collected = {} THEN "none" ELSE "yes"

Traced(j, got, said) ==
  Collects(j, "traces", "upload", [bkJob[j].arch EXCEPT !.traces = got, !.captured = said])

\* One provider after the other, asked and waited for.  A store that cannot be
\* read, opencode's database or a directory, gives nothing, and the manifest
\* says so ("failed"); a file that cannot be read is passed over, and the
\* manifest does not ("holes").
ExportTraces(j) ==
  LET c == bkJob[j].arch.connected IN
  \/ Traced(j, Collected, Captured(c)) /\ UNCHANGED bkFaults
  \/ /\ Faulty
     /\ \E got \in SUBSET Collected :
          IF c \in Collected \ got
          THEN \E said \in {"failed", "holes"} : Traced(j, got, said)
          ELSE Traced(j, got, Captured(c))

Stamped == [of |-> "me", at |-> bkNow]

\* Answered: the time is noted.  Refused, or cut off: nothing is.
UploadDone(j) ==
  /\ bkJob[j].st = "upload" /\ Alone(j) /\ bkJob' = [bkJob EXCEPT ![j] = NoJob]
  /\ bkServer' = bkServer \cup {[bkJob[j].arch EXCEPT !.at = bkNow]}
  /\ bkStamp' = Stamped
  /\ UNCHANGED <<bkWho, bkSaved, bkTraces, bkNow, bkOn, bkUp, bkTorn, bkFaults, bkAsk>>

UploadFails(j) ==
  /\ bkJob[j].st = "upload" /\ bkJob' = [bkJob EXCEPT ![j] = NoJob]
  /\ Faulty
  /\ Stays /\ UNCHANGED <<bkNow, bkOn, bkUp, bkServer, bkTorn, bkAsk>>

-----------------------------------------------------------------------------
(* Restoring.                                                              *)

\* A backup of this agent, or of another that is to be taken over.
RestoreAsked(j) ==
  /\ bkUp /\ bkOn /\ bkJob[j].st = "none" /\ Asks
  /\ \E a \in bkServer \cup Others :
       bkJob' = [bkJob EXCEPT ![j] = [st |-> "download", arch |-> a, kept |-> "nobody"]]
  /\ Stays /\ UNCHANGED <<bkNow, bkOn, bkUp, bkServer, bkTorn, bkFaults>>

\* Cut off, the download is waited for for good; refused, it is over.
DownloadFails(j) ==
  /\ bkJob[j].st = "download" /\ Faulty
  /\ bkJob' \in {[bkJob EXCEPT ![j].st = "hangs"], [bkJob EXCEPT ![j] = NoJob]}
  /\ Stays /\ UNCHANGED <<bkNow, bkOn, bkUp, bkServer, bkTorn, bkAsk>>

\* The identity to be kept, unless settings.json cannot be read.
Keeps == IF bkWho = "broken" THEN "nobody" ELSE bkWho

Restores(j, from, to) == Goes(j, from, to) /\ Alone(j) /\ UNCHANGED <<bkNow, bkOn, bkUp, bkServer, bkAsk>>

\* The restore ends with an error; what it has written stays, and the loop is
\* not restarted.
RestoreThrows(j, from) ==
  /\ bkJob[j].st = from /\ Alone(j) /\ Faulty
  /\ bkJob' = [bkJob EXCEPT ![j] = NoJob]
  /\ UNCHANGED <<bkNow, bkOn, bkUp, bkServer, bkAsk>>

RestoreKeeps(j) ==
  /\ bkJob[j].st = "download" /\ Alone(j)
  /\ bkJob' = [bkJob EXCEPT ![j].st = "extract", ![j].kept = Keeps]
  /\ bkTorn' = IF bkWho = "broken" THEN bkTorn \cup {"identity"} ELSE bkTorn
  /\ Stays /\ UNCHANGED <<bkNow, bkOn, bkUp, bkServer, bkFaults, bkAsk>>

Files == {"settings", "session", "stamp"}

\* These files of archive a are on disk instead of the loop's own.
Replaced(files, a) ==
  /\ bkWho' = IF "settings" \in files THEN a.who ELSE bkWho
  /\ bkSaved' = IF "session" \in files THEN a.saved ELSE bkSaved
  /\ bkStamp' = IF "stamp" \in files THEN a.stamp ELSE bkStamp

\* What is to be done once these are on disk.
ToDo(files) == (IF "settings" \in files THEN {"identity"} ELSE {}) \cup (IF "session" \in files THEN {"session"} ELSE {})

\* All files of the archive, settings.json and the two others among them.  A
\* file that cannot be written is passed over; a directory that cannot be made
\* throws, and ends it there, as a kill in the midst would.
RestoreExtracts(j) ==
  LET a == bkJob[j].arch IN
  /\ \/ Restores(j, "extract", "identity") /\ Replaced(Files, a) /\ UNCHANGED <<bkTorn, bkFaults>>
     \/ Restores(j, "extract", "identity") /\ Faulty /\ UNCHANGED bkTorn /\ \E f \in SUBSET Files : Replaced(f, a)
     \/ RestoreThrows(j, "extract") /\ \E f \in SUBSET Files : Replaced(f, a) /\ bkTorn' = bkTorn \cup ToDo(f)
  /\ UNCHANGED bkTraces

\* Into the settings that are there now, if they can be read; that they cannot
\* be written is overlooked.
RestoreIdentity(j) ==
  /\ Restores(j, "identity", "state")
  /\ \/ /\ bkWho' = IF bkJob[j].kept = "nobody" \/ bkWho = "broken" THEN bkWho ELSE bkJob[j].kept
        /\ UNCHANGED <<bkTorn, bkFaults>>
     \/ Faulty /\ bkWho' \in {bkWho, "broken"} /\ bkTorn' = bkTorn \cup {"identity"}
  /\ UNCHANGED <<bkSaved, bkStamp, bkTraces>>

\* session-state.json is removed; that it cannot be is overlooked.
RestoreState(j) ==
  /\ Restores(j, "state", "back")
  /\ \/ bkSaved' = 0 /\ UNCHANGED <<bkTorn, bkFaults>>
     \/ Faulty /\ bkTorn' = bkTorn \cup {"session"} /\ UNCHANGED bkSaved
  /\ UNCHANGED <<bkWho, bkStamp, bkTraces>>

PutBack(traces) == bkTraces \cup traces

\* The traces into the providers' own stores, those that can be written; then
\* the loop is restarted.
RestoreTraces(j) ==
  /\ bkJob[j].st = "back" /\ bkJob' = [bkJob EXCEPT ![j] = NoJob]
  /\ \/ bkTraces' = PutBack(bkJob[j].arch.traces) /\ UNCHANGED bkFaults
     \/ Faulty /\ \E some \in SUBSET bkJob[j].arch.traces : bkTraces' = PutBack(some)
  /\ UNCHANGED <<bkWho, bkSaved, bkStamp, bkNow, bkOn, bkUp, bkServer, bkTorn, bkAsk>>

-----------------------------------------------------------------------------
(* The office, the user and the loop's process.                            *)

\* export_config, heeded once the loop starts anew.
ExportConfig ==
  /\ Asks /\ bkOn' = ~bkOn
  /\ Stays /\ UNCHANGED <<bkNow, bkUp, bkJob, bkServer, bkTorn, bkFaults>>

\* What a restore has still to undo of what it wrote.
Left(st) == CASE st = "identity" -> {"identity", "session"} [] st = "state" -> {"session"} [] OTHER -> {}

LoopKilled ==
  /\ bkUp /\ Faulty /\ bkUp' = FALSE
  /\ bkJob' = [j \in BkJob |-> NoJob]
  /\ bkTorn' = bkTorn \cup {what \in {"identity", "session"} : \E j \in BkJob : what \in Left(bkJob[j].st)}
  /\ Stays /\ UNCHANGED <<bkNow, bkOn, bkServer, bkAsk>>

\* A day or more since the last backup anybody noted here.
Due == bkOn /\ bkWho # "nobody" /\ bkStamp.at + 1 < bkNow

LoopStarts ==
  /\ ~bkUp /\ bkUp' = TRUE
  /\ \E j \in BkJob : bkJob' = [bkJob EXCEPT ![j].st = IF Due THEN "files" ELSE "none"]
  /\ Stays /\ UNCHANGED <<bkNow, bkOn, bkServer, bkTorn, bkFaults, bkAsk>>

\* An editor leaves settings.json unreadable.
SettingsBreak ==
  /\ bkWho = "me" /\ Faulty /\ bkWho' = "broken"
  /\ UNCHANGED <<bkSaved, bkStamp, bkTraces, bkNow, bkOn, bkUp, bkJob, bkServer, bkTorn, bkAsk>>

BkNext ==
  \/ BkTurnBegins \/ BkTurnEnds
  \/ \E j \in BkJob :
       \/ ExportAsked(j) \/ ExportFiles(j) \/ ExportManifest(j) \/ ExportTraces(j)
       \/ UploadDone(j) \/ UploadFails(j)
       \/ RestoreAsked(j) \/ DownloadFails(j) \/ RestoreKeeps(j) \/ RestoreExtracts(j)
       \/ RestoreIdentity(j) \/ RestoreState(j) \/ RestoreTraces(j)
  \/ ExportConfig \/ LoopKilled \/ LoopStarts \/ SettingsBreak

BkSpec == BkInit /\ [][BkNext]_bkVars

-----------------------------------------------------------------------------
BkTypeOK ==
  /\ bkWho \in {"me", "other", "nobody", "broken"}
  /\ bkSaved \in 0..BkMaxNow /\ bkTraces \subseteq 1..BkMaxNow /\ bkNow \in 2..BkMaxNow
  /\ bkStamp.at \in 0..BkMaxNow /\ bkTorn \subseteq {"identity", "session"}
  /\ \A j \in BkJob : bkJob[j].st \in {"none", "files", "manifest", "traces", "upload", "download", "hangs",
                                       "extract", "identity", "state", "back"}

\* The agent stays who it is through exports and restores in any order, unless
\* a restore left the identity undone: killed or thrown out of the extraction
\* with settings.json replaced, unable to write it, or to read it before.
StaysItself ==
  "identity" \notin bkTorn => bkWho \in {"me", "broken"} \/ \E j \in BkJob : bkJob[j].st = "identity"

\* The session a manifest calls connected is among the traces of its archive,
\* though a turn went on while it was built; or the manifest says that its
\* provider gave nothing, as it keeps nothing or could not be read; or a file
\* was passed over.  Except where a restore left a foreign session state.
Accounted(a) ==
  \/ a.connected = 0 \/ a.captured \in {"failed", "holes"}
  \/ a.captured = "none" /\ a.connected \in BkUnkept
  \/ a.captured = "yes" /\ a.connected \in a.traces

ConnectedIsThere == "session" \notin bkTorn => \A a \in bkServer : Accounted(a)

\* No archive of this agent's names an agent, and the stamp of a backup speaks
\* of an archive the office has.
StampIsTrue ==
  /\ \A a \in bkServer : a.who = "nobody"
  /\ bkStamp.of = "me" => \E a \in bkServer : a.at = bkStamp.at

\* A restored agent stays itself, and its archives are what they say, but for
\* what restores left undone and stores did not give (agentBackup/), in the
\* parts above.
BackupHolds == BkTypeOK /\ StaysItself /\ ConnectedIsThere /\ StampIsTrue
=============================================================================
