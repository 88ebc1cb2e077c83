----------------------------- MODULE McpConfig -----------------------------
(***************************************************************************)
(* The MCP servers of one workspace: .mcp.json, which is the source of     *)
(* truth, and the provider files that syncProjectMcpServers derives from   *)
(* it.  Several processes rewrite them without a lock: the `autodev mcp`   *)
(* commands, the loop (at its start and on mcp_update) and the operate     *)
(* bridge (on mcp_update).                                                 *)
(*                                                                         *)
(* One step is one read-modify-write of one file; steps of two processes   *)
(* interleave.  "claude" stands for the two Claude gates and "project" for *)
(* .vscode/mcp.json and opencode.json: each pair is written by one rule,   *)
(* one file after the other.  An entry is only its kind: commands, URLs    *)
(* and tokens are left out.                                                *)
(***************************************************************************)
EXTENDS Naturals, FiniteSets

CONSTANTS
  McProc,        \* processes that run commands
  McMaxCmd,      \* bound: commands
  McMaxFaults    \* bound: processes killed, files the user makes unreadable

Core == "memory"             \* stands for the built-ins that are always on
Office == "pixel-office"     \* the office's own entry
Own == "mine"                \* a server of the user's
Foreign == "foreign"         \* written into provider files by somebody else
Server == {Core, Office, Own}
File == {"claude", "project", "copilot", "grok"}
Merged == {"claude", "project"}          \* merged into; the others are rewritten whole
Present == {"builtin", "user"}
Absent == [s \in Server |-> "none"]

VARIABLES
  mcJson,     \* .mcp.json: kind of each entry ("off": kept, enabled: false)
  mcOffice,   \* settings.json: "unbound", "on", or "off" (disabledBuiltinMcp)
  mcFile,     \* provider files: kind of each entry
  mcForeign,  \* provider files that still hold the foreign entry
  mcOpaque,   \* provider files that JSON.parse refuses (comments, half an edit)
  mcProc,     \* the commands under way
  mcLeft, mcFaults,
  mcAsked,    \* history: what the commands asked for the user's entries
  mcRisk,     \* history: entries that two commands at once could reach
  mcGone,     \* history: entries taken out of .mcp.json altogether
  mcTaken,    \* history: entries of the user's under the name of a built-in
  mcLoose,    \* history: some command overlapped or died, and no sync alone since
  mcSpoilt    \* history: provider files read while they could not be parsed

mcVars == <<mcJson, mcOffice, mcFile, mcForeign, mcOpaque, mcProc, mcLeft, mcFaults,
            mcAsked, mcRisk, mcGone, mcTaken, mcLoose, mcSpoilt>>

Idle == [pc |-> "idle", user |-> Absent, eff |-> Absent, managed |-> {}, alone |-> FALSE]

McInit ==
  /\ mcJson = Absent
  /\ mcOffice = "unbound"
  /\ mcFile = [f \in File |-> Absent]
  /\ mcForeign = Merged
  /\ mcOpaque = {}
  /\ mcProc = [p \in McProc |-> Idle]
  /\ mcLeft = McMaxCmd /\ mcFaults = McMaxFaults
  /\ mcAsked = Absent
  /\ mcRisk = {} /\ mcGone = {} /\ mcTaken = {} /\ mcLoose = FALSE /\ mcSpoilt = {}

-----------------------------------------------------------------------------
(* What core/projectMcp.ts does to .mcp.json.                              *)

UserPart(json) == [s \in Server |-> IF json[s] = "builtin" THEN "none" ELSE json[s]]

\* saveProjectUserMcp: the user entries are replaced as a whole, built-ins stay.
WithUser(json, user) ==
  [s \in Server |-> IF user[s] # "none" THEN user[s]
                    ELSE IF json[s] = "builtin" THEN "builtin" ELSE "none"]

\* removeProjectUserMcp.
Without(json, s) == [json EXCEPT ![s] = "none"]

\* replaceProjectBuiltinMcp: the built-ins are replaced, also over a user entry.
WithBuiltins(json, names) ==
  [s \in Server |-> IF s \in names THEN "builtin"
                    ELSE IF json[s] = "builtin" THEN "none" ELSE json[s]]

\* Entries named like a default are the default's, whatever they are tagged.
Retag(user) == [user EXCEPT ![Core] = "none"]

Builtins(user) ==
  (IF user[Core] = "user" THEN {} ELSE {Core}) \cup (IF mcOffice = "on" THEN {Office} ELSE {})

\* The combined set fed to the providers: switched on entries over built-ins.
Effective(user) ==
  [s \in Server |-> IF user[s] = "user" THEN "user"
                    ELSE IF s \in Builtins(user) THEN "builtin" ELSE "none"]

Managed(eff) == {s \in Server : eff[s] # "none" \/ mcJson[s] # "none"} \cup {Core, Office}

\* ensureProjectMcpServersPresent: only adds, or switches on.
WithAll(json, eff, builtins) ==
  [s \in Server |->
     IF eff[s] = "none" THEN json[s]
     ELSE IF json[s] = "none" THEN (IF s \in builtins THEN "builtin" ELSE "user")
     ELSE IF json[s] = "off" THEN "user" ELSE json[s]]

-----------------------------------------------------------------------------
(* Commands.  A command loads, saves, and then syncs.                      *)

Others(p) == {q \in McProc \ {p} : mcProc[q].pc # "idle"}

\* A step of p: two commands under way at once put every entry at risk.
Crosses(p) ==
  /\ mcRisk' = IF Others(p) = {} THEN mcRisk ELSE Server
  /\ mcLoose' = (mcLoose \/ Others(p) # {})

\* .mcp.json becomes json.
Writes(json) ==
  /\ mcJson' = json
  /\ mcGone' = {s \in mcGone \cup {t \in Server : mcJson[t] # "none"} : json[s] = "none"}

Goes(p, rec) == mcProc' = [q \in McProc |-> IF q = p THEN rec
                                            ELSE [mcProc[q] EXCEPT !.alone = FALSE]]

Begin(p, pc, user) ==
  /\ mcProc[p].pc = "idle" /\ mcLeft > 0
  /\ mcLeft' = mcLeft - 1
  /\ Goes(p, [Idle EXCEPT !.pc = pc, !.user = user, !.alone = (Others(p) = {})])
  /\ Crosses(p)

Kept == UNCHANGED <<mcFile, mcForeign, mcOpaque, mcFaults, mcSpoilt>>

\* `mcp add`: the entries are read, this one is put in, and then all are saved.
McAdd(p, s) ==
  /\ Begin(p, "save", [UserPart(mcJson) EXCEPT ![s] = "user"])
  /\ mcAsked' = [mcAsked EXCEPT ![s] = "user"]
  /\ mcTaken' = IF s = Own THEN mcTaken ELSE mcTaken \cup {s}
  /\ UNCHANGED <<mcJson, mcOffice, mcGone>> /\ Kept

\* `mcp remove`: read, deleted and written by one call.
McRemove(p, s) ==
  /\ mcJson[s] \in {"user", "off"}
  /\ Begin(p, "load", Absent)
  /\ Writes(Without(mcJson, s))
  /\ mcAsked' = [mcAsked EXCEPT ![s] = "none"]
  /\ UNCHANGED <<mcOffice, mcTaken>> /\ Kept

\* `mcp enable` and `mcp disable` of a user entry.
McToggle(p, s, to) ==
  /\ mcJson[s] \in {"user", "off"} /\ s = Own
  /\ Begin(p, "save", [UserPart(mcJson) EXCEPT ![s] = to])
  /\ mcAsked' = [mcAsked EXCEPT ![s] = to]
  /\ UNCHANGED <<mcJson, mcOffice, mcGone, mcTaken>> /\ Kept

\* `mcp enable` and `mcp disable` of the office's entry, and `connect`.
McOffice(p, to) ==
  /\ mcOffice # to /\ (to = "off" => mcOffice = "on")
  /\ Begin(p, "load", Absent)
  /\ mcOffice' = to
  /\ UNCHANGED <<mcJson, mcAsked, mcGone, mcTaken>> /\ Kept

\* `mcp resync` and the start of a loop.
McResync(p) ==
  /\ Begin(p, "load", Absent)
  /\ UNCHANGED <<mcJson, mcOffice, mcAsked, mcGone, mcTaken>> /\ Kept

\* mcp_update: the office's list replaces the user's entries.  A list without a
\* safe entry is ignored, so the office's list always holds something.
McUpdate(p) ==
  /\ Begin(p, "load", Absent)
  /\ Writes(WithUser(mcJson, [Absent EXCEPT ![Own] = "user"]))
  /\ mcAsked' = [Absent EXCEPT ![Own] = "user"]
  /\ UNCHANGED <<mcOffice, mcTaken>> /\ Kept

McSave(p) ==
  /\ mcProc[p].pc = "save"
  /\ Writes(WithUser(mcJson, mcProc[p].user))
  /\ Goes(p, [mcProc[p] EXCEPT !.pc = "load", !.user = Absent])
  /\ Crosses(p)
  /\ UNCHANGED <<mcOffice, mcLeft, mcAsked, mcTaken>> /\ Kept

-----------------------------------------------------------------------------
(* The sync.                                                               *)

Sync(p, to) == Goes(p, to) /\ Crosses(p) /\ UNCHANGED <<mcOffice, mcLeft, mcFaults, mcAsked>>

\* The user entries are read; those under a default's name are taken out and
\* the rest saved again.
McLoad(p) ==
  /\ mcProc[p].pc = "load"
  /\ LET user == UserPart(mcJson) IN
     /\ Writes(IF user[Core] = "none" THEN mcJson ELSE WithUser(mcJson, Retag(user)))
     /\ Sync(p, [mcProc[p] EXCEPT !.pc = "builtins", !.user = Retag(user)])
  /\ UNCHANGED <<mcFile, mcForeign, mcOpaque, mcTaken, mcSpoilt>>

McBuiltins(p) ==
  /\ mcProc[p].pc = "builtins"
  /\ Writes(WithBuiltins(mcJson, Builtins(mcProc[p].user)))
  /\ Sync(p, [mcProc[p] EXCEPT !.pc = "claude", !.eff = Effective(mcProc[p].user)])
  /\ UNCHANGED <<mcFile, mcForeign, mcOpaque, mcTaken, mcSpoilt>>

\* _mergeJson on file f: what is managed follows the effective set, all else
\* stays; a file that cannot be parsed is started afresh.
MergesInto(f, managed, eff) ==
  LET old == IF f \in mcOpaque THEN Absent ELSE mcFile[f] IN
  /\ mcFile' = [mcFile EXCEPT ![f] = [s \in Server |-> IF s \in managed THEN eff[s] ELSE old[s]]]
  /\ mcForeign' = mcForeign \ (mcOpaque \cap {f})
  /\ mcSpoilt' = mcSpoilt \cup (mcOpaque \cap {f})
  /\ mcOpaque' = mcOpaque \ {f}

\* managedNames is computed, then the allow rules and enabledMcpjsonServers.
McClaude(p) ==
  /\ mcProc[p].pc = "claude"
  /\ LET managed == Managed(mcProc[p].eff) IN
     /\ MergesInto("claude", managed, mcProc[p].eff)
     /\ Sync(p, [mcProc[p] EXCEPT !.pc = "project", !.managed = managed])
  /\ UNCHANGED <<mcJson, mcGone, mcTaken>>

McProject(p) ==
  /\ mcProc[p].pc = "project"
  /\ MergesInto("project", mcProc[p].managed, mcProc[p].eff)
  /\ Sync(p, [mcProc[p] EXCEPT !.pc = "copilot", !.managed = {}, !.user = Absent])
  /\ UNCHANGED <<mcJson, mcGone, mcTaken>>

WritesWhole(p, f) ==
  /\ mcProc[p].pc = f
  /\ mcFile' = [mcFile EXCEPT ![f] = mcProc[p].eff]
  /\ UNCHANGED <<mcJson, mcGone, mcTaken, mcForeign, mcOpaque, mcSpoilt>>

\* .autodev/copilot-mcp.json is generated as a whole.
McCopilot(p) ==
  /\ WritesWhole(p, "copilot")
  /\ Sync(p, [mcProc[p] EXCEPT !.pc = "parity"])

\* Every server table of .grok/config.toml is dropped and written afresh.
McGrok(p) ==
  /\ WritesWhole(p, "grok")
  /\ Goes(p, Idle)
  /\ mcRisk' = IF Others(p) = {} THEN mcRisk ELSE Server
  /\ mcLoose' = (~mcProc[p].alone /\ (mcLoose \/ Others(p) # {}))
  /\ UNCHANGED <<mcOffice, mcLeft, mcFaults, mcAsked>>

\* Every server of the effective set is made present in .mcp.json, for grok.
McParity(p) ==
  /\ mcProc[p].pc = "parity"
  /\ Writes(WithAll(mcJson, mcProc[p].eff, {s \in Server : mcProc[p].eff[s] = "builtin"}))
  /\ Sync(p, [mcProc[p] EXCEPT !.pc = "grok"])
  /\ UNCHANGED <<mcFile, mcForeign, mcOpaque, mcTaken, mcSpoilt>>

-----------------------------------------------------------------------------
(* `autodev deprovision`: the office's entry is taken out of every file in *)
(* turn, of .mcp.json among them; a file that cannot be parsed is passed   *)
(* over, and the binding in settings.json stays.                           *)

Strips == [stripClaude |-> "stripJson", stripJson |-> "stripProject",
           stripProject |-> "stripCopilot", stripCopilot |-> "stripGrok", stripGrok |-> "idle"]
StripFile == [stripClaude |-> "claude", stripProject |-> "project",
              stripCopilot |-> "copilot", stripGrok |-> "grok"]

McDeprovision(p) ==
  /\ Begin(p, "stripClaude", Absent)
  /\ UNCHANGED <<mcJson, mcOffice, mcAsked, mcGone, mcTaken>> /\ Kept

\* editJson, and stripGrokToml for grok.
McStrip(p) ==
  /\ mcProc[p].pc \in DOMAIN Strips
  /\ LET pc == mcProc[p].pc IN
     /\ IF pc = "stripJson"
        THEN Writes(Without(mcJson, Office)) /\ UNCHANGED mcFile
        ELSE /\ mcFile' = IF StripFile[pc] \in mcOpaque THEN mcFile
                          ELSE [mcFile EXCEPT ![StripFile[pc]][Office] = "none"]
             /\ UNCHANGED <<mcJson, mcGone>>
     /\ Sync(p, IF Strips[pc] = "idle" THEN Idle ELSE [mcProc[p] EXCEPT !.pc = Strips[pc]])
  /\ UNCHANGED <<mcForeign, mcOpaque, mcTaken, mcSpoilt>>

-----------------------------------------------------------------------------
(* The world: a process is killed; the user leaves a file that JSON.parse  *)
(* refuses.                                                                *)

McKilled(p) ==
  /\ mcProc[p].pc # "idle" /\ mcFaults > 0
  /\ mcFaults' = mcFaults - 1
  /\ Goes(p, Idle)
  /\ mcLoose' = TRUE /\ mcRisk' = Server
  /\ UNCHANGED <<mcJson, mcOffice, mcFile, mcForeign, mcOpaque, mcLeft, mcAsked, mcGone, mcTaken, mcSpoilt>>

McOpaque(f) ==
  /\ f \in Merged \ mcOpaque /\ mcFaults > 0
  /\ mcFaults' = mcFaults - 1
  /\ mcOpaque' = mcOpaque \cup {f}
  /\ UNCHANGED <<mcJson, mcOffice, mcFile, mcForeign, mcProc, mcLeft, mcAsked, mcRisk, mcGone, mcTaken, mcLoose, mcSpoilt>>

McNext ==
  \/ \E p \in McProc :
       \/ \E s \in Server : McAdd(p, s) \/ McRemove(p, s)
       \/ \E to \in {"user", "off"} : McToggle(p, Own, to)
       \/ \E to \in {"on", "off"} : McOffice(p, to)
       \/ McResync(p) \/ McUpdate(p) \/ McDeprovision(p) \/ McSave(p) \/ McStrip(p)
       \/ McLoad(p) \/ McBuiltins(p) \/ McParity(p)
       \/ McClaude(p) \/ McProject(p) \/ McCopilot(p) \/ McGrok(p)
       \/ McKilled(p)
  \/ \E f \in Merged : McOpaque(f)

McSpec == McInit /\ [][McNext]_mcVars

-----------------------------------------------------------------------------
McQuiet == \A p \in McProc : mcProc[p].pc = "idle"

McTypeOK ==
  /\ mcJson \in [Server -> Present \cup {"none", "off"}]
  /\ mcOffice \in {"unbound", "on", "off"}
  /\ mcFile \in [File -> [Server -> Present \cup {"none"}]]
  /\ mcForeign \subseteq Merged /\ mcOpaque \subseteq Merged /\ mcSpoilt \subseteq Merged
  /\ \A p \in McProc : mcProc[p].pc \in {"idle", "save", "load", "builtins", "parity"} \cup File \cup DOMAIN Strips
  /\ mcGone \subseteq Server /\ mcTaken \subseteq Server /\ mcRisk \subseteq Server

\* When nothing is under way, every provider file lists exactly the servers
\* that .mcp.json has switched on, unless a command overlapped another or was
\* killed and no sync has run alone since.  Two entries are excepted by name:
\* one deleted from .mcp.json outright, which the merged files keep, and one
\* the user put under a built-in's name.
FilesFollow ==
  McQuiet /\ ~mcLoose =>
    \A f \in File, s \in Server :
      \/ mcFile[f][s] = (IF mcJson[s] \in Present THEN mcJson[s] ELSE "none")
      \/ mcJson = Absent              \* no sync has run yet
      \/ s \in mcGone /\ f \in Merged
      \/ s \in mcTaken
      \/ f \in mcOpaque              \* deprovision passes it over

\* .mcp.json holds the user's entry as the last command asked, on, off or not
\* at all, unless two commands could reach it at once or one was killed.
EntriesKept ==
  McQuiet => \A s \in Server \ (mcRisk \cup mcTaken \cup {Core, Office}) : mcJson[s] = mcAsked[s]

\* Entries of others leave the merged files only when the file could not be
\* parsed as a sync came by.
ForeignKept == \A f \in Merged : f \in mcForeign \/ f \in mcSpoilt

\* The two together: what the providers read is right, and nobody else's is lost.
FilesHold == FilesFollow /\ ForeignKept

=============================================================================
