----------------------------- MODULE LaunchSlot -----------------------------
(***************************************************************************)
(* The launch slot of grok in a terminal (acquireTmuxLaunchSlot and         *)
(* launchSession of grok/tui.ts): every agent of a machine runs a loop of    *)
(* its own, and a lock file in ~/.grok puts their launches in a row.  Inside *)
(* the slot a loop waits out the spacing, makes its folder trusted in the    *)
(* shared file of grok and starts its pane.                                  *)
(*                                                                         *)
(* Time is abstract: a lock grows stale (15 s) and a waiter loses patience   *)
(* (45 s) when they like; what came of it is remembered in "causes".  All    *)
(* of a loop is synchronous here; the interleaving is that of processes.     *)
(***************************************************************************)
EXTENDS Naturals, FiniteSets

CONSTANTS
    Agent,          \* the loops of one machine
    MaxMishaps,     \* bound: loops killed while they launch, and locks outlived
    CanLock         \* ~/.grok can be written: "yes" or "no"

VARIABLES
    lock,           \* the lock file: who created it, and whether it is stale
    at,             \* where each loop is
    judged,         \* whether the lock a loop found stale is still there
    trusted,        \* the folders of trusted_folders.toml, and whether a key in it is
                    \* written the old, broken way
    read,           \* what a loop read of it
    mishaps,
    causes          \* history: why two launches may have met

lsVars == <<lock, at, judged, trusted, read, mishaps, causes>>

Free == [by |-> "none", age |-> "fresh"]

Nothing == [of |-> {}, bad |-> "no"]

\* A lock whose creator was killed before the time looked at.
Left == [by |-> "nobody", age |-> "stale"]

LsTypeOK ==
    /\ lock.by \in Agent \cup {"none", "nobody"} /\ lock.age \in {"fresh", "stale"}
    /\ at \in [Agent -> {"away", "wait", "steal", "space", "trust", "write", "up", "dead"}]
    /\ judged \in [Agent -> {"gone", "there"}]
    /\ trusted.of \subseteq Agent /\ trusted.bad \in {"no", "yes"}
    /\ mishaps \in 0..MaxMishaps
    /\ causes \subseteq {"slow", "killed", "impatient", "late", "lost"}

LsInit ==
    /\ lock \in (IF CanLock = "yes" THEN {Free, Left} ELSE {Free}) /\ at = [a \in Agent |-> "away"]
    /\ judged = [a \in Agent |-> "gone"]
    /\ trusted \in [of : SUBSET Agent, bad : {"no", "yes"}]
    /\ read = [a \in Agent |-> Nothing]
    /\ mishaps = 0 /\ causes = IF lock = Left THEN {"killed"} ELSE {}

\* Loops between the taking of the slot and its release.
Inside == {a \in Agent : at[a] \in {"space", "trust", "write"}}

Goes(a, pc) == at' = [at EXCEPT ![a] = pc]

(***************************************************************************)
(* Taking the slot                                                         *)
(***************************************************************************)

Wants(a) ==
    /\ at[a] = "away"
    /\ Goes(a, "wait")
    /\ UNCHANGED <<lock, judged, trusted, read, mishaps, causes>>

\* The exclusive create.
Creates(a) ==
    /\ at[a] = "wait" /\ lock.by = "none" /\ CanLock = "yes"
    /\ lock' = [by |-> a, age |-> "fresh"]
    /\ Goes(a, "space")
    /\ UNCHANGED <<judged, trusted, read, mishaps, causes>>

\* stat says the lock is older than TMUX_LOCK_STALE_MS; this comes before the
\* deadline is looked at.
Judges(a) ==
    /\ at[a] = "wait" /\ lock.by # "none" /\ lock.age = "stale"
    /\ judged' = [judged EXCEPT ![a] = "there"]
    /\ Goes(a, "steal")
    /\ UNCHANGED <<lock, trusted, read, mishaps, causes>>

\* The unlink removes whatever lock there is by then.
Steals(a) ==
    /\ at[a] = "steal"
    /\ lock' = Free /\ judged' = [b \in Agent |-> "gone"]
    /\ causes' = IF lock.by # "none" /\ judged[a] = "gone" THEN causes \cup {"late"} ELSE causes
    /\ Goes(a, "wait")
    /\ UNCHANGED <<trusted, read, mishaps>>

\* 45 s are over: the launch goes on without a lock, and without the spacing.  The
\* deadline is looked at only when there is a lock and it is not stale.
GivesUp(a) ==
    /\ at[a] = "wait" /\ lock.by # "none" /\ lock.age = "fresh"
    /\ causes' = causes \cup {"impatient"}
    /\ Goes(a, "trust")
    /\ UNCHANGED <<lock, judged, trusted, read, mishaps>>

Acquires(a) == Creates(a) \/ Judges(a) \/ Steals(a) \/ GivesUp(a)

(***************************************************************************)
(* In the slot                                                             *)
(***************************************************************************)

\* The spacing since the launch before is over.
Spaced(a) ==
    /\ at[a] = "space"
    /\ Goes(a, "trust")
    /\ UNCHANGED <<lock, judged, trusted, read, mishaps, causes>>

\* ensureGrokTrustAt: the file is read; a folder already in a sound file is enough.
ReadsTrust(a) ==
    /\ at[a] = "trust"
    /\ read' = [read EXCEPT ![a] = trusted]
    /\ Goes(a, "write")
    /\ UNCHANGED <<lock, judged, trusted, mishaps, causes>>

\* rebuildStore: every folder that was read, and the new one.
Rebuilt(a) == [of |-> read[a].of \cup {a}, bad |-> "no"]

\* A broken file is written anew from what was read of it, a sound one is appended to.
\* Then the pane of the agent is started, and the slot released: the lock file is
\* removed, whoever created it.
Launches(a) ==
    /\ at[a] = "write"
    /\ trusted' = IF read[a].bad = "yes" THEN Rebuilt(a) ELSE [trusted EXCEPT !.of = @ \cup {a}]
    /\ causes' = IF trusted.of \subseteq trusted'.of THEN causes ELSE causes \cup {"lost"}
    /\ lock' = Free /\ judged' = [b \in Agent |-> "gone"]
    /\ read' = [read EXCEPT ![a] = Nothing]
    /\ Goes(a, "up")
    /\ UNCHANGED mishaps

(***************************************************************************)
(* The surroundings                                                        *)
(***************************************************************************)

\* The lock is older than 15 s; its creator may well be at work still: the spacing is
\* 10 s and every command of tmux has a time limit of 15 s.
LockAges ==
    /\ lock.by # "none" /\ lock.age = "fresh"
    /\ lock' = [lock EXCEPT !.age = "stale"]
    /\ IF lock.by \in Inside
       THEN /\ mishaps < MaxMishaps /\ mishaps' = mishaps + 1
            /\ causes' = causes \cup {"slow"}
       ELSE UNCHANGED <<mishaps, causes>>
    /\ UNCHANGED <<at, judged, trusted, read>>

\* The loop is killed: nobody releases its lock.
Killed(a) ==
    /\ at[a] \in {"wait", "steal", "space", "write"} /\ mishaps < MaxMishaps
    /\ mishaps' = mishaps + 1 /\ causes' = causes \cup {"killed"}
    /\ read' = [read EXCEPT ![a] = Nothing]
    /\ Goes(a, "dead")
    /\ UNCHANGED <<lock, judged, trusted>>

\* The pane of an agent is gone, and its next turn needs a new one.
Again(a) ==
    /\ at[a] \in {"up", "dead"}
    /\ Goes(a, "away")
    /\ UNCHANGED <<lock, judged, trusted, read, mishaps, causes>>

LsNext ==
    \/ LockAges
    \/ \E a \in Agent : Wants(a) \/ Acquires(a) \/ Spaced(a) \/ ReadsTrust(a) \/ Launches(a)
                        \/ Killed(a) \/ Again(a)

LsFairness ==
    \A a \in Agent : /\ WF_lsVars(Acquires(a))
                     /\ WF_lsVars(Spaced(a) \/ ReadsTrust(a) \/ Launches(a))

LsSpec == LsInit /\ [][LsNext]_lsVars /\ LsFairness

(***************************************************************************)
(* Properties                                                              *)
(***************************************************************************)

\* Two loops launch at once only after one had the slot longer than 15 s, was killed
\* in it, or lost patience (tui.ts:430-436: a stampede becomes an orderly queue).
MeetingComesFrom == Cardinality(Inside) > 1 => causes \cap {"slow", "killed", "impatient"} # {}

\* A waiter removes a lock other than the one it found stale only after a lock was
\* left behind or outlived: the check and the unlink are two steps (tui.ts:455-459).
LateComesFrom == "late" \in causes => causes \cap {"slow", "killed"} # {}

\* A folder made trusted by one loop is lost to another only if launches met: the
\* broken file is rewritten from what was read before (trustStore.ts:122-137).
LostComesFrom == "lost" \in causes => causes \cap {"slow", "impatient", "late"} # {}

\* What the slot is for, in its parts (tui.ts:428-474).
SlotHolds == MeetingComesFrom /\ LateComesFrom /\ LostComesFrom

\* A loop that waits for the slot launches its pane in the end, whatever became of the
\* loops before it: "never blocks a turn forever" (tui.ts:448-449).
LaunchComes == \A a \in Agent : at[a] = "wait" ~> at[a] \in {"up", "dead"}
=============================================================================
