--------------------------- MODULE MCRemoteDesktop ---------------------------
(***************************************************************************)
(* For TLC: what the office opens into a workspace, its remote desktops     *)
(* (RemoteDesktop), and who holds its connection there (Presence), once     *)
(* with two bridges beside a loop and once with two loops beside a bridge.  *)
(* The parts share no state: a behaviour is one of one part, and the other  *)
(* stays where it started.                                                  *)
(***************************************************************************)
EXTENDS RemoteDesktop, Presence

VARIABLE part

MCInit == part \in {"desktops", "bridges", "loops"} /\ RdInit /\ PrInit

\* Of four processes three ever start.
Three ==
    IF part = "loops"
    THEN \E b \in Bridge : prPhase'[b] = "none"
    ELSE \E l \in Loop : prPhase'[l] = "none"

MCNext ==
    \/ part = "desktops" /\ RdNext /\ UNCHANGED <<part, prVars>>
    \/ part # "desktops" /\ PrNext /\ Three /\ UNCHANGED <<part, rdVars>>

Online == part # "desktops"

\* The fairness each part states, for the part that is looked at.
MCFairness ==
    /\ \A s \in Session :
        /\ WF_rdVars(part = "desktops" /\ TimesOut(s))
        /\ WF_rdVars(part = "desktops" /\ RdpReconnect(s))
    /\ \A p \in Loop \cup Bridge :
        /\ WF_prVars(Online /\ Connect(p))
        /\ WF_prVars(Online /\ Evicted(p))
    /\ \A b \in Bridge :
        /\ WF_prVars(Online /\ Opened(b))
        /\ WF_prVars(Online /\ Reconcile(b))
        /\ WF_prVars(Online /\ Supersede(b))
    /\ WF_prVars(Online /\ PresenceAges)

MCSpec == MCInit /\ [][MCNext]_<<part, rdVars, prVars>> /\ MCFairness

-----------------------------------------------------------------------------
(* Properties: those of the parts, stated and explained where they are      *)
(* defined.                                                                 *)

\* The handshake of an RDP session and the wait before it reconnects end; one
\* connection of a workspace is left in the end, and one there is while a
\* process that should hold it stays up: RdpSettles, Settles, StaysOnline.
AllEnds ==
    /\ RdpSettles
    /\ <>[](Online /\ AtMostOneLoop) => <>[]OneConnection
    /\ <>[](Online /\ Staffed) => <>[](prOffice # "none")
=============================================================================
