----------------------------- MODULE SteerQueue -----------------------------
(***************************************************************************)
(* What the durable steer queue promises (the header of pendingSteers.ts): *)
(* a steer that was accepted waits until the agent has run it to its end,  *)
(* at least once, and only then it is settled.  Nothing is said of how     *)
(* often it runs, or of crashes: a steer that waits simply waits on.       *)
(***************************************************************************)
CONSTANT Steer

VARIABLES
    waiting,    \* steers accepted and not settled
    ran,        \* steers the agent has run to their end
    settled     \* steers nobody will be asked to run again

vars == <<waiting, ran, settled>>

Init == waiting = {} /\ ran = {} /\ settled = {}

Accept(s) ==
    /\ s \notin settled
    /\ waiting' = waiting \cup {s}
    /\ UNCHANGED <<ran, settled>>

Run(s) ==
    /\ s \in waiting
    /\ ran' = ran \cup {s}
    /\ UNCHANGED <<waiting, settled>>

Settle(s) ==
    /\ s \in waiting /\ s \in ran
    /\ waiting' = waiting \ {s}
    /\ settled' = settled \cup {s}
    /\ UNCHANGED ran

Next == \E s \in Steer : Accept(s) \/ Run(s) \/ Settle(s)

Spec == Init /\ [][Next]_vars
=============================================================================
