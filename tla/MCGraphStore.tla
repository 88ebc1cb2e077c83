---------------------------- MODULE MCGraphStore ----------------------------
(***************************************************************************)
(* For TLC: what several processes keep on one disk.  The project graph     *)
(* (GraphStore) and the backups of an agent (Backup).  The parts share no   *)
(* state: a behaviour is one of one part, and the other stays where it      *)
(* started.                                                                 *)
(***************************************************************************)
EXTENDS GraphStore, Backup, TLC

VARIABLE part

\* The processes, which are the requests of a backup too, are interchangeable, and so
\* are the facts; no property looks beyond a step.
Symmetry == Permutations(Store) \cup Permutations(Fact)

MCInit ==
    /\ part \in {"graph", "backup"}
    /\ Init /\ BkInit
    /\ part # "graph" => log = <<>>

MCNext ==
    \/ part = "graph" /\ Next /\ UNCHANGED <<part, bkVars>>
    \/ part = "backup" /\ BkNext /\ UNCHANGED <<part, vars>>

MCSpec == MCInit /\ [][MCNext]_<<part, vars, bkVars>>
=============================================================================
