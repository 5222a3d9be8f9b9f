---------------------------- MODULE WorkerEntries ----------------------------
(***************************************************************************)
(* What the tree of connections shows of each connection that is asked of  *)
(* an Enterprise server: nothing, then a placeholder, once, which does not  *)
(* outlive the attempt, then its worker, once.  Whatever is taken away      *)
(* never comes back; only an attempt whose placeholder was cancelled may    *)
(* still turn into a worker.                                               *)
(***************************************************************************)
CONSTANT Attempts

VARIABLES
    entry,  \* what is shown of an attempt
    turn    \* whether its placeholder, its worker or nothing more may come

vars == <<entry, turn>>

Init ==
    /\ entry = [a \in Attempts |-> "none"]
    /\ turn = [a \in Attempts |-> "placeholder"]

Place(a) ==
    /\ turn[a] = "placeholder"
    /\ entry' = [entry EXCEPT ![a] = "placeholder"]
    /\ turn' = [turn EXCEPT ![a] = "worker"]

List(a) ==
    /\ turn[a] = "worker"
    /\ entry' = [entry EXCEPT ![a] = "worker"]
    /\ turn' = [turn EXCEPT ![a] = "over"]

\* Entries are taken away, and attempts end.
Leave(gone, ended) ==
    /\ \A a \in ended : entry[a] = "placeholder" => a \in gone
    /\ entry' = [a \in Attempts |-> IF a \in gone THEN "none" ELSE entry[a]]
    /\ turn' = [a \in Attempts |-> IF a \in ended THEN "over" ELSE turn[a]]

Next ==
    \/ \E a \in Attempts : Place(a) \/ List(a)
    \/ \E gone, ended \in SUBSET Attempts : Leave(gone, ended)

Spec == Init /\ [][Next]_vars
=============================================================================
