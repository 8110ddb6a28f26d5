-------------------------------- MODULE Publish --------------------------------
(***************************************************************************)
(* What the callers of publishWithFailover rely on: a publish stores the    *)
(* event on some relays and at last reports some of those.  A relay may     *)
(* store it after the report, or without being reported.                    *)
(***************************************************************************)
CONSTANT Relays

VARIABLES stored, reported, over

Init == stored = {} /\ reported = {} /\ over = FALSE

Store ==
    /\ \E r \in Relays \ stored : stored' = stored \cup {r}
    /\ UNCHANGED <<reported, over>>

Report ==
    /\ ~over /\ over' = TRUE
    /\ reported' \in SUBSET stored
    /\ UNCHANGED stored

Next == Store \/ Report

Spec == Init /\ [][Next]_<<stored, reported, over>>

=============================================================================
