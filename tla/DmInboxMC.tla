------------------------------- MODULE DmInboxMC -------------------------------
(***************************************************************************)
(* A text and the file that belongs to it.                                 *)
(***************************************************************************)
EXTENDS DmInbox

CONSTANTS t1, f1

OneFile == [f \in {f1} |-> t1]

\* The file's wrap has the later stamp.
Stamped == [w \in Wrap |-> IF w = t1 THEN 1 ELSE 2]

\* The text's unwrap may fail until it is given up.
OftenFails == [w \in Wrap |-> IF w = t1 THEN 2 ELSE 0]

=============================================================================
