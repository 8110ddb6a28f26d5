---------------------------- MODULE MutationLockMC ----------------------------
(***************************************************************************)
(* Four callers of one hub: three in one tab, the last in a second one.    *)
(***************************************************************************)
EXTENDS MutationLock

CONSTANTS hubA, tab1, tab2

FourCallers == 1..4

OneHub == [c \in Callers |-> hubA]

LastElsewhere == [c \in Callers |-> IF c = 4 THEN tab2 ELSE tab1]

=============================================================================
