--------------------------- MODULE ChannelMessagesMC ---------------------------
(***************************************************************************)
(* One device of the author and one of another member.                     *)
(***************************************************************************)
EXTENDS ChannelMessages

CONSTANTS a1, m1

Writes == [d \in Device |-> IF d = m1 THEN 2 ELSE 0]

=============================================================================
