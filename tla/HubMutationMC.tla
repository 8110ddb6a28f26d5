---------------------------- MODULE HubMutationMC ----------------------------
(***************************************************************************)
(* Small instances of HubMutation: which mutations start on which device.  *)
(***************************************************************************)
EXTENDS HubMutation, TLC

CONSTANTS d1, d2, m1, m2

\* The mutations of one device.
SameDevice == [o \in Ops |-> d1]

\* One mutation on each of two devices.
OneEach == [o \in Ops |-> IF o = 1 THEN d1 ELSE d2]

OneMember == {m1}

BothMembers == {m1, m2}

OneBan == {m2}

NoOne == {}

RelaySymmetry == Permutations(Relays)

TwoOps == 1..2

ThreeOps == 1..3

\* The mutations of one device are alike, so they are clicked in the order of their
\* numbers; of two events with one created_at always the earlier or always the later
\* one wins.  A click is never owed, and a mutation that sends finds a number for its
\* event: no fair step is ruled out.
InOrder ==
    /\ \A o \in Ops \ {1} : op'[o].pc # "idle" => op'[o - 1].pc # "idle"
    /\ \/ \A o \in Ops : op'[o].event.id \in {0, o}
       \/ \A o \in Ops : op'[o].event.id \in {0, 4 - o}

=============================================================================
