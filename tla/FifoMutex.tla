------------------------------- MODULE FifoMutex -------------------------------
(***************************************************************************)
(* What the hub mutation lock promises: the callers of one hub run one at  *)
(* a time, in the order in which they asked, and callers of different hubs *)
(* do not wait for each other.  ahead[c] are the callers that c waits for. *)
(***************************************************************************)
CONSTANTS Callers, HubOf

VARIABLES state, ahead

States == {"new", "waiting", "running", "finished"}

Busy(hub) == {c \in Callers : HubOf[c] = hub /\ state[c] \in {"waiting", "running"}}

Init ==
    /\ state = [c \in Callers |-> "new"]
    /\ ahead = [c \in Callers |-> {}]

Ask(c) ==
    /\ state[c] = "new"
    /\ state' = [state EXCEPT ![c] = "waiting"]
    /\ ahead' = [ahead EXCEPT ![c] = Busy(HubOf[c])]

Enter(c) ==
    /\ state[c] = "waiting" /\ ahead[c] = {}
    /\ state' = [state EXCEPT ![c] = "running"]
    /\ UNCHANGED ahead

Leave(c) ==
    /\ state[c] = "running"
    /\ state' = [state EXCEPT ![c] = "finished"]
    /\ ahead' = [d \in Callers |-> ahead[d] \ {c}]

Next == \E c \in Callers : Ask(c) \/ Enter(c) \/ Leave(c)

Spec == Init /\ [][Next]_<<state, ahead>>

=============================================================================
