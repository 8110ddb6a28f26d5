----------------------------- MODULE MutationLock -----------------------------
(***************************************************************************)
(* The per-hub single-flight lock of hubMutationGuard.ts, promise by       *)
(* promise.  _chains maps a hub to the tracker promise of the last caller; *)
(* a caller starts when the tracker it found there has settled, and leaves *)
(* a tracker of its own that settles after it has, whether it threw or     *)
(* returned.  The map lives in a JavaScript context, so each tab has one.  *)
(* A promise is known by its number; 0 is the Promise.resolve() of a hub   *)
(* nobody has locked yet.                                                  *)
(***************************************************************************)
EXTENDS Naturals

CONSTANTS
    Callers,     \* calls of the lock functions
    Hubs,        \* dTags
    Contexts,    \* tabs and windows, each with its own _chains
    HubOf,       \* the hub each caller locks
    ContextOf    \* the context each caller runs in

ASSUME LockAssumption ==
    /\ HubOf \in [Callers -> Hubs]
    /\ ContextOf \in [Callers -> Contexts]

VARIABLES
    pc,        \* where each caller is
    mine,      \* the tracker a caller left in the map
    prev,      \* the tracker it found there
    chains,    \* each context's _chains
    settled,   \* the trackers that have settled
    made       \* the number of promises made

vars == <<pc, mine, prev, chains, settled, made>>

\* A caller ends by returning or by throwing.
Ended == {"returned", "threw"}

TypeOK ==
    /\ pc \in [Callers -> {"new", "waiting", "running"} \cup Ended]
    /\ mine \in [Callers -> Nat]
    /\ prev \in [Callers -> Nat]
    /\ chains \in [Contexts \X Hubs -> Nat]
    /\ settled \subseteq Nat
    /\ made \in Nat

Init ==
    /\ pc = [c \in Callers |-> "new"]
    /\ mine = [c \in Callers |-> 0]
    /\ prev = [c \in Callers |-> 0]
    /\ chains = [k \in Contexts \X Hubs |-> 0]
    /\ settled = {0}
    /\ made = 0

Slot(c) == <<ContextOf[c], HubOf[c]>>

\* Both functions read the map and write their tracker in one synchronous run.
Call(c) ==
    /\ pc[c] = "new"
    /\ pc' = [pc EXCEPT ![c] = "waiting"]
    /\ mine' = [mine EXCEPT ![c] = made + 1]
    /\ prev' = [prev EXCEPT ![c] = chains[Slot(c)]]
    /\ chains' = [chains EXCEPT ![Slot(c)] = made + 1]
    /\ made' = made + 1
    /\ UNCHANGED settled

\* prev.then(fn, fn), or the await of prev.catch.
Proceeds_Unawaited(c) == TRUE

Proceeds(c) == prev[c] \in settled

Start(c) ==
    /\ pc[c] = "waiting" /\ Proceeds(c)
    /\ pc' = [pc EXCEPT ![c] = "running"]
    /\ UNCHANGED <<mine, prev, chains, settled, made>>

\* fn resolves or rejects; with the imperative form, finally calls release.
Finish(c) ==
    /\ pc[c] = "running"
    /\ \E outcome \in Ended : pc' = [pc EXCEPT ![c] = outcome]
    /\ UNCHANGED <<mine, prev, chains, settled, made>>

\* The tracker maps both outcomes to undefined: run.then(() => undefined,
\* () => undefined), or prev.then(() => held, () => held).
Tracked_OnlyReturns(c) == pc[c] = "returned"

Tracked_OnCall(c) == pc[c] \in {"running"} \cup Ended

Tracked(c) == pc[c] \in Ended

Settle(c) ==
    /\ Tracked(c) /\ mine[c] \notin settled
    /\ settled' = settled \cup {mine[c]}
    /\ UNCHANGED <<pc, mine, prev, chains, made>>

Next == \E c \in Callers : Call(c) \/ Start(c) \/ Finish(c) \/ Settle(c)

Spec == Init /\ [][Next]_vars

\* Promise reactions run, and every mutation settles at last (its awaits time
\* out).  Nothing obliges the owner to call.
Fairness == \A c \in Callers : WF_vars(Start(c)) /\ WF_vars(Finish(c)) /\ WF_vars(Settle(c))

FairSpec == Spec /\ Fairness

-----------------------------------------------------------------------------
Exclusive(c, d) == ~(c # d /\ pc[c] = "running" /\ pc[d] = "running")

\* In one context the mutations of a hub run one at a time: each builds on what
\* the one before it left in the store.
MutualExclusion == \A c, d \in Callers : Slot(c) = Slot(d) => Exclusive(c, d)

\* A mutation that throws does not wedge the chain: every caller runs and ends.
EveryCallerRuns == \A c \in Callers : pc[c] = "waiting" ~> pc[c] \in Ended

-----------------------------------------------------------------------------
(* Why it works: the inductive invariant.                                   *)

Asked(c) == pc[c] # "new"

Started(c) == pc[c] \in {"running"} \cup Ended

\* d asked for c's lock before c did.
Before(d, c) == Slot(d) = Slot(c) /\ Asked(d) /\ Asked(c) /\ mine[d] < mine[c]

\* Trackers are numbered as they are made, one for each caller that asked.
Numbered ==
    /\ \A c \in Callers : Asked(c) => mine[c] \in 1..made
    /\ \A c, d \in Callers : Asked(c) /\ Asked(d) /\ mine[c] = mine[d] => c = d
    /\ settled \subseteq 0..made

\* The map names the last tracker of its slot.
Chained ==
    /\ \A k \in Contexts \X Hubs : chains[k] = 0 \/ \E d \in Callers :
          Asked(d) /\ Slot(d) = k /\ mine[d] = chains[k]
    /\ \A c \in Callers : Asked(c) => mine[c] <= chains[Slot(c)]

\* A caller found the tracker of the one just before it.
Linked ==
    \A c \in Callers : Asked(c) =>
       /\ prev[c] = 0 \/ \E d \in Callers : Before(d, c) /\ mine[d] = prev[c]
       /\ \A d \in Callers : Before(d, c) => mine[d] <= prev[c]

\* A tracker settles when its caller has ended, and a caller that started finds
\* everybody before it settled: no call overtakes another, whatever throws.
InOrder ==
    /\ \A c \in Callers : Asked(c) /\ mine[c] \in settled => pc[c] \in Ended
    /\ \A c, d \in Callers : Started(c) /\ Before(d, c) => mine[d] \in settled

Orderly == TypeOK /\ Numbered /\ Chained /\ Linked /\ InOrder

-----------------------------------------------------------------------------
(* The lock implements FifoMutex, per slot.  A caller that has ended leaves  *)
(* the abstract queue when its tracker settles.                              *)

Gone(c) == pc[c] \in Ended /\ mine[c] \in settled

AbstractState ==
    [c \in Callers |-> CASE pc[c] \in {"new", "waiting", "running"} -> pc[c]
                         [] Gone(c) -> "finished"
                         [] OTHER -> "running"]

AheadOf(c) ==
    IF pc[c] # "waiting" THEN {}
    ELSE {d \in Callers : Slot(d) = Slot(c) /\ pc[d] # "new" /\ ~Gone(d) /\ mine[d] < mine[c]}

Fifo == INSTANCE FifoMutex WITH HubOf <- [c \in Callers |-> Slot(c)],
                                state <- AbstractState,
                                ahead <- [c \in Callers |-> AheadOf(c)]

ImplementsFifo == Fifo!Spec

=============================================================================
