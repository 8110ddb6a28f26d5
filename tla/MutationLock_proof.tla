-------------------------- MODULE MutationLock_proof --------------------------
(***************************************************************************)
(* The lock excludes, for any number of callers, hubs and contexts.  The   *)
(* inductive invariant is Orderly of MutationLock: the trackers of a slot   *)
(* form a chain in the order of the calls, and only the trackers of callers *)
(* that have ended settle.                                                  *)
(***************************************************************************)
EXTENDS MutationLock, TLAPS

LEMMA SlotType == \A c \in Callers : Slot(c) \in Contexts \X Hubs
  BY LockAssumption DEF Slot

LEMMA InitOrderly == Init => Orderly
  BY SlotType DEF Init, Orderly, TypeOK, Numbered, Chained, Linked, InOrder,
                  Asked, Started, Before, Ended

\* A new caller goes to the end of the chain of its slot.
LEMMA CallOrderly ==
  ASSUME Orderly, NEW c \in Callers, Call(c)
  PROVE  Orderly'
<1> USE SlotType DEF Call, Ended
<1>1. /\ \A d \in Callers : d # c => /\ pc'[d] = pc[d] /\ mine'[d] = mine[d]
                                     /\ prev'[d] = prev[d]
      /\ pc'[c] = "waiting" /\ mine'[c] = made + 1 /\ prev'[c] = chains[Slot(c)]
      /\ made' = made + 1 /\ made \in Nat /\ settled' = settled
      /\ \A k \in Contexts \X Hubs :
            chains'[k] = IF k = Slot(c) THEN made + 1 ELSE chains[k]
  BY DEF Orderly, TypeOK
<1>2. TypeOK'
  BY DEF Orderly, TypeOK
<1>3. \A d \in Callers : Asked(d) => mine[d] \in 1..made /\ mine[d] <= chains[Slot(d)]
  BY DEF Orderly, Numbered, Chained
<1>4. /\ Asked(c)' /\ ~Asked(c) /\ ~Started(c)'
      /\ \A d \in Callers : d # c => (Asked(d)' <=> Asked(d)) /\ (Started(d)' <=> Started(d))
  BY <1>1 DEF Asked, Started
<1>5. Numbered'
  <2>1. \A d \in Callers : Asked(d)' => mine'[d] \in 1..made'
    BY <1>1, <1>3, <1>4
  <2>2. \A d, e \in Callers : Asked(d)' /\ Asked(e)' /\ mine'[d] = mine'[e] => d = e
    BY <1>1, <1>3, <1>4 DEF Orderly, Numbered
  <2>3. settled' \subseteq 0..made'
    BY <1>1 DEF Orderly, Numbered
  <2> QED BY <2>1, <2>2, <2>3 DEF Numbered, Asked
<1>6. Chained'
  <2>1. ASSUME NEW k \in Contexts \X Hubs
        PROVE  chains'[k] = 0 \/ \E d \in Callers : Asked(d)' /\ Slot(d) = k /\ mine'[d] = chains'[k]
    <3>1. CASE k = Slot(c)
      BY <1>1, <1>4, <3>1
    <3>2. CASE k # Slot(c)
      <4>1. chains[k] = 0 \/ \E d \in Callers : Asked(d) /\ Slot(d) = k /\ mine[d] = chains[k]
        BY DEF Orderly, Chained
      <4> QED BY <1>1, <1>4, <3>2, <4>1
    <3> QED BY <3>1, <3>2
  <2>2. \A d \in Callers : Asked(d)' => mine'[d] <= chains'[Slot(d)]
    BY <1>1, <1>3, <1>4 DEF Orderly, TypeOK
  <2> QED BY <2>1, <2>2 DEF Chained, Asked, Slot
<1>7. \A d, e \in Callers : Before(d, e)' <=>
         \/ Before(d, e)
         \/ e = c /\ Asked(d) /\ Slot(d) = Slot(c)
  BY <1>1, <1>3, <1>4 DEF Before, Asked, Slot
<1>8. Linked'
  <2>1. ASSUME NEW e \in Callers, Asked(e)', e # c
        PROVE  /\ prev'[e] = 0 \/ \E d \in Callers : Before(d, e)' /\ mine'[d] = prev'[e]
               /\ \A d \in Callers : Before(d, e)' => mine'[d] <= prev'[e]
    <3>1. /\ prev[e] = 0 \/ \E d \in Callers : Before(d, e) /\ mine[d] = prev[e]
          /\ \A d \in Callers : Before(d, e) => mine[d] <= prev[e]
      BY <1>4, <2>1 DEF Orderly, Linked
    <3>2. \A d \in Callers : Before(d, e) => d # c
      BY <1>4 DEF Before
    <3> QED BY <1>1, <1>7, <2>1, <3>1, <3>2
  <2>2. /\ prev'[c] = 0 \/ \E d \in Callers : Before(d, c)' /\ mine'[d] = prev'[c]
        /\ \A d \in Callers : Before(d, c)' => mine'[d] <= prev'[c]
    <3>1. chains[Slot(c)] = 0 \/ \E d \in Callers :
             Asked(d) /\ Slot(d) = Slot(c) /\ mine[d] = chains[Slot(c)]
      BY DEF Orderly, Chained
    <3>2. \A d \in Callers : Asked(d) => d # c
      BY <1>4
    <3>3. \A d \in Callers : ~Before(d, c)
      BY <1>4 DEF Before
    <3> QED BY <1>1, <1>3, <1>7, <3>1, <3>2, <3>3
  <2> QED BY <2>1, <2>2 DEF Linked, Asked, Before, Slot
<1>9. InOrder'
  <2>1. ASSUME NEW d \in Callers, Asked(d)', mine'[d] \in settled'
        PROVE  pc'[d] \in Ended
    <3>1. d # c
      BY <1>1, <2>1 DEF Orderly, Numbered
    <3> QED BY <1>1, <1>4, <2>1, <3>1 DEF Orderly, InOrder
  <2>2. ASSUME NEW d \in Callers, NEW e \in Callers, Started(e)', Before(d, e)'
        PROVE  mine'[d] \in settled'
    <3>1. e # c /\ d # c /\ Before(d, e)
      BY <1>4, <1>7, <2>2 DEF Before
    <3> QED BY <1>1, <1>4, <2>2, <3>1 DEF Orderly, InOrder
  <2> QED BY <2>1, <2>2 DEF InOrder, Asked, Started, Before, Slot
<1> QED BY <1>2, <1>5, <1>6, <1>8, <1>9 DEF Orderly

\* A step that moves one caller's pc, and not out of "new", leaves the chain.
LEMMA ChainUntouched ==
  ASSUME Orderly, UNCHANGED <<mine, prev, chains, made>>, settled' \subseteq 0..made,
         \A d \in Callers : Asked(d)' <=> Asked(d)
  PROVE  /\ Numbered' /\ Chained' /\ Linked'
         /\ \A d, e \in Callers : Before(d, e)' <=> Before(d, e)
<1>1. \A d, e \in Callers : Before(d, e)' <=> Before(d, e)
  BY DEF Before, Slot
<1>2. Numbered'
  BY DEF Orderly, Numbered
<1>3. Chained'
  BY DEF Orderly, Chained, Slot
<1>4. Linked'
  BY <1>1 DEF Orderly, Linked
<1> QED BY <1>1, <1>2, <1>3, <1>4

\* A caller starts when the tracker it found has settled, and then everybody
\* before it has.
LEMMA StartOrderly ==
  ASSUME Orderly, NEW c \in Callers, Start(c)
  PROVE  Orderly'
<1> USE DEF Start, Ended
<1>1. /\ TypeOK' /\ Numbered' /\ Chained' /\ Linked'
      /\ \A d, e \in Callers : Before(d, e)' <=> Before(d, e)
  <2>1. TypeOK' /\ \A d \in Callers : Asked(d)' <=> Asked(d)
    BY DEF Orderly, TypeOK, Asked
  <2>2. settled' \subseteq 0..made
    BY DEF Orderly, Numbered
  <2> QED BY <2>1, <2>2, ChainUntouched
<1>2. ASSUME NEW d \in Callers, Before(d, c)
      PROVE  mine[d] \in settled
  <2>1. /\ prev[c] \in settled /\ mine[d] <= prev[c] /\ prev[c] \in Nat /\ mine[d] \in 1..made
    BY <1>2 DEF Proceeds, Orderly, Linked, Numbered, TypeOK, Asked, Before
  <2>2. PICK e \in Callers : Before(e, c) /\ mine[e] = prev[c]
    BY <1>2, <2>1 DEF Orderly, Linked, Before
  <2>3. Started(e)
    BY <2>1, <2>2 DEF Orderly, InOrder, Before, Started
  <2>4. CASE mine[d] = prev[c]
    BY <2>1, <2>4
  <2>5. CASE mine[d] < prev[c]
    <3>1. Before(d, e)
      BY <1>2, <2>2, <2>5 DEF Before
    <3> QED BY <2>3, <3>1 DEF Orderly, InOrder
  <2> QED BY <2>1, <2>4, <2>5
<1>3. InOrder'
  BY <1>1, <1>2 DEF Orderly, TypeOK, InOrder, Asked, Started, Before, Slot
<1> QED BY <1>1, <1>3 DEF Orderly

LEMMA FinishOrderly ==
  ASSUME Orderly, NEW c \in Callers, Finish(c)
  PROVE  Orderly'
<1> USE DEF Finish, Ended
<1>1. TypeOK' /\ \A d \in Callers : Asked(d)' <=> Asked(d)
  BY DEF Orderly, TypeOK, Asked
<1>2. /\ Numbered' /\ Chained' /\ Linked'
      /\ \A d, e \in Callers : Before(d, e)' <=> Before(d, e)
  <2>1. settled' \subseteq 0..made
    BY DEF Orderly, Numbered
  <2> QED BY <1>1, <2>1, ChainUntouched
<1>3. /\ \A d \in Callers : Started(d)' <=> Started(d)
      /\ \A d \in Callers : pc[d] \in Ended => pc'[d] \in Ended
  BY DEF Orderly, TypeOK, Started
<1>4. InOrder'
  BY <1>1, <1>2, <1>3 DEF Orderly, InOrder
<1> QED BY <1>1, <1>2, <1>4 DEF Orderly

LEMMA SettleOrderly ==
  ASSUME Orderly, NEW c \in Callers, Settle(c)
  PROVE  Orderly'
<1> USE DEF Settle, Tracked, Ended
<1>1. Asked(c)
  BY DEF Asked
<1>2. TypeOK' /\ settled' \subseteq 0..made /\ \A d \in Callers : Asked(d)' <=> Asked(d)
  <2>1. mine[c] \in 1..made /\ settled \subseteq 0..made /\ made \in Nat
    BY <1>1 DEF Orderly, TypeOK, Numbered
  <2>2. settled' \subseteq 0..made
    <3>1. settled' = settled \cup {mine[c]} /\ mine[c] \in 0..made
      BY <2>1
    <3> QED BY <2>1, <3>1 DEF Settle
  <2>3. TypeOK'
    BY <2>1, <2>2 DEF Orderly, TypeOK
  <2> QED BY <2>2, <2>3 DEF Asked
<1>3. /\ Numbered' /\ Chained' /\ Linked'
      /\ \A d, e \in Callers : Before(d, e)' <=> Before(d, e)
  BY <1>2, ChainUntouched
<1>4. \A d \in Callers : Asked(d) /\ mine[d] = mine[c] => d = c
  BY <1>1 DEF Orderly, Numbered
<1>5. InOrder'
  <2>1. \A d \in Callers : Asked(d)' /\ mine'[d] \in settled' => pc'[d] \in Ended
    BY <1>2, <1>4 DEF Orderly, InOrder
  <2>2. \A d, e \in Callers : Started(e)' /\ Before(d, e)' => mine'[d] \in settled'
    BY <1>3 DEF Orderly, InOrder, Started
  <2> QED BY <2>1, <2>2 DEF InOrder
<1> QED BY <1>2, <1>3, <1>5 DEF Orderly

LEMMA StepOrderly == Orderly /\ [Next]_vars => Orderly'
<1> SUFFICES ASSUME Orderly, [Next]_vars PROVE Orderly'
  OBVIOUS
<1>1. CASE UNCHANGED vars
  BY <1>1 DEF vars, Orderly, TypeOK, Numbered, Chained, Linked, InOrder,
              Asked, Started, Before, Slot
<1>2. CASE Next
  BY <1>2, CallOrderly, StartOrderly, FinishOrderly, SettleOrderly DEF Next
<1> QED BY <1>1, <1>2

\* The chain of promises keeps its order whatever the calls do, and no call
\* overtakes another (hubMutationGuard.ts, withHubMutationLock and
\* acquireHubMutationLock).
THEOREM AlwaysOrderly == Spec => []Orderly
  BY InitOrderly, StepOrderly, PTL DEF Spec

LEMMA OrderlyExcludes == Orderly => MutualExclusion
<1> SUFFICES ASSUME Orderly, NEW c \in Callers, NEW d \in Callers,
                    Slot(c) = Slot(d), c # d, pc[c] = "running", pc[d] = "running"
             PROVE  FALSE
  BY DEF MutualExclusion, Exclusive
<1>1. /\ Asked(c) /\ Asked(d) /\ Started(c) /\ Started(d)
      /\ pc[c] \notin Ended /\ pc[d] \notin Ended
  BY DEF Asked, Started, Ended
<1>2. mine[c] \in Nat /\ mine[d] \in Nat /\ mine[c] # mine[d]
  BY <1>1 DEF Orderly, TypeOK, Numbered
<1>3. Before(c, d) \/ Before(d, c)
  BY <1>1, <1>2 DEF Before
<1> QED BY <1>1, <1>3 DEF Orderly, InOrder

\* In one JavaScript context two membership mutations of a hub never run at the
\* same time, for any number of callers, hubs and contexts.
THEOREM LockExcludes == Spec => []MutualExclusion
  BY AlwaysOrderly, OrderlyExcludes, PTL

-----------------------------------------------------------------------------
(* The promise chain implements the FIFO mutex of FifoMutex.                *)

LEMMA AbstractValues ==
  ASSUME TypeOK, NEW c \in Callers
  PROVE  /\ pc[c] \in {"new", "waiting", "running"} => AbstractState[c] = pc[c]
         /\ Gone(c) => AbstractState[c] = "finished"
         /\ pc[c] \in Ended /\ ~Gone(c) => AbstractState[c] = "running"
         /\ pc[c] \in {"new", "waiting", "running"} \cup Ended
  BY DEF TypeOK, AbstractState, Gone, Ended

LEMMA NextAbstractValues ==
  ASSUME TypeOK', NEW c \in Callers
  PROVE  /\ pc'[c] \in {"new", "waiting", "running"} => AbstractState'[c] = pc'[c]
         /\ Gone(c)' => AbstractState'[c] = "finished"
         /\ pc'[c] \in Ended /\ ~Gone(c)' => AbstractState'[c] = "running"
         /\ pc'[c] \in {"new", "waiting", "running"} \cup Ended
  BY DEF TypeOK, AbstractState, Gone, Ended

\* A step that concerns one caller changes the abstract state of that caller only.
LEMMA OneMoves ==
  ASSUME TypeOK, TypeOK', NEW c \in Callers, NEW x, AbstractState'[c] = x,
         \A d \in Callers : d # c => pc'[d] = pc[d] /\ (Gone(d)' <=> Gone(d))
  PROVE  AbstractState' = [AbstractState EXCEPT ![c] = x]
<1>1. ASSUME NEW d \in Callers, d # c PROVE AbstractState'[d] = AbstractState[d]
  <2>1. pc'[d] = pc[d] /\ (Gone(d)' <=> Gone(d))
    BY <1>1
  <2> QED BY <2>1, AbstractValues, NextAbstractValues
<1>2. /\ AbstractState = [d \in Callers |-> AbstractState[d]]
      /\ AbstractState' = [d \in Callers |-> AbstractState'[d]]
  BY DEF AbstractState
<1> QED BY <1>1, <1>2

\* The callers a new one has to wait for are those that asked and are not gone.
LEMMA BusyValues ==
  ASSUME TypeOK, NEW c \in Callers
  PROVE  Fifo!Busy([d \in Callers |-> Slot(d)][c])
            = {d \in Callers : Slot(d) = Slot(c) /\ pc[d] # "new" /\ ~Gone(d)}
<1>1. \A d \in Callers : AbstractState[d] \in {"waiting", "running"} <=> pc[d] # "new" /\ ~Gone(d)
  BY AbstractValues DEF Gone, Ended
<1> QED BY <1>1 DEF Fifo!Busy

\* Calling is asking: the new caller waits for everybody that is not gone.
LEMMA CallAsks ==
  ASSUME Orderly, NEW c \in Callers, Call(c)
  PROVE  Fifo!Ask(c)
<1> USE DEF Call, Ended
<1>1. TypeOK /\ Orderly' /\ TypeOK'
  BY CallOrderly DEF Orderly
<1>2. /\ \A d \in Callers : d # c => pc'[d] = pc[d] /\ mine'[d] = mine[d]
      /\ pc[c] = "new" /\ pc'[c] = "waiting" /\ mine'[c] = made + 1
      /\ settled' = settled /\ made \in Nat
  BY <1>1 DEF TypeOK
<1>3. \A d \in Callers : pc[d] # "new" => mine[d] \in 1..made
  BY DEF Orderly, Numbered, Asked
<1>4. \A d \in Callers : Gone(d)' <=> Gone(d)
  BY <1>2 DEF Gone
<1>5. AbstractState' = [AbstractState EXCEPT ![c] = "waiting"]
  <2>1. AbstractState'[c] = "waiting"
    BY <1>1, <1>2, NextAbstractValues
  <2> QED BY <1>1, <1>2, <1>4, <2>1, OneMoves
<1>6. AheadOf(c)' = {d \in Callers : Slot(d) = Slot(c) /\ pc[d] # "new" /\ ~Gone(d)}
  BY <1>2, <1>3, <1>4 DEF AheadOf, Slot
<1>7. ASSUME NEW d \in Callers, d # c
      PROVE  AheadOf(d)' = AheadOf(d)
  <2>1. CASE pc[d] = "waiting"
    <3>1. mine[d] \in 1..made /\ ~(mine'[c] < mine'[d])
      BY <1>2, <1>3, <1>7, <2>1
    <3> QED BY <1>2, <1>4, <1>7, <2>1, <3>1 DEF AheadOf, Slot
  <2>2. CASE pc[d] # "waiting"
    BY <1>2, <1>7, <2>2 DEF AheadOf
  <2> QED BY <2>1, <2>2
<1>8. [d \in Callers |-> AheadOf(d)]'
         = [[d \in Callers |-> AheadOf(d)] EXCEPT ![c] = Fifo!Busy([d \in Callers |-> Slot(d)][c])]
  BY <1>1, <1>6, <1>7, BusyValues
<1>9. AbstractState[c] = "new"
  BY <1>1, <1>2, AbstractValues
<1> QED BY <1>5, <1>8, <1>9 DEF Fifo!Ask

\* Starting is entering: everybody the caller waited for is gone.
LEMMA StartEnters ==
  ASSUME Orderly, NEW c \in Callers, Start(c)
  PROVE  Fifo!Enter(c)
<1> USE DEF Start, Ended
<1>1. TypeOK /\ Orderly' /\ TypeOK'
  BY StartOrderly DEF Orderly
<1>2. /\ \A d \in Callers : d # c => pc'[d] = pc[d]
      /\ pc[c] = "waiting" /\ pc'[c] = "running" /\ mine' = mine /\ settled' = settled
  BY <1>1 DEF TypeOK
<1>3. \A d \in Callers : (Gone(d)' <=> Gone(d)) /\ (pc'[d] # "new" <=> pc[d] # "new")
  BY <1>2 DEF Gone
<1>4. AheadOf(c) = {}
  <2>1. SUFFICES ASSUME NEW d \in Callers, Slot(d) = Slot(c), pc[d] # "new", ~Gone(d),
                        mine[d] < mine[c]
                 PROVE  FALSE
    BY <1>2 DEF AheadOf
  <2>2. Before(d, c)' /\ Started(c)' /\ Asked(d)
    BY <1>2, <1>3, <2>1 DEF Before, Started, Asked, Slot
  <2>3. mine[d] \in settled
    BY <1>1, <1>2, <2>2 DEF Orderly, InOrder
  <2>4. pc[d] \in Ended
    BY <2>2, <2>3 DEF Orderly, InOrder
  <2> QED BY <2>1, <2>3, <2>4 DEF Gone
<1>5. \A d \in Callers : AheadOf(d)' = AheadOf(d)
  <2>1. AheadOf(c)' = {}
    BY <1>2 DEF AheadOf
  <2>2. ASSUME NEW d \in Callers, d # c PROVE AheadOf(d)' = AheadOf(d)
    BY <1>2, <1>3, <2>2 DEF AheadOf, Slot
  <2> QED BY <1>4, <2>1, <2>2
<1>6. AbstractState' = [AbstractState EXCEPT ![c] = "running"]
  <2>1. AbstractState'[c] = "running"
    BY <1>1, <1>2, NextAbstractValues
  <2> QED BY <1>1, <1>2, <1>3, <2>1, OneMoves
<1>7. AbstractState[c] = "waiting"
  BY <1>1, <1>2, AbstractValues
<1> QED BY <1>4, <1>5, <1>6, <1>7 DEF Fifo!Enter

\* Nobody notices the end of a mutation before its tracker settles.
LEMMA FinishStutters ==
  ASSUME Orderly, NEW c \in Callers, Finish(c)
  PROVE  UNCHANGED <<AbstractState, [d \in Callers |-> AheadOf(d)]>>
<1> USE DEF Finish, Ended
<1>1. TypeOK /\ TypeOK'
  BY FinishOrderly DEF Orderly
<1>2. /\ \A d \in Callers : d # c => pc'[d] = pc[d]
      /\ pc[c] = "running" /\ pc'[c] \in Ended /\ mine' = mine /\ settled' = settled
  BY <1>1 DEF TypeOK
<1>3. mine[c] \notin settled
  BY <1>2 DEF Orderly, InOrder, Asked
<1>4. \A d \in Callers : (Gone(d)' <=> Gone(d)) /\ (pc'[d] # "new" <=> pc[d] # "new")
                         /\ (pc'[d] = "waiting" <=> pc[d] = "waiting")
  BY <1>2, <1>3 DEF Gone
<1>5. \A d \in Callers : AheadOf(d)' = AheadOf(d)
  BY <1>2, <1>4 DEF AheadOf, Slot
<1>6. ASSUME NEW d \in Callers PROVE AbstractState'[d] = AbstractState[d]
  BY <1>2, <1>3, <1>4 DEF AbstractState, Gone
<1>7. AbstractState' = AbstractState
  BY <1>6 DEF AbstractState
<1> QED BY <1>5, <1>7

\* The settling of the tracker is what lets the next one in.
LEMMA SettleLeaves ==
  ASSUME Orderly, NEW c \in Callers, Settle(c)
  PROVE  Fifo!Leave(c)
<1> USE DEF Settle, Tracked, Ended
<1>1. TypeOK /\ pc' = pc /\ mine' = mine /\ settled' = settled \cup {mine[c]}
  BY DEF Orderly
<1>2. pc[c] \in Ended /\ ~Gone(c) /\ Gone(c)'
  BY <1>1 DEF Gone
<1>3. \A d \in Callers : d # c => (Gone(d)' <=> Gone(d))
  <2>1. SUFFICES ASSUME NEW d \in Callers, d # c, pc[d] \in Ended
                 PROVE  mine[d] # mine[c]
    BY <1>1 DEF Gone
  <2>2. Asked(c) /\ Asked(d)
    BY <2>1, <1>2 DEF Asked
  <2> QED BY <2>1, <2>2 DEF Orderly, Numbered
<1>4. AbstractState[c] = "running"
  BY <1>1, <1>2, AbstractValues
<1>5. AbstractState' = [AbstractState EXCEPT ![c] = "finished"]
  <2>1. TypeOK' /\ AbstractState'[c] = "finished"
    BY <1>2, SettleOrderly, NextAbstractValues DEF Orderly
  <2> QED BY <1>1, <1>3, <2>1, OneMoves
<1>6. \A d \in Callers : AheadOf(d)' = AheadOf(d) \ {c}
  BY <1>1, <1>2, <1>3 DEF AheadOf, Slot
<1>7. [d \in Callers |-> AheadOf(d)]'
         = [d \in Callers |-> [e \in Callers |-> AheadOf(e)][d] \ {c}]
  BY <1>6
<1> QED BY <1>4, <1>5, <1>7 DEF Fifo!Leave

\* withHubMutationLock and acquireHubMutationLock implement a first-in first-out
\* mutex for each hub and context, whatever the mutations throw.
THEOREM Implements == Spec => ImplementsFifo
<1>1. Init => Fifo!Init
  <2>1. SUFFICES ASSUME Init PROVE Fifo!Init
    OBVIOUS
  <2>2. TypeOK /\ \A c \in Callers : pc[c] = "new"
    BY <2>1, InitOrderly DEF Init, Orderly
  <2>3. \A c \in Callers : AbstractState[c] = "new" /\ AheadOf(c) = {}
    BY <2>2, AbstractValues DEF AheadOf
  <2>4. AbstractState = [c \in Callers |-> AbstractState[c]]
    BY DEF AbstractState
  <2>5. AbstractState = [c \in Callers |-> "new"]
    BY <2>3, <2>4
  <2>6. [c \in Callers |-> AheadOf(c)] = [c \in Callers |-> {}]
    BY <2>3
  <2> QED BY <2>5, <2>6 DEF Fifo!Init
<1>2. ASSUME Orderly, [Next]_vars
      PROVE  [Fifo!Next]_<<AbstractState, [c \in Callers |-> AheadOf(c)]>>
  <2>1. ASSUME NEW c \in Callers, Call(c) PROVE Fifo!Next
    BY <1>2, <2>1, CallAsks DEF Fifo!Next
  <2>2. ASSUME NEW c \in Callers, Start(c) PROVE Fifo!Next
    BY <1>2, <2>2, StartEnters DEF Fifo!Next
  <2>3. ASSUME NEW c \in Callers, Settle(c) PROVE Fifo!Next
    BY <1>2, <2>3, SettleLeaves DEF Fifo!Next
  <2>4. CASE UNCHANGED vars
    BY <2>4 DEF vars, AbstractState, AheadOf, Gone, Slot
  <2> QED BY <1>2, <2>1, <2>2, <2>3, <2>4, FinishStutters DEF Next
<1> QED BY <1>1, <1>2, AlwaysOrderly, PTL DEF Spec, ImplementsFifo, Fifo!Spec

=============================================================================
